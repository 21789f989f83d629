--------------------------------- MODULE Bridge --------------------------------
(***************************************************************************)
(* The bridge of a CLI that keeps its credential in a file and rotates it  *)
(* (src/bridge/cli_bridge.py).  Requests start the CLI one after the other *)
(* through one slot (cli_slot); a request whose caller leaves or whose     *)
(* time is over gives the slot back, with or without killing its process.  *)
(* A process may refresh its token: it presents the refresh token it has   *)
(* read, gets the next one and writes it to auth.json.  The provider takes *)
(* away the whole credential if a used token is presented again.           *)
(*                                                                         *)
(* The CLI here is Codex: it draws pictures into a directory that all its  *)
(* runs share, and lists its models on demand.                             *)
(***************************************************************************)
EXTENDS Naturals, Sequences, FiniteSets, SequencesExt

CONSTANTS
    Requests,
    Kinds,              \* what is asked of the bridge, among AllKinds
    Slow,               \* kinds of which a process may run into its time-out
    Dropped,            \* kinds whose callers may leave
    MAX_CREDENTIAL,     \* bound: how often a credential is registered
    MAX_TOKEN,          \* bound: refreshes of one credential
    MAX_RESTARTS        \* bound

AllKinds == {"chat", "image", "usage", "probe", "check"}

BridgeAssumption ==
    /\ Kinds \subseteq AllKinds
    /\ MAX_CREDENTIAL \in Nat \ {0} /\ MAX_TOKEN \in Nat /\ MAX_RESTARTS \in Nat

VARIABLES
    phase,              \* [Requests -> where the request is]
    kind,               \* [Requests -> Kinds]
    line,               \* who waits for the slot, first come first served
    holder,             \* who has the slot: {} or one request
    waiting,            \* _WAITING
    procs,              \* processes: of which request, with which token
    probed, found,      \* _PROBED; the models are known
    stored,             \* the credential that is registered
    file, seed,         \* auth.json and the credential it was last made from, 0 for none
    current,            \* provider: the valid refresh token of each credential
    revoked,            \* provider: credentials it has taken away
    shared,             \* pictures in generated_images, by the request that drew them
    seen,               \* [Requests -> pictures that were there before the run]
    given,              \* pictures handed out: request -> whose they are
    restarts

vars == <<phase, kind, line, holder, waiting, procs, probed, found, stored, file, seed,
          current, revoked, shared, seen, given, restarts>>
slot == <<line, holder, waiting>>
keys == <<stored, file, seed, current, revoked>>
pictures == <<shared, seen, given>>

Credentials == 1..MAX_CREDENTIAL
NoFile == [of |-> 0, token |-> 0]
Tokens == [of : Credentials, token : 0..MAX_TOKEN]

Init ==
    /\ phase = [r \in Requests |-> "new"] /\ kind = [r \in Requests |-> "chat"]
    /\ line = <<>> /\ holder = {} /\ waiting = 0
    /\ procs = {} /\ probed = FALSE /\ found = FALSE
    /\ stored = 1 /\ file = NoFile /\ seed = 0
    /\ current = [c \in Credentials |-> 0] /\ revoked = {}
    /\ shared = {} /\ seen = [r \in Requests |-> {}] /\ given = [r \in Requests |-> {}]
    /\ restarts = 0

Processes(r) == {p \in procs : p.of = r}

-----------------------------------------------------------------------------

\* Mutant: the file is made from what is registered each time.
SeededAlways == [of |-> stored, token |-> 0]

\* _seed_auth_file: what was registered is laid down once; from then on the file is the CLI's.
Seeded ==
    IF file # NoFile /\ (seed = stored \/ file = [of |-> stored, token |-> 0])
    THEN file ELSE [of |-> stored, token |-> 0]

\* A request comes in: its credential is laid down before it waits for the slot.  The
\* models are not asked for while the CLI is busy or once they were asked for.
Arrive(r, k) ==
    /\ phase[r] = "new"
    /\ k = "probe" => ~probed /\ holder = {}
    /\ phase' = [phase EXCEPT ![r] = "waits"]
    /\ kind' = [kind EXCEPT ![r] = k]
    /\ probed' = (probed \/ k = "probe")
    /\ file' = Seeded /\ seed' = stored
    /\ line' = Append(line, r) /\ waiting' = waiting + 1
    /\ UNCHANGED <<holder, procs, found, stored, current, revoked, pictures, restarts>>

\* Mutant: one more may enter.
SlotLoose == Cardinality(holder) <= 1

\* The slot is free and r is first: the CLI starts and reads its token.
SlotFree == holder = {}

Enter(r) ==
    /\ SlotFree /\ line # <<>> /\ Head(line) = r
    /\ holder' = holder \cup {r} /\ line' = Tail(line) /\ waiting' = waiting - 1
    /\ phase' = [phase EXCEPT ![r] = "runs"]
    /\ procs' = procs \cup {[of |-> r, token |-> file]}
    /\ seen' = [seen EXCEPT ![r] = shared]
    /\ UNCHANGED <<kind, probed, found, keys, shared, given, restarts>>

\* Mutant: once is enough.
ProbedForGood(r, finds) == probed

\* A probe that found nothing may be tried again.
ProbedAfter(r, finds) == IF kind[r] = "probe" THEN finds ELSE probed

\* The request is answered.
Leave(r, finds) ==
    /\ phase' = [phase EXCEPT ![r] = "over"]
    /\ found' = (found \/ finds)
    /\ probed' = ProbedAfter(r, finds)
    /\ UNCHANGED <<kind, keys, restarts>>

Release(r) == holder' = holder \ {r}

PlaceOf(r) == CHOOSE i \in 1..Len(line) : line[i] = r

\* Mutant: it is not counted off.
NotInLineUncounted(r) == line' = RemoveAt(line, PlaceOf(r)) /\ UNCHANGED waiting

NotInLine(r) == line' = RemoveAt(line, PlaceOf(r)) /\ waiting' = waiting - 1

\* Short questions wait for the slot for LOCK_WAIT seconds only.
GiveUp(r) ==
    /\ phase[r] = "waits" /\ kind[r] \in {"usage", "probe", "check"}
    /\ NotInLine(r)
    /\ Leave(r, FALSE)
    /\ UNCHANGED <<holder, procs, pictures>>

\* Mutant: whatever is there.
AllPictures(r) == shared

\* _collect_images: those in the shared directory that were not there before.
NewPictures(r) == shared \ seen[r]

\* The process has ended by itself.
Finish(r, finds) ==
    /\ phase[r] = "runs" /\ Processes(r) = {}
    /\ finds => kind[r] = "probe"
    /\ Release(r)
    /\ given' = [given EXCEPT ![r] = IF kind[r] = "image" THEN NewPictures(r) ELSE {}]
    /\ Leave(r, finds)
    /\ UNCHANGED <<line, waiting, procs, shared, seen>>

\* Mutant: a process whose time is over is left alone.
KillsNot(r) == FALSE

Kills(r) == kind[r] # "check"

Left(r) == IF Kills(r) THEN procs \ Processes(r) ELSE procs

\* Mutant: only conversations have a time-out.
LimitedIfChat(r) == kind[r] = "chat"

Limited(r) == kind[r] \in Slow

\* wait_for: the time of the process is over.
TimeOut(r) ==
    /\ phase[r] = "runs" /\ Limited(r)
    /\ procs' = Left(r)
    /\ Release(r)
    /\ Leave(r, FALSE)
    /\ UNCHANGED <<line, waiting, pictures>>

\* The caller leaves: the request is cancelled where it stands.  Only what was asked
\* of the CLI in a conversation, its models or its usage is killed; and a probe that
\* is cancelled is not tried again.
KillsDropped(r) == kind[r] \in {"chat", "usage", "probe"}

Drop(r) ==
    /\ kind[r] \in Dropped /\ phase[r] \in {"waits", "runs"}
    /\ IF phase[r] = "waits"
       THEN NotInLine(r) /\ UNCHANGED <<holder, procs>>
       ELSE /\ Release(r)
            /\ procs' = IF KillsDropped(r) THEN procs \ Processes(r) ELSE procs
            /\ UNCHANGED <<line, waiting>>
    /\ phase' = [phase EXCEPT ![r] = "over"]
    /\ UNCHANGED <<kind, probed, found, keys, pictures, restarts>>

-----------------------------------------------------------------------------
\* The CLI's processes, the provider, people.

Refresh(p) ==
    IF p.token.token = current[p.token.of]
    THEN /\ current[p.token.of] < MAX_TOKEN
         /\ current' = [current EXCEPT ![p.token.of] = @ + 1]
         /\ file' = [p.token EXCEPT !.token = @ + 1]
         /\ procs' = (procs \ {p}) \cup {[p EXCEPT !.token.token = @ + 1]}
         /\ UNCHANGED <<phase, kind, slot, probed, found, stored, seed, revoked, pictures, restarts>>
    ELSE /\ revoked' = revoked \cup {p.token.of}
         /\ UNCHANGED <<phase, kind, slot, procs, probed, found, stored, file, seed, current,
                        pictures, restarts>>

Draw(p) ==
    /\ kind[p.of] = "image"
    /\ shared' = shared \cup {p.of}
    /\ UNCHANGED <<phase, kind, slot, procs, probed, found, keys, seen, given, restarts>>

Exit(p) ==
    /\ procs' = procs \ {p}
    /\ UNCHANGED <<phase, kind, slot, probed, found, keys, pictures, restarts>>

\* A person registers another credential.
Register ==
    /\ stored < MAX_CREDENTIAL
    /\ stored' = stored + 1
    /\ UNCHANGED <<phase, kind, slot, procs, probed, found, file, seed, current, revoked,
                   pictures, restarts>>

\* The container restarts: its files stay.
Restart ==
    /\ restarts < MAX_RESTARTS
    /\ restarts' = restarts + 1
    /\ phase' = [r \in Requests |-> IF phase[r] = "new" THEN "new" ELSE "over"]
    /\ line' = <<>> /\ holder' = {} /\ waiting' = 0
    /\ procs' = {} /\ probed' = FALSE /\ found' = FALSE
    /\ UNCHANGED <<kind, keys, pictures>>

Serve(r) == Enter(r) \/ \E finds \in BOOLEAN : Finish(r, finds)

Next ==
    \/ \E r \in Requests : \/ \E k \in Kinds : Arrive(r, k)
                           \/ Serve(r) \/ GiveUp(r) \/ TimeOut(r) \/ Drop(r)
    \/ \E p \in procs : Refresh(p) \/ Draw(p) \/ Exit(p)
    \/ Register \/ Restart

Spec == Init /\ [][Next]_vars

\* A free slot is taken, what has ended is answered, and no process outlives its time.
Fairness == \A r \in Requests : WF_vars(Serve(r)) /\ WF_vars(TimeOut(r))

FairSpec == Spec /\ Fairness

-----------------------------------------------------------------------------

\* Types; a request waits once, and at most one holds the lock of the CLI.
TypeOK ==
    /\ phase \in [Requests -> {"new", "waits", "runs", "over"}]
    /\ kind \in [Requests -> AllKinds]
    /\ line \in Seq(Requests) /\ IsInjective(line) /\ waiting \in Nat
    /\ holder \subseteq Requests /\ Cardinality(holder) <= 1
    /\ procs \subseteq [of : Requests, token : Tokens]
    /\ probed \in BOOLEAN /\ found \in BOOLEAN
    /\ stored \in Credentials /\ seed \in 0..stored /\ file \in Tokens \cup {NoFile}
    /\ current \in [Credentials -> 0..MAX_TOKEN] /\ revoked \subseteq Credentials
    /\ shared \subseteq Requests
    /\ seen \in [Requests -> SUBSET Requests] /\ given \in [Requests -> SUBSET Requests]
    /\ restarts \in 0..MAX_RESTARTS

\* What /health tells of the requests in the queue is true, whichever way they leave it,
\* and who waits stands in line once (src/bridge/cli_bridge.py:490).
WaitingIsCounted ==
    /\ waiting = Len(line)
    /\ ToSet(line) = {r \in Requests : phase[r] = "waits"}
    /\ holder = {r \in Requests : phase[r] = "runs"}

\* Never do two processes of the CLI run at once
\* (src/bridge/cli_bridge.py:477 "the slot that makes the starts of the CLI one by one").
OneCliAtATime == Cardinality(procs) <= 1

\* No used refresh token is ever presented again: the provider would take the whole
\* credential away (src/bridge/cli_bridge.py:479-482, 435-442).
NoTokenIsReused == revoked = {}

\* A picture that is handed out was drawn by the run that was asked for it
\* (src/bridge/cli_bridge.py:484-486 "four were asked for at once and all got one picture").
PictureIsOwn == \A r \in Requests : given[r] \subseteq {r}

\* Who waits for the CLI comes to its turn.
WaitingEnds == \A r \in Requests : phase[r] = "waits" ~> phase[r] # "waits"

\* As long as the models are not known they can be asked for again
\* (src/bridge/cli_bridge.py:530 "tries again the next time it is asked").
ProbeCanBeRepeated ==
    probed /\ ~found => \E r \in Requests : kind[r] = "probe" /\ phase[r] \in {"waits", "runs"}

\* The kinds whose process may go on when their request is over: a check whose time is
\* over, and what is dropped without being a conversation, a usage or a probe.
LeftAlone == ({"check"} \cap Slow) \cup (Dropped \ {"chat", "usage", "probe"})

\* All of these at once: who starts the CLI has it to itself.
CliIsAlone ==
    OneCliAtATime /\ NoTokenIsReused /\ PictureIsOwn /\ WaitingIsCounted /\ ProbeCanBeRepeated

================================================================================
