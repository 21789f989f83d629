-------------------------------- MODULE Trigger --------------------------------
(***************************************************************************)
(* chiezo-trigger (src/ingest/server.py, src/ingest/core.py): which runs   *)
(* it admits, how it stops them, and how their slots come free again.      *)
(*                                                                         *)
(* Request handlers run in a thread pool and each run has a thread of its  *)
(* own, so a step here is one stretch of code under `_lock` (or one access *)
(* to the stop flags, which have a lock of their own).  What happens to    *)
(* the files is Generations.tla's business; the lists of ended runs that   *)
(* /status also shows decide nothing here and are part of Dispatch.tla.    *)
(***************************************************************************)
EXTENDS Naturals, FiniteSets

CONSTANTS
    Sources,       \* the names a run can have, ZIM_JOB among them
    Dumps,         \* the sources of ADAPTERS
    Zim,           \* ZIM_JOB, the download of the offline Wikipedia
    SLOTS,         \* CHIEZO_INGEST_SLOTS
    DUMP_LANE,     \* CHIEZO_INGEST_DUMP_LANE
    Threads,       \* the threads runs are given
    Stoppers       \* concurrent POST /stop requests

ASSUME TriggerAssumption ==
    /\ Dumps \subseteq Sources
    /\ Zim \in Sources \ Dumps
    /\ SLOTS \in Nat \ {0}
    /\ DUMP_LANE \in BOOLEAN

VARIABLES
    jobs,          \* _jobs: the runs going on
    renames,       \* the pairs {old, new} of the renames going on; _renaming is their union
    pc,            \* where each run thread is
    src,           \* the source a busy thread was started for
    flags,         \* the sources whose stop event is set (core._stops)
    asking         \* asking[k]: sources request k has marked and not yet flagged

vars == <<jobs, renames, pc, src, flags, asking>>

Lanes == {"dump", "general"}

\* reserved:  start_run has put the job into _jobs and not started the thread
\* working:   the run checks for a stop from time to time
\* switching: past the last check_stop
\* ending:    the run is over, _finish is next
\* closing:   in the `finally` of _run_job, before clear_stop
Places == {"idle", "reserved", "working", "switching", "ending", "closing"}

Job == [source : Sources, lane : Lanes, stopping : BOOLEAN]

Running(s) == \E j \in jobs : j.source = s

LaneOf(s) == IF s = Zim \/ (s \in Dumps /\ DUMP_LANE) THEN "dump" ELSE "general"

General == {j \in jobs : j.lane = "general"}

HeavyNames == Dumps \cup {Zim}

Renaming == UNION renames

-----------------------------------------------------------------------------

Init ==
    /\ jobs = {}
    /\ renames = {}
    /\ pc = [t \in Threads |-> "idle"]
    /\ src = [t \in Threads |-> Zim]
    /\ flags = {}
    /\ asking = [k \in Stoppers |-> {}]

Register(t, s) ==
    /\ pc[t] = "idle"
    /\ jobs' = jobs \cup {[source |-> s, lane |-> LaneOf(s), stopping |-> FALSE]}
    /\ pc' = [pc EXCEPT ![t] = "reserved"]
    /\ src' = [src EXCEPT ![t] = s]
    /\ UNCHANGED <<renames, flags, asking>>

\* Mutants of StartRun, each without one of its refusals.
StartRunRenamed(t, s) ==
    /\ s # Zim
    /\ ~Running(s)
    /\ s \in Dumps => \A j \in jobs : j.source \notin HeavyNames
    /\ LaneOf(s) = "general" => Cardinality(General) < SLOTS
    /\ Register(t, s)

StartRunOverfull(t, s) ==
    /\ s # Zim
    /\ ~Running(s)
    /\ s \notin Renaming
    /\ s \in Dumps => \A j \in jobs : j.source \notin HeavyNames
    /\ LaneOf(s) = "general" => Cardinality(General) <= SLOTS
    /\ Register(t, s)

\* POST /run/{source}, the part under _lock.
StartRun(t, s) ==
    /\ s # Zim
    /\ ~Running(s)
    /\ s \notin Renaming
    /\ s \in Dumps => \A j \in jobs : j.source \notin HeavyNames
    /\ LaneOf(s) = "general" => Cardinality(General) < SLOTS
    /\ Register(t, s)

\* Mutant: does not look at the dumps.
ZimRunBlindly(t) ==
    /\ ~Running(Zim)
    /\ Register(t, Zim)

\* POST /zim/run: looks at the dumps only, never at the slots.
ZimRun(t) ==
    /\ ~Running(Zim)
    /\ \A j \in jobs : j.source \notin Dumps
    /\ Register(t, Zim)

\* Mutant: one event for all runs.
LaunchClearingAll(t) ==
    /\ pc[t] = "reserved"
    /\ flags' = {}
    /\ pc' = [pc EXCEPT ![t] = "working"]
    /\ UNCHANGED <<jobs, renames, src, asking>>

\* clear_stop and thread.start, after _lock was released.
Launch(t) ==
    /\ pc[t] = "reserved"
    /\ flags' = flags \ {src[t]}
    /\ pc' = [pc EXCEPT ![t] = "working"]
    /\ UNCHANGED <<jobs, renames, src, asking>>

MoveTo(t, place) ==
    /\ pc' = [pc EXCEPT ![t] = place]
    /\ UNCHANGED <<jobs, renames, src, flags, asking>>

\* check_stop raises Stopped.
HearStop(t) ==
    /\ pc[t] = "working"
    /\ src[t] \in flags
    /\ MoveTo(t, "ending")

\* The last check_stop before the switch lets the run through.
PassLastCheck(t) ==
    /\ pc[t] = "working"
    /\ src[t] \notin flags
    /\ MoveTo(t, "switching")

\* The work returned, or raised: any exception, SystemExit included.
Complete(t) ==
    /\ pc[t] = "switching"
    /\ MoveTo(t, "ending")

\* Mutant: the failed run does not reach _finish.
FailUnfinished(t) ==
    /\ pc[t] = "working"
    /\ MoveTo(t, "closing")

Fail(t) ==
    /\ pc[t] = "working"
    /\ MoveTo(t, "ending")

\* _finish, under _lock: the job of this source leaves _jobs.
Finish(t) ==
    /\ pc[t] = "ending"
    /\ jobs' = {j \in jobs : j.source # src[t]}
    /\ pc' = [pc EXCEPT ![t] = "closing"]
    /\ UNCHANGED <<renames, src, flags, asking>>

\* Mutant: the thread is not free again.
CloseForGood(t) ==
    /\ pc[t] = "closing"
    /\ flags' = flags \ {src[t]}
    /\ pc' = [pc EXCEPT ![t] = "closed"]
    /\ src' = [src EXCEPT ![t] = Zim]
    /\ UNCHANGED <<jobs, renames, asking>>

\* clear_stop in the `finally`; the notice to chiezo-app changes nothing here.
Close(t) ==
    /\ pc[t] = "closing"
    /\ flags' = flags \ {src[t]}
    /\ pc' = [pc EXCEPT ![t] = "idle"]
    /\ src' = [src EXCEPT ![t] = Zim]
    /\ UNCHANGED <<jobs, renames, asking>>

\* Mutant: the run is taken for over the moment it is told to stop.
StopMarkGone(k, targets) ==
    /\ asking[k] = {}
    /\ targets # {}
    /\ \A s \in targets : Running(s)
    /\ jobs' = {j \in jobs : j.source \notin targets}
    /\ asking' = [asking EXCEPT ![k] = targets]
    /\ UNCHANGED <<renames, pc, src, flags>>

\* POST /stop, under _lock: one named run, or all of them, get their mark.
StopMark(k, targets) ==
    /\ asking[k] = {}
    /\ targets # {}
    /\ \A s \in targets : Running(s)
    /\ Cardinality(targets) = 1 \/ \A j \in jobs : j.source \in targets
    /\ jobs' = {[j EXCEPT !.stopping = @ \/ j.source \in targets] : j \in jobs}
    /\ asking' = [asking EXCEPT ![k] = targets]
    /\ UNCHANGED <<renames, pc, src, flags>>

\* request_stop for one of them, outside _lock.
StopAsk(k, s) ==
    /\ s \in asking[k]
    /\ flags' = flags \cup {s}
    /\ asking' = [asking EXCEPT ![k] = @ \ {s}]
    /\ UNCHANGED <<jobs, renames, pc, src>>

\* POST /source/{name}/rename: both names are blocked until the files are moved.
RenameBegin(a, b) ==
    /\ a # b
    /\ ~Running(a) /\ ~Running(b)
    /\ {a, b} \cap Renaming = {}
    /\ renames' = renames \cup {{a, b}}
    /\ UNCHANGED <<jobs, pc, src, flags, asking>>

RenameEnd(both) ==
    /\ both \in renames
    /\ renames' = renames \ {both}
    /\ UNCHANGED <<jobs, pc, src, flags, asking>>

\* The container is restarted: all of this lives in memory, the runs are
\* daemon threads.
Restart ==
    /\ jobs' = {}
    /\ renames' = {}
    /\ pc' = [t \in Threads |-> "idle"]
    /\ src' = [t \in Threads |-> Zim]
    /\ flags' = {}
    /\ asking' = [k \in Stoppers |-> {}]

\* What a run thread does once it was launched.
Progress(t) ==
    \/ Launch(t) \/ HearStop(t) \/ PassLastCheck(t) \/ Fail(t) \/ Complete(t)
    \/ Finish(t) \/ Close(t)

Next ==
    \/ \E t \in Threads, s \in Sources : StartRun(t, s)
    \/ \E t \in Threads : ZimRun(t)
    \/ \E t \in Threads : Progress(t)
    \/ \E k \in Stoppers, targets \in SUBSET Sources : StopMark(k, targets)
    \/ \E k \in Stoppers, s \in Sources : StopAsk(k, s)
    \/ \E a, b \in Sources : RenameBegin(a, b)
    \/ \E both \in renames : RenameEnd(both)
    \/ Restart

Spec == Init /\ [][Next]_vars

\* Threads that were created are scheduled, and every fetch and build has a
\* timeout or an end of its material, so a run does come to one of its ends.
FairSpec == Spec /\ \A t \in Threads : WF_vars(Progress(t))

-----------------------------------------------------------------------------

\* Types of the job table, the renames, the threads and the stop flags.
TypeOK ==
    /\ jobs \subseteq Job
    /\ renames \subseteq SUBSET Sources
    /\ pc \in [Threads -> Places]
    /\ src \in [Threads -> Sources]
    /\ flags \subseteq Sources
    /\ asking \in [Stoppers -> SUBSET Sources]

\* The threads that own the job of their source.
Owner(t) == pc[t] \in {"reserved", "working", "switching", "ending"}

\* Two runs of one source never overlap, and the job in _jobs is the one of the
\* thread that runs it: the `_finish` of an old run can never take away, and so
\* hide, the job of a newer one (src/ingest/server.py, "start_run", "_finish").
OneRunPerSource ==
    /\ \A t, u \in Threads : Owner(t) /\ Owner(u) /\ src[t] = src[u] => t = u
    /\ \A j, i \in jobs : j.source = i.source => j = i
    /\ \A s \in Sources : Running(s) <=> \E t \in Threads : Owner(t) /\ src[t] = s

\* The runs that are not heavy downloads fit the slots, whatever lanes the
\* dumps use and however starts, ends and downloads interleave.
SlotsHeld == Cardinality(General) <= SLOTS

\* At most one run fills dumps/: an adapter's dump or the offline Wikipedia.
OneHeavyRun ==
    \A j, i \in jobs : j.source \in HeavyNames /\ i.source \in HeavyNames => j = i

\* No source is baked while its files are being renamed, seen from both
\* handlers (src/ingest/server.py, "_renaming").
NoBakeWhileRenaming == \A j \in jobs : j.source # Zim => j.source \notin Renaming

\* What start_run and zim_run refuse stays refused however they interleave with
\* renames, ends and restarts: too many runs, a second heavy one, a source whose
\* files are being renamed.
AdmissionHolds == SlotsHeld /\ OneHeavyRun /\ NoBakeWhileRenaming

\* A stop that was asked of one run is taken down by runs of that source only:
\* the start or the end of another run does not silence it (core.clear_stop).
StopSurvivesOtherRuns ==
    [][\A s \in flags \ flags' :
          \/ \E t \in Threads : src[t] = s /\ pc[t] \in {"reserved", "closing"}
          \/ Restart]_vars

\* A run that was admitted gives its slot back, however it ends: also when it
\* fails or is told to stop.
SlotComesFree == \A s \in Sources : Running(s) ~> ~Running(s)

================================================================================
