------------------------------- MODULE Ledger -------------------------------
(* What a collection remembers of its laps, and what its runs do to it
   (app/collect.py, app/partition.py, _collect_material and
   _rewind_failed_bakes of app/main.py, the ends of a run in ingest/server.py).

   A collection is cut into partitions. A sweep visits a few of them in each
   run, the one it has not seen for longest first, and marks those whose
   answers came back. The marks are written BEFORE the material is baked (the
   material is streamed, and a stream cannot be refused any more), so a bake
   that fails must be undone later: the clock of each of the two processes
   reads from the trigger which runs failed and moves the collection back.

   A run reads the definition when it starts to collect and writes the ledger
   it read, changed, when the AI has answered: everything in between is part
   of the model.  Times are left out: marks are kept in the order of their
   times, and whether a record falls between the start and the end of a run of
   the trigger is the field job of its undo record. *)
EXTENDS Integers, Sequences, FiniteSets, SequencesExt, Lists

CONSTANTS
  NPARTS,      \* partitions, in the order of their keys
  Sweeps,      \* the sweeps that have a clock and walk partitions
  NoSweep,
  After,       \* the sweep each one waits for, or NoSweep
  AfterEach,   \* those that start on what the other has seen, lap or no lap
  OneLap,      \* those that stop after a lap
  HoldSweeps,  \* those with a hold_tag
  PER_RUN,     \* partitions a run looks at
  MAX_CUTS,
  MAX_HOLDS,
  Clocks,
  TROUBLES,    \* bound: failures, refusals and requests of persons
  Faults       \* which of the happenings below are part of the model

ASSUME PartsAssumption == NPARTS \in Nat \ {0} /\ PER_RUN \in Nat \ {0}
ASSUME LimitsAssumption ==
  MAX_CUTS \in Nat \ {0} /\ MAX_HOLDS \in Nat \ {0} /\ TROUBLES \in Nat
ASSUME SweepsAssumption ==
  /\ NoSweep \notin Sweeps
  /\ After \in [Sweeps -> Sweeps \cup {NoSweep}]
  /\ AfterEach \subseteq {s \in Sweeps : After[s] # NoSweep}
  /\ OneLap \subseteq Sweeps /\ HoldSweeps \subseteq Sweeps

(* "stop_download":  a run is stopped before its material is complete.
   "leftover_breaks": material an earlier run left does not bake.
   "early_start":    a run starts before a clock has looked at the failure of
                     the one before it.
   "focus_names":    a focus request names a partition.
   "ask_meanwhile":  a requeue is asked for while answers are being collected.
   "redo_meanwhile": a redo is asked for while the run's end is still open. *)
ASSUME FaultsAssumption ==
  Faults \subseteq {"stop_download", "leftover_breaks", "early_start", "focus_names",
                    "ask_meanwhile", "redo_meanwhile"}

VARIABLES
  def,       \* the collection's definition, as far as runs change it
  job,       \* the collection's run in the trigger, and its call of the app
  staged,    \* complete material that an earlier run left
  read,      \* the definition a clock has read and will move back
  answer,    \* history: what became of the answers behind the latest mark
  wanted,    \* history: a requeue was asked for and is in no generation yet
  rows,      \* history: rows "the bake failed" since the last record
  troubles

vars == <<def, job, staged, read, answer, wanted, rows, troubles>>

Parts == 1..NPARTS

-----------------------------------------------------------------------------
(* The ledger: the marks of each sweep, oldest first, and its counts.        *)

Ledgers == [seen : [Sweeps -> Seq(Parts)],
            cut  : [Sweeps -> [Parts -> 0..MAX_CUTS]],
            held : [Sweeps -> [Parts -> 0..MAX_HOLDS]]]

Marked(L, s) == ToSet(L.seen[s])

ByKey(K) == Kept([p \in Parts |-> p], K)

(* pick: what is not seen yet first, by key; then the oldest mark first.
   A sweep of AfterEach picks among what the other sweep has seen.           *)
Pool(L, s) == IF s \in AfterEach THEN Marked(L, After[s]) ELSE Parts

Pick(L, s, n) ==
  LET ordered == ByKey(Parts \ Marked(L, s)) \o L.seen[s]
      ofPool  == Kept(ordered, Pool(L, s))
  IN  SubSeq(ofPool, 1, IF n < Len(ofPool) THEN n ELSE Len(ofPool))

WaitedFor(L, s) ==
  After[s] # NoSweep =>
    IF s \in AfterEach THEN Marked(L, After[s]) # {} ELSE Marked(L, After[s]) = Parts

Lapped(L, s) == s \in OneLap /\ Marked(L, s) = Parts

ForgetVisits(L, K, s) == [L EXCEPT !.seen[s] = Kept(@, Parts \ K)]

MarkVisited(L, K, s) == [L EXCEPT !.seen[s] = Kept(@, Parts \ K) \o ByKey(K)]

ClearCuts(L, K, s) == [L EXCEPT !.cut[s] = [p \in Parts |-> IF p \in K THEN 0 ELSE @[p]]]

ClearHeld(L, K, s) == [L EXCEPT !.held[s] = [p \in Parts |-> IF p \in K THEN 0 ELSE @[p]]]

(* A held partition counts one more and loses the mark it had.               *)
NoteHeld(L, K, s) ==
  LET counted == [L EXCEPT !.held[s] = [p \in Parts |-> IF p \in K THEN @[p] + 1 ELSE @[p]]]
  IN  ForgetVisits(counted, K, s)

\* Mutant: one hold too many.
WithinHoldLimitOneMore(L, K, s) == {p \in K : L.held[s][p] <= MAX_HOLDS}

WithinHoldLimit(L, K, s) == {p \in K : L.held[s][p] < MAX_HOLDS}

(* note_cut: those cut for the last time are given up, the others count.     *)
GiveUp(L, K, s) == {p \in K : L.cut[s][p] + 1 >= MAX_CUTS}

\* Mutant: what breaks off is not counted.
NoteCutNotAtAll(L, K, s) == L

NoteCut(L, K, s) ==
  [L EXCEPT !.cut[s] = [p \in Parts |-> IF p \in GiveUp(L, K, s) THEN 0
                                        ELSE IF p \in K THEN @[p] + 1 ELSE @[p]]]

-----------------------------------------------------------------------------
(* The undo record of the last run. job says how the trigger's run stands in
   whose time the record was written.                                        *)

NoUndo == [sweep |-> NoSweep, visited |-> {}, requeue |-> FALSE, job |-> "over"]

Undos == [sweep   : Sweeps \cup {NoSweep},
          visited : SUBSET Parts,
          requeue : BOOLEAN,
          job     : {"running", "failed", "over"}]

NoFocus == [on |-> FALSE, sweep |-> NoSweep, parts |-> {}]

Defs == [ledger  : Ledgers,
         undo    : Undos,
         pending : Sweeps \cup {NoSweep},
         named   : SUBSET Parts,
         focus   : [on : BOOLEAN, sweep : Sweeps \cup {NoSweep}, parts : SUBSET Parts],
         requeue : BOOLEAN,
         status  : {"", "ok", "error"}]

\* Mutant: any run that has ended will do.
RewindableAnyEnd(d) ==
  d.status = "ok" /\ d.undo.sweep # NoSweep /\ d.undo.job # "running"

\* Mutants: the marks stay; the requeue stays taken out.
RewoundButMarks(d) ==
  [d EXCEPT !.requeue = @ \/ d.undo.requeue, !.undo = NoUndo, !.status = "error"]

RewoundButRequeue(d) ==
  [d EXCEPT !.ledger = ForgetVisits(@, d.undo.visited, d.undo.sweep),
            !.undo   = NoUndo,
            !.status = "error"]

(* rewind_failed_bake: the run whose time holds the undo record failed, and
   the collecting itself did not.                                            *)
Rewindable(d) ==
  /\ d.status = "ok"
  /\ d.undo.sweep # NoSweep
  /\ d.undo.job = "failed"

Rewound(d) ==
  [d EXCEPT !.ledger  = ForgetVisits(@, d.undo.visited, d.undo.sweep),
            !.requeue = @ \/ d.undo.requeue,
            !.undo    = NoUndo,
            !.status  = "error"]

EmptyLedger == [seen |-> [s \in Sweeps |-> <<>>],
                cut  |-> [s \in Sweeps |-> [p \in Parts |-> 0]],
                held |-> [s \in Sweeps |-> [p \in Parts |-> 0]]]

Idle == [phase |-> "idle", sweep |-> NoSweep, keys |-> <<>>, focus |-> FALSE,
         base |-> EmptyLedger, requeue |-> FALSE, leftover |-> FALSE]

Nothing == [full |-> FALSE, requeue |-> FALSE]

NoRead == [got |-> FALSE]

Init ==
  /\ def = [ledger |-> EmptyLedger, undo |-> NoUndo, pending |-> NoSweep, named |-> {},
            focus |-> NoFocus, requeue |-> FALSE, status |-> ""]
  /\ job = Idle
  /\ staged = Nothing
  /\ read = [c \in Clocks |-> NoRead]
  /\ answer = [s \in Sweeps |-> [p \in Parts |-> "none"]]
  /\ wanted = FALSE
  /\ rows = 0
  /\ troubles = 0

Trouble == troubles < TROUBLES /\ troubles' = troubles + 1

-----------------------------------------------------------------------------
(* Starting a run.                                                           *)

(* The tick that follows a run's end moves the collection back before
   anything starts the collection again.                                     *)
Settled == Rewindable(def) => "early_start" \in Faults

Free == job.phase = "idle" /\ Settled

Asked == [Idle EXCEPT !.phase = "asked"]

(* mark_pending, the trigger's run, mark_started.                            *)
Begin(d, s, K) ==
  /\ def' = [d EXCEPT !.pending = s, !.named = K]
  /\ job' = Asked

(* What due_sweeps lets the clock start.                                     *)
ClockStart(s) ==
  /\ Free
  /\ WaitedFor(def.ledger, s)
  /\ ~Lapped(def.ledger, s)
  /\ Begin(def, s, {})
  /\ UNCHANGED <<staged, read, answer, wanted, rows, troubles>>

(* A person or an application asks for one run, of named partitions or not.  *)
RunOnce(s, K) ==
  /\ Free
  /\ Trouble
  /\ Begin(def, s, K)
  /\ UNCHANGED <<staged, read, answer, wanted, rows>>

(* start_focus_bake: noted first, started then.                              *)
Focus(s, K) ==
  /\ Free
  /\ Trouble
  /\ K # {} => "focus_names" \in Faults
  /\ def' = [def EXCEPT !.focus = [on |-> TRUE, sweep |-> s, parts |-> K]]
  /\ job' = Asked
  /\ UNCHANGED <<staged, read, answer, wanted, rows>>

(* rewind, then run_or_queue: a run that cannot start waits in the queue and
   is a later ClockStart.                                                    *)
Redo ==
  /\ Trouble
  /\ def.undo.sweep # NoSweep
  /\ def.undo.job # "over" => "redo_meanwhile" \in Faults
  /\ LET back == [def EXCEPT !.ledger = ForgetVisits(@, def.undo.visited, def.undo.sweep),
                             !.undo   = NoUndo]
     IN  IF job.phase = "idle"
           THEN Begin(back, def.undo.sweep, {})
           ELSE def' = back /\ UNCHANGED job
  /\ UNCHANGED <<staged, read, answer, wanted, rows>>

RestartCycle(s) ==
  /\ Trouble
  /\ def' = [def EXCEPT !.ledger = ForgetVisits(@, Parts, s)]
  /\ UNCHANGED <<job, staged, read, answer, wanted, rows>>

Requeue ==
  /\ Trouble
  /\ job.phase = "collecting" => "ask_meanwhile" \in Faults
  /\ def' = [def EXCEPT !.requeue = TRUE]
  /\ wanted' = TRUE
  /\ UNCHANGED <<job, staged, read, answer, rows>>

-----------------------------------------------------------------------------
(* The run.                                                                  *)

(* The trigger's run is over; the undo record of its time says how.          *)
UndoAs(d, end) == [d.undo EXCEPT !.job = IF @ = "running" THEN end ELSE @]

(* Material that an earlier run left is baked without asking the app.        *)
TakeLeftover ==
  /\ job.phase = "asked"
  /\ staged.full
  /\ job' = [job EXCEPT !.phase = "baking", !.leftover = TRUE, !.requeue = staged.requeue]
  /\ staged' = Nothing
  /\ UNCHANGED <<def, read, answer, wanted, rows, troubles>>

FocusSweep == def.focus.sweep

(* sweep_named falls back to a sweep that has a clock.                       *)
SweepOfRun == IF def.focus.on THEN {FocusSweep}
              ELSE IF def.pending # NoSweep THEN {def.pending} ELSE Sweeps

KeysOfRun(s) ==
  IF def.focus.on THEN ByKey(def.focus.parts)
  ELSE IF def.named # {} THEN ByKey(def.named)
  ELSE Pick(def.ledger, s, PER_RUN)

(* Between the read and the write of a clock there is no call of any kind: no
   answer is collected meanwhile.                                            *)
ClocksAreBrief == \A c \in Clocks : ~read[c].got

(* _collect_material reads the definition, and goes on with what it read.    *)
Collect ==
  /\ job.phase = "asked"
  /\ ~staged.full
  /\ ClocksAreBrief
  /\ \E s \in SweepOfRun :
       /\ KeysOfRun(s) # <<>> \/ def.focus.on
       /\ job' = [job EXCEPT !.phase = "collecting", !.sweep = s, !.keys = KeysOfRun(s),
                             !.focus = def.focus.on, !.base = def.ledger,
                             !.requeue = def.requeue]
  /\ UNCHANGED <<def, staged, read, answer, wanted, rows, troubles>>

(* The run ends before anything is recorded: nothing the sweep may look at
   (_nothing_seen_yet), or a served generation that cannot be read, or a
   catalog that does not answer.                                             *)
Refuse ==
  /\ job.phase = "asked"
  /\ ~staged.full
  /\ \/ /\ ~def.focus.on
        /\ \A s \in SweepOfRun : KeysOfRun(s) = <<>>
        /\ UNCHANGED troubles
     \/ Trouble
  /\ job' = Idle
  /\ UNCHANGED <<def, staged, read, answer, wanted, rows>>

(* record_result of a run that failed to collect: the ledger it read is
   written back, nothing is marked, the undo record has nothing to undo.     *)
CollectFails ==
  /\ job.phase = "collecting"
  /\ Trouble
  /\ def' = [def EXCEPT
       !.ledger  = job.base,
       !.undo    = IF job.focus THEN @
                   ELSE [NoUndo EXCEPT !.sweep = job.sweep, !.requeue = def.requeue,
                                       !.job = "failed"],
       !.pending = NoSweep,
       !.named   = IF job.focus THEN @ ELSE {},
       !.focus   = IF job.focus THEN NoFocus ELSE @,
       !.status  = "error"]
  /\ job' = Idle
  /\ UNCHANGED <<staged, read, answer, wanted, rows>>

(* The ledger after a run that saw `seen`, saw `kept` without being done with
   them, and whose answers for `cut` broke off. Its marks carry one time.    *)
AfterRun(L, s, seen, kept, cut) ==
  LET cleared  == ClearHeld(ClearCuts(L, seen, s), seen, s)
      withHeld == NoteHeld(ClearCuts(cleared, kept, s), kept, s)
      given    == GiveUp(withHeld, cut, s)
  IN  MarkVisited(NoteCut(withHeld, cut, s), seen \cup given, s)

(* record_result of a run whose answers came back for the first n of its
   partitions: some to the end, some broken off; of the former, those with a
   hold_tag that still shrinks are held, up to the limit.                    *)
CollectOk ==
  /\ job.phase = "collecting"
  /\ \E n \in 0..Len(job.keys) : \E cut \in SUBSET ToSet(SubSeq(job.keys, 1, n)) :
     LET done == ToSet(SubSeq(job.keys, 1, n)) \ cut IN
     \E shrinking \in SUBSET (IF job.sweep \in HoldSweeps THEN done ELSE {}) :
     LET s    == job.sweep
         kept == WithinHoldLimit(job.base, shrinking, s)
         seen == done \ kept
     IN  /\ job.keys # <<>> => n > 0
         /\ def' = [def EXCEPT
              !.ledger  = AfterRun(job.base, s, seen, kept, cut),
              !.undo    = IF job.focus THEN @
                          ELSE [sweep |-> s, visited |-> seen, requeue |-> def.requeue,
                                job |-> "running"],
              !.pending = NoSweep,
              !.named   = IF job.focus THEN @ ELSE {},
              !.focus   = IF job.focus THEN NoFocus ELSE @,
              !.requeue = @ /\ job.focus,
              !.status  = "ok"]
         /\ answer' = [answer EXCEPT ![s] =
              [p \in Parts |-> IF p \in seen THEN "moving"
                               ELSE IF p \in GiveUp(job.base, cut, s) THEN "none" ELSE @[p]]]
  /\ job' = [Idle EXCEPT !.phase = "streaming", !.requeue = job.requeue]
  /\ rows' = 0
  /\ UNCHANGED <<staged, read, wanted, troubles>>

Downloaded ==
  /\ job.phase = "streaming"
  /\ job' = [job EXCEPT !.phase = "baking"]
  /\ UNCHANGED <<def, staged, read, answer, wanted, rows, troubles>>

(* What the material carries ends as `end`.                                  *)
Answers(end) ==
  answer' = [s \in Sweeps |-> [p \in Parts |->
              IF answer[s][p] = "moving" THEN end ELSE answer[s][p]]]

(* A stop lands where the run looks at its flag: in the download, which
   leaves no material, or in the bake, which leaves it complete.             *)
StopsAt == {"baking"} \cup (IF "stop_download" \in Faults THEN {"streaming"} ELSE {})

Stop ==
  /\ job.phase \in StopsAt
  /\ Trouble
  /\ IF job.phase = "baking"
       THEN staged' = [full |-> TRUE, requeue |-> job.requeue] /\ UNCHANGED answer
       ELSE Answers("lost") /\ UNCHANGED staged
  /\ def' = [def EXCEPT !.undo = UndoAs(def, "over")]
  /\ job' = Idle
  /\ UNCHANGED <<read, wanted, rows>>

BakeOk ==
  /\ job.phase = "baking"
  /\ Answers("served")
  /\ wanted' = IF job.requeue THEN def.requeue ELSE wanted
  /\ def' = [def EXCEPT !.undo = UndoAs(def, "over")]
  /\ job' = Idle
  /\ UNCHANGED <<staged, read, rows, troubles>>

(* The material is set aside: the next run asks again.                       *)
BakeFails ==
  /\ job.phase \in {"streaming", "baking"}
  /\ Trouble
  /\ job.leftover => "leftover_breaks" \in Faults
  /\ Answers("lost")
  /\ def' = [def EXCEPT !.undo = UndoAs(def, "failed")]
  /\ job' = Idle
  /\ UNCHANGED <<staged, read, wanted, rows>>

-----------------------------------------------------------------------------
(* _rewind_failed_bakes in the tick of a clock.                              *)

ClockReads(c) ==
  /\ ~read[c].got
  /\ Rewindable(def)
  /\ read' = [read EXCEPT ![c] = [got |-> TRUE, def |-> def]]
  /\ UNCHANGED <<def, job, staged, answer, wanted, rows, troubles>>

\* Mutant: it writes in any case.
WritesAnyway(c) == read[c].got

(* put_if: it writes only over what was read.                                *)
StillAsRead(c) == def = read[c].def

ClockWrites(c) ==
  /\ read[c].got
  /\ IF StillAsRead(c)
       THEN /\ def' = Rewound(read[c].def)
            /\ rows' = rows + 1
       ELSE UNCHANGED <<def, rows>>
  /\ read' = [read EXCEPT ![c] = NoRead]
  /\ UNCHANGED <<job, staged, answer, wanted, troubles>>

Next ==
  \/ \E s \in Sweeps : ClockStart(s)
  \/ \E s \in Sweeps, K \in SUBSET Parts : RunOnce(s, K)
  \/ \E s \in Sweeps, K \in {{}} \cup {{p} : p \in Parts} : Focus(s, K)
  \/ Redo
  \/ \E s \in Sweeps : RestartCycle(s)
  \/ Requeue
  \/ TakeLeftover \/ Collect \/ Refuse
  \/ CollectFails \/ CollectOk
  \/ Downloaded \/ Stop \/ BakeOk \/ BakeFails
  \/ \E c \in Clocks : ClockReads(c) \/ ClockWrites(c)

Spec == Init /\ [][Next]_vars

(* A run that is under way ends; a clock ticks; the dispatcher starts a sweep
   that is due again and again (see DueRuns of MCLaps).               *)
Fairness ==
  /\ WF_vars(TakeLeftover) /\ WF_vars(Collect) /\ WF_vars(Refuse /\ UNCHANGED troubles)
  /\ WF_vars(CollectOk) /\ WF_vars(Downloaded) /\ WF_vars(BakeOk)
  /\ \A c \in Clocks : WF_vars(ClockReads(c)) /\ WF_vars(ClockWrites(c))
  /\ \A s \in Sweeps : SF_vars(ClockStart(s))

FairSpec == Spec /\ Fairness

-----------------------------------------------------------------------------
(* Properties.                                                               *)

\* Types; what a clock read and what a run started from are definitions.
TypeOK ==
  /\ def \in Defs
  /\ job.phase \in {"idle", "asked", "collecting", "streaming", "baking"}
  /\ job.sweep \in Sweeps \cup {NoSweep}
  /\ job.base \in Ledgers
  /\ staged \in [full : BOOLEAN, requeue : BOOLEAN]
  /\ \A c \in Clocks : read[c].got => read[c].def \in Defs
  /\ answer \in [Sweeps -> [Parts -> {"none", "moving", "served", "lost"}]]
  /\ wanted \in BOOLEAN
  /\ rows \in Nat
  /\ troubles \in 0..TROUBLES

(* A mark says that the partition was seen: its answers are served, or on
   their way, or the mark is about to be taken back (record_result writes the
   marks before the bake). A mark whose answers are lost hides the partition
   for a whole lap. A partition that is given up (note_cut) is marked without
   such a claim.                                                             *)
MarksAreEarned ==
  \A s \in Sweeps : \A p \in Marked(def.ledger, s) :
    answer[s][p] = "lost" => Rewindable(def) /\ def.undo.sweep = s /\ p \in def.undo.visited

(* Two clocks see the same failure; it is undone, and put in the history,
   once.                                                                     *)
RewoundOnce == rows <= 1

(* Moving a collection back takes no mark whose answers are served.          *)
RewindSparesTheServed ==
  [][\A c \in Clocks : read[c].got /\ ~read'[c].got =>
       \A s \in Sweeps : \A p \in Marked(def.ledger, s) :
         answer[s][p] = "served" => p \in Marked(def'.ledger, s)]_vars

(* A failed bake is taken back as it was, whichever clock sees it first and
   whatever ran meanwhile.                                                   *)
RewindIsRight == []RewoundOnce /\ RewindSparesTheServed

(* A requeue that was asked for is still pending, or in the material on its
   way, or comes back when the failed bake is undone.                        *)
RequeueIsKept ==
  wanted =>
    \/ def.requeue
    \/ job.requeue /\ job.phase \in {"streaming", "baking"}
    \/ staged.full /\ staged.requeue
    \/ Rewindable(def) /\ def.undo.requeue

(* No partition blocks a lap: whatever a sweep is to see next gives way to
   another in the end, however often its answers break off or are held.      *)
NextUp(s) == Pick(def.ledger, s, 1)

LapGoesOn ==
  \A s \in Sweeps : \A p \in Parts :
    (NextUp(s) = <<p>> /\ ~Lapped(def.ledger, s)) ~> (NextUp(s) # <<p>> \/ Lapped(def.ledger, s))

=============================================================================
