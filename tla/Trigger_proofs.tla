----------------------------- MODULE Trigger_proofs ----------------------------
(***************************************************************************)
(* For any number of sources, slots, run threads and stop requests: the    *)
(* trigger never runs two runs of one source, never fills more slots than  *)
(* it has, never has two heavy downloads going on, and never bakes a       *)
(* source while it is being renamed.                                       *)
(***************************************************************************)
EXTENDS Trigger, FiniteSetTheorems, TLAPS

\* The slots are counted over the jobs of the general lane, so the invariant
\* also says that the jobs are finitely many and which lane each one is in.
LanesRight == \A j \in jobs : j.lane = LaneOf(j.source)

IInv ==
    /\ TypeOK
    /\ IsFiniteSet(jobs)
    /\ LanesRight
    /\ OneRunPerSource
    /\ SlotsHeld
    /\ OneHeavyRun
    /\ NoBakeWhileRenaming

-----------------------------------------------------------------------------

LEMMA InitInv == Init => IInv
  <1> SUFFICES ASSUME Init PROVE IInv
    OBVIOUS
  <1> USE TriggerAssumption DEF Init
  <1>1. TypeOK
    BY DEF TypeOK, Places
  <1>2. General = {}
    BY DEF General
  <1>3. IsFiniteSet(jobs) /\ SlotsHeld
    BY <1>2, FS_EmptySet DEF SlotsHeld
  <1>4. OneRunPerSource
    BY DEF OneRunPerSource, Owner, Running
  <1> QED BY <1>1, <1>3, <1>4 DEF IInv, LanesRight, OneHeavyRun, NoBakeWhileRenaming

LEMMA GeneralIsFinite ==
    ASSUME IInv
    PROVE  IsFiniteSet(General) /\ Cardinality(General) \in Nat
  <1>1. General \in SUBSET jobs
    BY DEF General
  <1> QED BY <1>1, FS_Subset, FS_CardinalityType DEF IInv

\* A run that is admitted after all the looks start_run and zim_run take.
LEMMA RegisterKeepsInv ==
    ASSUME IInv, NEW t \in Threads, NEW s \in Sources,
           Register(t, s),
           ~Running(s),
           LaneOf(s) = "general" => Cardinality(General) < SLOTS,
           s \in HeavyNames => \A j \in jobs : j.source \notin HeavyNames,
           s # Zim => s \notin Renaming
    PROVE  IInv'
  <1> DEFINE new == [source |-> s, lane |-> LaneOf(s), stopping |-> FALSE]
  <1>0. /\ jobs' = jobs \cup {new}
        /\ pc[t] = "idle"
        /\ pc' = [pc EXCEPT ![t] = "reserved"]
        /\ src' = [src EXCEPT ![t] = s]
        /\ renames' = renames /\ flags' = flags /\ asking' = asking
    BY DEF Register
  <1>n. /\ new \in Job
        /\ new.source = s
        /\ new.lane = LaneOf(s)
    BY DEF Job, Lanes, LaneOf
  <1> HIDE DEF new
  <1>1. TypeOK'
    BY <1>0, <1>n DEF IInv, TypeOK, Places
  <1>2. IsFiniteSet(jobs)'
    BY <1>0, FS_AddElement DEF IInv
  <1>3. LanesRight'
    BY <1>0, <1>n DEF IInv, LanesRight, LaneOf
  <1>4. OneRunPerSource'
    <2>1. ~Owner(t) /\ Owner(t)' /\ src'[t] = s
      BY <1>0 DEF IInv, TypeOK, Owner
    <2>2. \A u \in Threads : u # t => (Owner(u)' <=> Owner(u)) /\ src'[u] = src[u]
      BY <1>0 DEF IInv, TypeOK, Owner
    <2>3. \A u \in Threads : Owner(u) => src[u] # s
      BY DEF IInv, OneRunPerSource
    <2>4. \A t1, t2 \in Threads : Owner(t1)' /\ Owner(t2)' /\ src'[t1] = src'[t2] => t1 = t2
      BY <2>1, <2>2, <2>3 DEF IInv, OneRunPerSource
    <2>5. \A j, i \in jobs' : j.source = i.source => j = i
      BY <1>0, <1>n DEF IInv, OneRunPerSource, Running
    <2>6. \A x \in Sources : Running(x)' <=> \E u \in Threads : Owner(u)' /\ src'[u] = x
      <3> TAKE x \in Sources
      <3>1. Running(x)' <=> Running(x) \/ x = s
        BY <1>0, <1>n DEF Running
      <3>2. Running(x) <=> \E u \in Threads : Owner(u) /\ src[u] = x
        BY DEF IInv, OneRunPerSource
      <3> QED BY <3>1, <3>2, <2>1, <2>2
    <2> QED BY <2>4, <2>5, <2>6 DEF OneRunPerSource
  <1>5. SlotsHeld'
    <2>1. CASE LaneOf(s) = "general"
      <3>1. General' = General \cup {new}
        BY <2>1, <1>0, <1>n DEF General
      <3>2. Cardinality(General') <= Cardinality(General) + 1
        <4>1. IsFiniteSet(General) /\ Cardinality(General) \in Nat
          BY GeneralIsFinite
        <4>2. Cardinality(General \cup {new}) =
                 IF new \in General THEN Cardinality(General) ELSE Cardinality(General) + 1
          BY <4>1, FS_AddElement
        <4> QED BY <3>1, <4>1, <4>2
      <3>3. Cardinality(General) + 1 <= SLOTS
        BY <2>1, GeneralIsFinite, TriggerAssumption
      <3>4. IsFiniteSet(General') /\ Cardinality(General') \in Nat
        BY <3>1, GeneralIsFinite, FS_AddElement, FS_CardinalityType
      <3> QED BY <3>2, <3>3, <3>4, GeneralIsFinite, TriggerAssumption DEF SlotsHeld
    <2>2. CASE LaneOf(s) # "general"
      <3>1. General' = General
        BY <2>2, <1>0, <1>n DEF General
      <3> QED BY <3>1 DEF IInv, SlotsHeld
    <2> QED BY <2>1, <2>2
  <1>6. OneHeavyRun'
    BY <1>0, <1>n DEF IInv, OneHeavyRun, HeavyNames
  <1>7. NoBakeWhileRenaming'
    BY <1>0, <1>n DEF IInv, NoBakeWhileRenaming, Renaming
  <1> QED BY <1>1, <1>2, <1>3, <1>4, <1>5, <1>6, <1>7 DEF IInv

\* A step that moves threads between places without a change of who owns which
\* job.
LEMMA MoveKeepsInv ==
    ASSUME IInv, TypeOK', jobs' = jobs, renames' = renames,
           \A u \in Threads : Owner(u)' <=> Owner(u),
           \A u \in Threads : Owner(u) => src'[u] = src[u]
    PROVE  IInv'
  <1>1. OneRunPerSource'
    <2>1. \A t, u \in Threads : Owner(t)' /\ Owner(u)' /\ src'[t] = src'[u] => t = u
      BY DEF IInv, OneRunPerSource
    <2>2. \A j, i \in jobs' : j.source = i.source => j = i
      BY DEF IInv, OneRunPerSource
    <2>3. \A s \in Sources : Running(s)' <=> \E t \in Threads : Owner(t)' /\ src'[t] = s
      BY DEF IInv, OneRunPerSource, Running
    <2> QED BY <2>1, <2>2, <2>3 DEF OneRunPerSource
  <1>2. General' = General
    BY DEF General
  <1> QED BY <1>1, <1>2
      DEF IInv, LanesRight, LaneOf, SlotsHeld, OneHeavyRun, NoBakeWhileRenaming, Renaming, HeavyNames

\* The job that leaves is the one of the thread that ends.
LEMMA FinishKeepsInv ==
    ASSUME IInv, NEW t \in Threads, Finish(t)
    PROVE  IInv'
  <1>0. /\ jobs' = {j \in jobs : j.source # src[t]}
        /\ pc[t] = "ending"
        /\ pc' = [pc EXCEPT ![t] = "closing"]
        /\ src' = src /\ renames' = renames /\ flags' = flags /\ asking' = asking
    BY DEF Finish
  <1>1. TypeOK'
    BY <1>0 DEF IInv, TypeOK, Places
  <1>2. jobs' \in SUBSET jobs
    BY <1>0
  <1>3. IsFiniteSet(jobs)'
    BY <1>2, FS_Subset DEF IInv
  <1>4. SlotsHeld'
    <2>1. General' \in SUBSET General
      BY <1>2 DEF General
    <2>2. Cardinality(General') <= Cardinality(General) /\ IsFiniteSet(General')
      BY <2>1, GeneralIsFinite, FS_Subset
    <2>3. Cardinality(General') \in Nat
      BY <2>2, FS_CardinalityType
    <2> QED BY <2>2, <2>3, GeneralIsFinite, TriggerAssumption DEF IInv, SlotsHeld
  <1>5. OneRunPerSource'
    <2>1. Owner(t) /\ ~Owner(t)'
      BY <1>0 DEF IInv, TypeOK, Owner
    <2>2. \A u \in Threads : u # t => (Owner(u)' <=> Owner(u)) /\ src'[u] = src[u]
      BY <1>0 DEF IInv, TypeOK, Owner
    <2>3. \A u, v \in Threads : Owner(u)' /\ Owner(v)' /\ src'[u] = src'[v] => u = v
      BY <2>1, <2>2 DEF IInv, OneRunPerSource
    <2>4. \A j, i \in jobs' : j.source = i.source => j = i
      BY <1>2 DEF IInv, OneRunPerSource
    <2>5. \A s \in Sources : Running(s)' <=> \E u \in Threads : Owner(u)' /\ src'[u] = s
      <3> TAKE s \in Sources
      <3>1. Running(s)' <=> Running(s) /\ s # src[t]
        BY <1>0 DEF Running
      <3>2. Running(s) <=> \E u \in Threads : Owner(u) /\ src[u] = s
        BY DEF IInv, OneRunPerSource
      <3>3. \A u \in Threads : Owner(u) /\ src[u] = src[t] => u = t
        BY <2>1 DEF IInv, OneRunPerSource
      <3> QED BY <3>1, <3>2, <3>3, <2>1, <2>2
    <2> QED BY <2>3, <2>4, <2>5 DEF OneRunPerSource
  <1> QED BY <1>0, <1>1, <1>2, <1>3, <1>4, <1>5
      DEF IInv, LanesRight, LaneOf, OneHeavyRun, NoBakeWhileRenaming, Renaming, HeavyNames

\* The marks of a stop change neither the sources nor the lanes of the jobs.
LEMMA StopMarkKeepsInv ==
    ASSUME IInv, NEW k \in Stoppers, NEW targets \in SUBSET Sources, StopMark(k, targets)
    PROVE  IInv'
  <1> DEFINE Mark(j) == [j EXCEPT !.stopping = @ \/ j.source \in targets]
             f == [j \in jobs |-> Mark(j)]
             g == [j \in General |-> Mark(j)]
  <1>0. /\ jobs' = {Mark(j) : j \in jobs}
        /\ asking' = [asking EXCEPT ![k] = targets]
        /\ renames' = renames /\ pc' = pc /\ src' = src /\ flags' = flags
    BY DEF StopMark
  <1>m. \A j \in jobs : Mark(j) \in Job /\ Mark(j).source = j.source /\ Mark(j).lane = j.lane
    BY DEF IInv, TypeOK, Job
  <1> HIDE DEF Mark
  <1>1. TypeOK'
    BY <1>0, <1>m DEF IInv, TypeOK
  <1>2. IsFiniteSet(jobs)'
    <2>1. f \in Surjection(jobs, jobs')
      BY <1>0 DEF Surjection
    <2> QED BY <2>1, FS_Surjection DEF IInv
  <1>3. SlotsHeld'
    <2>1. General' = {Mark(j) : j \in General}
      BY <1>0, <1>m DEF General
    <2>2. g \in Surjection(General, General')
      BY <2>1 DEF Surjection
    <2> HIDE DEF g
    <2>3. Cardinality(General') <= Cardinality(General) /\ IsFiniteSet(General')
      BY <2>2, GeneralIsFinite, FS_Surjection
    <2>4. Cardinality(General') \in Nat
      BY <2>3, FS_CardinalityType
    <2> QED BY <2>3, <2>4, GeneralIsFinite, TriggerAssumption DEF IInv, SlotsHeld
  <1>4. OneRunPerSource'
    <2>1. \A u \in Threads : Owner(u)' <=> Owner(u)
      BY <1>0 DEF Owner
    <2>2. \A j, i \in jobs' : j.source = i.source => j = i
      BY <1>0, <1>m DEF IInv, OneRunPerSource
    <2>3. \A s \in Sources : Running(s)' <=> Running(s)
      BY <1>0, <1>m DEF Running
    <2> QED BY <1>0, <2>1, <2>2, <2>3 DEF IInv, OneRunPerSource
  <1>5. LanesRight'
    BY <1>0, <1>m DEF IInv, LanesRight, LaneOf
  <1>6. OneHeavyRun' /\ NoBakeWhileRenaming'
    BY <1>0, <1>m DEF IInv, OneHeavyRun, NoBakeWhileRenaming, Renaming, HeavyNames
  <1> QED BY <1>1, <1>2, <1>3, <1>4, <1>5, <1>6 DEF IInv

\* Renames are refused while one of the two names runs.
LEMMA RenamesKeepInv ==
    ASSUME IInv, TypeOK', jobs' = jobs, pc' = pc, src' = src,
           \A j \in jobs : j.source # Zim => j.source \notin Renaming'
    PROVE  IInv'
  <1>1. \A u \in Threads : Owner(u)' <=> Owner(u)
    BY DEF Owner
  <1>2. General' = General
    BY DEF General
  <1>3. OneRunPerSource'
    BY <1>1 DEF IInv, OneRunPerSource, Running
  <1> QED BY <1>2, <1>3
      DEF IInv, LanesRight, LaneOf, SlotsHeld, OneHeavyRun, NoBakeWhileRenaming, HeavyNames

-----------------------------------------------------------------------------

LEMMA NextInv == IInv /\ [Next]_vars => IInv'
  <1> SUFFICES ASSUME IInv, [Next]_vars PROVE IInv'
    OBVIOUS
  <1>t. TypeOK
    BY DEF IInv
  <1>1. ASSUME NEW t \in Threads, NEW s \in Sources, StartRun(t, s)
        PROVE  IInv'
    <2>1. s \in HeavyNames => \A j \in jobs : j.source \notin HeavyNames
      BY <1>1 DEF StartRun, HeavyNames
    <2> QED BY <1>1, <2>1, RegisterKeepsInv DEF StartRun
  <1>2. ASSUME NEW t \in Threads, ZimRun(t)
        PROVE  IInv'
    <2>1. Zim \in Sources /\ LaneOf(Zim) = "dump"
      BY TriggerAssumption DEF LaneOf
    <2>2. \A j \in jobs : j.source \notin HeavyNames
      BY <1>2 DEF ZimRun, Running, HeavyNames
    <2> QED BY <1>2, <2>1, <2>2, RegisterKeepsInv DEF ZimRun
  <1>3. ASSUME NEW t \in Threads, Progress(t)
        PROVE  IInv'
    <2>1. CASE Launch(t)
      BY <1>t, <2>1, MoveKeepsInv DEF Launch, TypeOK, Owner, Places
    <2>2. CASE HearStop(t)
      BY <1>t, <2>2, MoveKeepsInv DEF HearStop, MoveTo, TypeOK, Owner, Places
    <2>3. CASE PassLastCheck(t)
      BY <1>t, <2>3, MoveKeepsInv DEF PassLastCheck, MoveTo, TypeOK, Owner, Places
    <2>4. CASE Fail(t)
      BY <1>t, <2>4, MoveKeepsInv DEF Fail, MoveTo, TypeOK, Owner, Places
    <2>5. CASE Complete(t)
      BY <1>t, <2>5, MoveKeepsInv DEF Complete, MoveTo, TypeOK, Owner, Places
    <2>6. CASE Finish(t)
      BY <2>6, FinishKeepsInv
    <2>7. CASE Close(t)
      BY <1>t, <2>7, TriggerAssumption, MoveKeepsInv DEF Close, TypeOK, Owner, Places
    <2> QED BY <1>3, <2>1, <2>2, <2>3, <2>4, <2>5, <2>6, <2>7 DEF Progress
  <1>4. ASSUME NEW k \in Stoppers, NEW targets \in SUBSET Sources, StopMark(k, targets)
        PROVE  IInv'
    BY <1>4, StopMarkKeepsInv
  <1>5. ASSUME NEW k \in Stoppers, NEW s \in Sources, StopAsk(k, s)
        PROVE  IInv'
    <2>1. TypeOK'
      BY <1>t, <1>5 DEF StopAsk, TypeOK
    <2> QED BY <1>5, <2>1, MoveKeepsInv DEF StopAsk, Owner
  <1>6. ASSUME NEW a \in Sources, NEW b \in Sources, RenameBegin(a, b)
        PROVE  IInv'
    <2>1. TypeOK'
      BY <1>t, <1>6 DEF RenameBegin, TypeOK
    <2>2. \A j \in jobs : j.source # a /\ j.source # b
      BY <1>6 DEF RenameBegin, Running
    <2>3. Renaming' = Renaming \cup {a, b}
      BY <1>6 DEF RenameBegin, Renaming
    <2>4. \A j \in jobs : j.source # Zim => j.source \notin Renaming'
      BY <2>2, <2>3 DEF IInv, NoBakeWhileRenaming
    <2> QED BY <1>6, <2>1, <2>4, RenamesKeepInv DEF RenameBegin
  <1>7. ASSUME NEW both \in renames, RenameEnd(both)
        PROVE  IInv'
    <2>1. TypeOK'
      BY <1>t, <1>7 DEF RenameEnd, TypeOK
    <2>2. Renaming' \in SUBSET Renaming
      BY <1>7 DEF RenameEnd, Renaming
    <2>3. \A j \in jobs : j.source # Zim => j.source \notin Renaming'
      BY <2>2 DEF IInv, NoBakeWhileRenaming
    <2> QED BY <1>7, <2>1, <2>3, RenamesKeepInv DEF RenameEnd
  <1>8. CASE Restart
    <2>1. TypeOK'
      BY <1>8, TriggerAssumption DEF Restart, TypeOK, Places
    <2>2. IsFiniteSet(jobs') /\ General' = {} /\ Cardinality(General') = 0
      BY <1>8, FS_EmptySet DEF Restart, General
    <2>3. SlotsHeld'
      BY <2>2, TriggerAssumption DEF SlotsHeld
    <2>4. OneRunPerSource'
      BY <1>8 DEF Restart, OneRunPerSource, Owner, Running
    <2> QED BY <1>8, <2>1, <2>2, <2>3, <2>4
        DEF Restart, IInv, LanesRight, OneHeavyRun, NoBakeWhileRenaming
  <1>9. CASE UNCHANGED vars
    <2>1. TypeOK'
      BY <1>t, <1>9 DEF vars, TypeOK
    <2> QED BY <1>9, <2>1, MoveKeepsInv DEF vars, Owner
  <1> QED BY <1>1, <1>2, <1>3, <1>4, <1>5, <1>6, <1>7, <1>8, <1>9 DEF Next

\* Types, one run per source, the slots, one heavy run, and no bake during a
\* rename: for every way starts, ends, stops, renames and restarts interleave.
THEOREM TriggerCorrect ==
    Spec => [](TypeOK /\ OneRunPerSource /\ SlotsHeld /\ OneHeavyRun /\ NoBakeWhileRenaming)
  <1>1. Spec => []IInv
    BY InitInv, NextInv, PTL DEF Spec
  <1>2. IInv => TypeOK /\ OneRunPerSource /\ SlotsHeld /\ OneHeavyRun /\ NoBakeWhileRenaming
    BY DEF IInv
  <1> QED BY <1>1, <1>2, PTL

\* The job table, the renames, the threads and the stop flags keep their types.
COROLLARY TriggerTyped == Spec => []TypeOK
  BY TriggerCorrect, PTL

\* start_run and zim_run refuse a source that runs: one run each, with a job of its own.
COROLLARY SourceRunsOnce == Spec => []OneRunPerSource
  BY TriggerCorrect, PTL

\* What the handlers refuse is refused in every order: the slots, the one heavy run
\* and the renames hold.
COROLLARY RefusalsHold == Spec => []AdmissionHolds
  <1>1. SlotsHeld /\ OneHeavyRun /\ NoBakeWhileRenaming => AdmissionHolds
    BY DEF AdmissionHolds
  <1> QED BY <1>1, TriggerCorrect, PTL

\* A stop that was asked for one source is taken down by the launch or the end of a run
\* of that source, or by a restart: by no step of another run (core.clear_stop).
THEOREM StopIsItsOwn == Spec => StopSurvivesOtherRuns
  <1> DEFINE Own(s) == \/ \E t \in Threads : src[t] = s /\ pc[t] \in {"reserved", "closing"}
                       \/ Restart
  <1>1. ASSUME [Next]_vars, NEW s \in flags \ flags'
        PROVE  Own(s)
    <2>1. CASE \E t \in Threads, u \in Sources : StartRun(t, u)
      BY <1>1, <2>1 DEF StartRun, Register
    <2>2. CASE \E t \in Threads : ZimRun(t)
      BY <1>1, <2>2 DEF ZimRun, Register
    <2>3. ASSUME NEW t \in Threads, Progress(t)
          PROVE  Own(s)
      <3>1. CASE Launch(t)
        BY <1>1, <3>1 DEF Launch
      <3>2. CASE Close(t)
        BY <1>1, <3>2 DEF Close
      <3>3. CASE HearStop(t) \/ PassLastCheck(t) \/ Fail(t) \/ Complete(t) \/ Finish(t)
        BY <1>1, <3>3 DEF HearStop, PassLastCheck, Fail, Complete, Finish, MoveTo
      <3> QED BY <2>3, <3>1, <3>2, <3>3 DEF Progress
    <2>4. CASE \E k \in Stoppers, targets \in SUBSET Sources : StopMark(k, targets)
      BY <1>1, <2>4 DEF StopMark
    <2>5. CASE \E k \in Stoppers, u \in Sources : StopAsk(k, u)
      BY <1>1, <2>5 DEF StopAsk
    <2>6. CASE \E a, b \in Sources : RenameBegin(a, b)
      BY <1>1, <2>6 DEF RenameBegin
    <2>7. CASE \E both \in renames : RenameEnd(both)
      BY <1>1, <2>7 DEF RenameEnd
    <2>8. CASE UNCHANGED vars
      BY <1>1, <2>8 DEF vars
    <2> QED BY <1>1, <2>1, <2>2, <2>3, <2>4, <2>5, <2>6, <2>7, <2>8 DEF Next
  <1>2. [Next]_vars => [\A s \in flags \ flags' : Own(s)]_vars
    BY <1>1
  <1> QED BY <1>2, PTL DEF Spec, StopSurvivesOtherRuns

================================================================================
