----------------------------- MODULE Gathering_proofs --------------------------
(***************************************************************************)
(* For any partitions, backends, times and stops: what was collected is    *)
(* not thrown away, what counts as looked through was read, a call under   *)
(* way stays in the list and can be stopped there, and a collection that   *)
(* was told to stop asks for no further partition.                         *)
(***************************************************************************)
EXTENDS Gathering, FiniteSetTheorems, SequenceTheorems, TLAPS

\* What the run has sent and what was read of it.
HarvestInv ==
    /\ CollectedIsKept
    /\ DoneWasRead
    /\ run.pc \in {"pick", "ask", "call"} => run.left # <<>> /\ run.before \subseteq read
    /\ run.pc = "check" => shown \subseteq read
    /\ run.pc \in {"ask", "call"} => \A d \in Docs : PartOf[d] = Key => d \in shown

\* Once somebody asked this run to stop, it goes no further than the partition at hand.
StopInv ==
    Working /\ askedAt # Never =>
        /\ StopWanted
        /\ run.pc # "check" => Len(run.left) = askedAt

\* The row of the call that is under way: it beats, and it was not told to stop before
\* its last beat.
CallInv ==
    Waits =>
        /\ call.token # 0
        /\ now <= call.pinged + STOP_POLL
        /\ call.begun <= call.pinged
        /\ \A r \in Own : /\ r.expires = call.begun + TIMEOUT + STALE_GRACE
                          /\ r.beat \in {0, call.pinged}
                          /\ r.stop # 0 => call.pinged <= r.stop
        /\ LiveCallIsListed

-----------------------------------------------------------------------------
\* Types.

RowSet(n) == [id : Nat \ {0}, expires : Nat, beat : 0..n, stop : 0..n]
RunSet(n) == [no : 0..RUNS, pc : Places, started : 0..n, left : Seq(Parts), before : SUBSET Docs]
CallSet(n) == [step : Backends, token : Nat, tries : 0..RETRIES,
               posted : 0..n, pinged : 0..n, begun : 0..n]

UniqueIds(table) == \A r, t \in table : r.id = t.id => r = t

\* The table, the run and its call; the rest of TypeOK is ClockType and MarksType.
ClockType ==
    /\ now \in 1..MAX_TIME /\ wanted \in 0..now /\ stops \in 0..MAX_STOPS
    /\ full \in [Backends -> 0..MAX_TIME + COOLDOWN]
RowsType == rows \subseteq RowSet(now) /\ UniqueIds(rows) /\ IsFiniteSet(rows)
RunType == run \in RunSet(now) /\ call \in CallSet(now)
MarksType ==
    /\ shown \subseteq Docs /\ read \subseteq Docs /\ done \subseteq Parts /\ cut \subseteq Parts
    /\ got \in BOOLEAN /\ askedAt \in Int

TypeInv == ClockType /\ RowsType /\ RunType /\ MarksType

LEMMA TypesAreTypeOK == TypeInv => TypeOK
  BY DEF TypeInv, ClockType, RowsType, RunType, MarksType, UniqueIds, RowSet, RunSet, CallSet, TypeOK

LEMMA ConstantsAreNat ==
    ASSUME GatheringAssumption
    PROVE  /\ RUNS \in Nat /\ MAX_STOPS \in Nat /\ COOLDOWN \in Nat /\ STOP_POLL \in Nat
           /\ BEAT_GRACE \in Nat /\ STOP_GRACE \in Nat /\ TIMEOUT \in Nat
           /\ STALE_GRACE \in Nat /\ RETRIES \in Nat /\ MAX_TIME \in Nat /\ MAX_TIME >= 1
  BY DEF GatheringAssumption

LEMMA ClockIsNat ==
    ASSUME GatheringAssumption, ClockType
    PROVE  now \in Nat /\ now >= 1 /\ now <= MAX_TIME /\ wanted \in Nat /\ wanted <= now
  BY ConstantsAreNat DEF ClockType

LEMMA SetsGrow ==
    ASSUME NEW n \in Nat, NEW m \in Nat, n <= m
    PROVE  RowSet(n) \subseteq RowSet(m) /\ RunSet(n) \subseteq RunSet(m) /\ CallSet(n) \subseteq CallSet(m)
  <1>1. 0..n \subseteq 0..m
    OBVIOUS
  <1>2. RowSet(n) \subseteq RowSet(m)
    BY <1>1 DEF RowSet
  <1>3. RunSet(n) \subseteq RunSet(m)
    BY <1>1 DEF RunSet
  <1>4. CallSet(n) \subseteq CallSet(m)
    BY <1>1 DEF CallSet
  <1> QED BY <1>2, <1>3, <1>4

LEMMA NoCallType ==
    ASSUME GatheringAssumption, ClockType
    PROVE  NoCall \in CallSet(now)
  <1>1. Steps[1] \in Backends
    BY DEF Backends, GatheringAssumption
  <1>2. 0 \in 0..now /\ 0 \in 0..RETRIES
    BY ClockIsNat, ConstantsAreNat
  <1> QED BY <1>1, <1>2 DEF NoCall, CallSet

\* A part of the table is a table.
LEMMA FewerRows ==
    ASSUME RowsType, NEW T \in SUBSET rows
    PROVE  T \subseteq RowSet(now) /\ UniqueIds(T) /\ IsFiniteSet(T)
  BY FS_Subset DEF RowsType, UniqueIds

LEMMA ImageIsFinite ==
    ASSUME NEW S, IsFiniteSet(S), NEW f, DOMAIN f = S
    PROVE  /\ IsFiniteSet({f[x] : x \in S})
           /\ Cardinality({f[x] : x \in S}) <= Cardinality(S)
  <1> DEFINE T == {f[x] : x \in S}
             g == [x \in S |-> f[x]]
  <1>1. g \in Surjection(S, T)
    BY DEF Surjection
  <1> HIDE DEF g
  <1> QED BY <1>1, FS_Surjection

\* Rows that are told something keep their ids: the table stays one.
LEMMA RowsChanged ==
    ASSUME RowsType, NEW f \in [rows -> RowSet(now)], \A r \in rows : f[r].id = r.id
    PROVE  /\ {f[r] : r \in rows} \subseteq RowSet(now)
           /\ UniqueIds({f[r] : r \in rows}) /\ IsFiniteSet({f[r] : r \in rows})
  BY ImageIsFinite DEF RowsType, UniqueIds

\* There is a free id: there are fewer rows than numbers to choose from.
LEMMA FreeIdIsFree ==
    ASSUME NEW table, IsFiniteSet(table)
    PROVE  FreeId(table) \in Nat \ {0} /\ \A r \in table : r.id # FreeId(table)
  <1> DEFINE n == Cardinality(table) + 1
             used == {r.id : r \in table}
  <1>1. Cardinality(table) \in Nat
    BY FS_CardinalityType
  <1>2. IsFiniteSet(1..n) /\ Cardinality(1..n) = n
    BY <1>1, FS_Interval
  <1>3. IsFiniteSet(used) /\ Cardinality(used) <= Cardinality(table)
    <2> DEFINE f == [r \in table |-> r.id]
    <2>1. used = {f[r] : r \in table} /\ DOMAIN f = table
      OBVIOUS
    <2> HIDE DEF f, used
    <2>2. /\ IsFiniteSet({f[r] : r \in table})
          /\ Cardinality({f[r] : r \in table}) <= Cardinality(table)
      BY <2>1, ImageIsFinite
    <2> QED BY <2>1, <2>2
  <1>4. \E id \in 1..n : id \notin used
    <2>1. SUFFICES ASSUME 1..n \subseteq used PROVE FALSE
      OBVIOUS
    <2>2. Cardinality(1..n) <= Cardinality(used)
      BY <1>3, <2>1, FS_Subset
    <2>3. Cardinality(used) \in Nat
      BY <1>3, FS_CardinalityType
    <2> QED BY <1>1, <1>2, <1>3, <2>2, <2>3
  <1>5. \E id \in 1..Cardinality(table) + 1 : \A r \in table : r.id # id
    BY <1>4
  <1>6. /\ FreeId(table) \in 1..Cardinality(table) + 1
        /\ \A r \in table : r.id # FreeId(table)
    BY <1>5 DEF FreeId
  <1> QED BY <1>1, <1>6

\* Where neither time nor table move, types are a matter of the run and the marks.
LEMMA SameTable ==
    ASSUME TypeInv, UNCHANGED <<now, wanted, stops>>, full' = full, rows' \in SUBSET rows,
           RunType', MarksType'
    PROVE  TypeInv'
  BY FewerRows DEF TypeInv, ClockType, RowsType, UniqueIds

LEMMA BreakOffType ==
    ASSUME GatheringAssumption, TypeInv, BreakOff, UNCHANGED now
    PROVE  RunType' /\ run'.pc \in {"ok", "failed"} /\ (run'.pc = "failed" => ~got)
  <1>1. call' = NoCall /\ NoCall \in CallSet(now)
    BY NoCallType DEF BreakOff, TypeInv
  <1>2. run \in RunSet(now) /\ now' = now
    BY DEF TypeInv, RunType
  <1>3. run' = [run EXCEPT !.pc = IF got THEN "ok" ELSE "failed", !.left = <<>>, !.before = {}]
    BY DEF BreakOff
  <1>4. run' \in RunSet(now) /\ run'.pc = (IF got THEN "ok" ELSE "failed")
    <2>1. (IF got THEN "ok" ELSE "failed") \in Places /\ <<>> \in Seq(Parts) /\ {} \in SUBSET Docs
      BY DEF Places
    <2> QED BY <1>2, <1>3, <2>1 DEF RunSet
  <1> QED BY <1>1, <1>2, <1>4 DEF RunType

\* Reaping, telling, beating.
LEMMA TableType ==
    ASSUME TypeInv
    PROVE  /\ Reaped \in SUBSET rows
           /\ \A r \in rows : ToldToStop(r) \in RowSet(now) /\ ToldToStop(r).id = r.id
           /\ \A r \in rows : /\ [r EXCEPT !.beat = now] \in RowSet(now)
                              /\ [r EXCEPT !.beat = now].id = r.id
  <1>1. rows \subseteq RowSet(now) /\ now \in 0..now
    BY DEF TypeInv, RowsType, ClockType
  <1> QED BY <1>1 DEF Reaped, ToldToStop, RowSet

LEMMA InitType ==
    ASSUME GatheringAssumption, Init
    PROVE  TypeInv
  <1>1. now = 1 /\ wanted = 0 /\ stops = 0 /\ rows = {} /\ full = [s \in Backends |-> 0]
    BY DEF Init
  <1>2. ClockType
    BY <1>1, ConstantsAreNat DEF ClockType
  <1>3. RowsType
    BY <1>1, FS_EmptySet DEF RowsType, UniqueIds
  <1>4. Idle \in RunSet(1)
    BY ConstantsAreNat DEF Idle, RunSet, Places
  <1>5. RunType
    BY <1>1, <1>2, <1>4, NoCallType DEF Init, RunType
  <1>6. MarksType
    <2>1. Never \in Int
      BY DEF Never, GatheringAssumption
    <2> QED BY <2>1 DEF Init, MarksType
  <1> QED BY <1>2, <1>3, <1>5, <1>6 DEF TypeInv

LEMMA NextType ==
    ASSUME GatheringAssumption, TypeInv, [Next]_vars,
           run.pc \in {"pick", "ask", "call"} => run.left # <<>>
    PROVE  TypeInv'
  <1> USE DEF marks
  <1>0. /\ ClockType /\ RowsType /\ RunType /\ MarksType
        /\ now \in Nat /\ now \in 0..now /\ 0 \in 0..now /\ run \in RunSet(now)
    BY ClockIsNat DEF TypeInv, RunType
  <1>1. CASE List
    BY <1>0, <1>1, TableType, SameTable DEF List, RunType, MarksType
  <1>2. ASSUME NEW r \in rows, StopCall(r)
        PROVE  TypeInv'
    <2> DEFINE f == [t \in rows |-> IF t = r THEN ToldToStop(r) ELSE t]
    <2>1. rows' = {f[t] : t \in rows}
      BY <1>2 DEF StopCall
    <2>2. f \in [rows -> RowSet(now)] /\ \A t \in rows : f[t].id = t.id
      BY <1>0, TableType DEF RowsType
    <2> HIDE DEF f
    <2>3. RowsType'
      BY <1>0, <1>2, <2>1, <2>2, RowsChanged DEF StopCall, RowsType
    <2>4. ClockType'
      BY SMTT(30), <1>0, <1>2, ConstantsAreNat DEF StopCall, ClockType
    <2> QED BY <1>0, <1>2, <2>3, <2>4 DEF StopCall, TypeInv, RunType, MarksType
  <1>3. CASE StopCaller
    <2> DEFINE f == [t \in rows |-> ToldToStop(t)]
    <2>1. rows' = {f[t] : t \in rows}
      BY <1>3 DEF StopCaller
    <2>2. f \in [rows -> RowSet(now)] /\ \A t \in rows : f[t].id = t.id
      BY <1>0, TableType DEF RowsType
    <2> HIDE DEF f
    <2>3. RowsType'
      BY <1>0, <1>3, <2>1, <2>2, RowsChanged DEF StopCaller, RowsType
    <2>4. ClockType'
      BY <1>0, <1>3, ConstantsAreNat DEF StopCaller, ClockType
    <2>5. MarksType'
      <3>1. Len(run.left) \in Nat
        BY <1>0 DEF RunSet
      <3>2. askedAt' \in Int
        BY <1>0, <1>3, <3>1 DEF StopCaller, MarksType
      <3> QED BY <1>0, <1>3, <3>2 DEF StopCaller, MarksType
    <2> QED BY <1>0, <1>3, <2>3, <2>4, <2>5 DEF StopCaller, TypeInv, RunType
  <1>4. CASE Start
    <2>1. run' = [no |-> run.no + 1, pc |-> "check", started |-> now, left |-> Keys, before |-> {}]
      BY <1>4 DEF Start, Idle
    <2>2. run' \in RunSet(now)
      BY SMTT(30), <1>0, <1>4, <2>1, ConstantsAreNat DEF Start, RunSet, Places, GatheringAssumption
    <2>3. MarksType'
      <3>1. Never \in Int
        BY DEF Never, GatheringAssumption
      <3> QED BY <3>1, <1>4 DEF Start, MarksType
    <2> QED BY <1>0, <1>4, <2>2, <2>3, SameTable DEF Start, RunType
  <1>5. CASE Check
    <2>1. RunType'
      <3>1. CASE BreakOff
        BY <1>5, <3>1, BreakOffType DEF Check
      <3>2. CASE ~BreakOff
        <4>1. /\ call' = call /\ now' = now
              /\ \/ run' = [run EXCEPT !.pc = "ok", !.before = {}]
                 \/ run' = [run EXCEPT !.pc = "pick", !.before = shown]
          BY <1>5, <3>2 DEF Check
        <4>2. run' \in RunSet(now)
          BY <1>0, <4>1 DEF RunSet, Places, MarksType
        <4> QED BY <1>0, <4>1, <4>2 DEF RunType
      <3> QED BY <3>1, <3>2
    <2> QED BY <1>0, <1>5, <2>1, SameTable DEF Check, MarksType
  <1>6. ASSUME NEW spent \in SUBSET Backends, Pick(spent)
        PROVE  TypeInv'
    <2>1. shown' \subseteq Docs
      BY <1>0, <1>6 DEF Pick, MarksType
    <2>2. RunType'
      <3>1. CASE BreakOff
        BY <1>6, <3>1, BreakOffType DEF Pick
      <3>2. CASE ~BreakOff
        <4>1. PICK i \in 1..Len(Steps) :
                 run' = [run EXCEPT !.pc = "ask"] /\ call' = [NoCall EXCEPT !.step = Steps[i]]
          BY <1>6, <3>2 DEF Pick
        <4>2. Steps[i] \in Backends
          BY DEF Backends
        <4>3. call' \in CallSet(now)
          BY <1>0, <4>1, <4>2, NoCallType DEF CallSet
        <4>4. run' \in RunSet(now) /\ now' = now
          BY <1>0, <1>6, <4>1 DEF Pick, RunSet, Places
        <4> QED BY <4>3, <4>4 DEF RunType
      <3> QED BY <3>1, <3>2
    <2> QED BY <1>0, <1>6, <2>1, <2>2, SameTable DEF Pick, MarksType
  <1>7. CASE Begin
    <2> DEFINE id == FreeId(Reaped)
               new == [id |-> id, expires |-> now + TIMEOUT + STALE_GRACE, beat |-> 0, stop |-> 0]
    <2>1. /\ Reaped \subseteq RowSet(now) /\ UniqueIds(Reaped) /\ IsFiniteSet(Reaped)
      BY <1>0, TableType, FewerRows
    <2>2. id \in Nat \ {0} /\ \A r \in Reaped : r.id # id
      BY <2>1, FreeIdIsFree
    <2> HIDE DEF id
    <2>3. new \in RowSet(now) /\ new.id = id
      BY <1>0, <2>2, ConstantsAreNat DEF RowSet
    <2>4. rows' = Reaped \cup {new} /\ now' = now
      BY <1>7 DEF Begin, id
    <2> HIDE DEF new
    <2>5. RowsType'
      BY <2>1, <2>2, <2>3, <2>4, FS_AddElement DEF RowsType, UniqueIds
    <2>6. /\ run' = [run EXCEPT !.pc = "call"]
          /\ call' = [call EXCEPT !.token = id, !.posted = now, !.pinged = now, !.begun = now]
      BY <1>7 DEF Begin, id
    <2>7. RunType'
      BY <1>0, <2>2, <2>4, <2>6 DEF RunType, RunSet, CallSet, Places
    <2> QED BY <1>0, <1>7, <2>5, <2>7 DEF Begin, TypeInv, ClockType, MarksType
  <1>8. CASE Retry
    <2>1. call.tries + 1 \in 0..RETRIES /\ call' = [call EXCEPT !.tries = @ + 1, !.posted = now]
      BY SMTT(30), <1>0, <1>8, ConstantsAreNat DEF Retry, RunType, CallSet
    <2>2. call' \in CallSet(now)
      BY <1>0, <2>1 DEF RunType, CallSet
    <2> QED BY <1>0, <1>8, <2>2, SameTable DEF Retry, RunType, MarksType
  <1>9. ASSUME NEW left \in SUBSET Docs, NEW salvaged \in BOOLEAN, NEW items \in BOOLEAN,
               Answer(left, salvaged, items)
        PROVE  TypeInv'
    <2>1. run.left \in Seq(Parts) /\ run.left # <<>>
      BY <1>0, <1>9 DEF Answer, Waits, RunSet
    <2>2. Key \in Parts /\ Tail(run.left) \in Seq(Parts)
      BY <2>1, HeadTailProperties DEF Key
    <2>3. run' = [run EXCEPT !.pc = "check", !.left = Tail(run.left)] /\ now' = now
          /\ call' = NoCall
      BY <1>9 DEF Answer
    <2>4. RunType'
      BY <1>0, <2>2, <2>3, NoCallType DEF RunType, RunSet, Places
    <2>5. shown' \subseteq Docs /\ read' \subseteq Docs /\ done' \subseteq Parts /\ cut' \subseteq Parts
      BY <1>0, <1>9, <2>2 DEF Answer, MarksType
    <2>6. got' \in BOOLEAN
      BY <1>0, <1>9 DEF Answer, MarksType
    <2>7. rows' \in SUBSET rows
      BY <1>9 DEF Answer
    <2> QED BY <1>0, <1>9, <2>4, <2>5, <2>6, <2>7, SameTable DEF Answer, MarksType
  <1>10. CASE AnswerFull
    <2>1. run' = [run EXCEPT !.pc = "pick"] /\ now' = now /\ call' = NoCall
      BY <1>10 DEF AnswerFull
    <2>2. RunType'
      BY <1>0, <2>1, NoCallType DEF RunType, RunSet, Places
    <2>3. now + COOLDOWN \in 0..MAX_TIME + COOLDOWN
      BY <1>0, ClockIsNat, ConstantsAreNat
    <2>4. full' \in [Backends -> 0..MAX_TIME + COOLDOWN]
      BY <1>0, <1>10, <2>3 DEF AnswerFull, Avoided, ClockType
    <2>5. RowsType'
      BY <1>0, <1>10, FewerRows DEF AnswerFull, RowsType
    <2> QED BY <1>0, <1>10, <2>2, <2>4, <2>5 DEF AnswerFull, TypeInv, ClockType, MarksType
  <1>11. CASE AnswerFails
    BY <1>0, <1>11, BreakOffType, SameTable DEF AnswerFails, MarksType
  <1>12. CASE Ping
    <2>1. CASE BreakOff /\ rows' = rows \ Own
      BY <1>0, <1>12, <2>1, BreakOffType, SameTable DEF Ping, MarksType
    <2>2. CASE /\ call' = [call EXCEPT !.pinged = now]
               /\ rows' = (rows \ Own) \cup {[r EXCEPT !.beat = now] : r \in Own}
               /\ UNCHANGED run
      <3> DEFINE f == [t \in rows |-> IF t \in Own THEN [t EXCEPT !.beat = now] ELSE t]
      <3>1. rows' = {f[t] : t \in rows}
        BY <2>2 DEF Own
      <3>2. f \in [rows -> RowSet(now)] /\ \A t \in rows : f[t].id = t.id
        BY <1>0, TableType DEF RowsType
      <3> HIDE DEF f
      <3>3. RowsType'
        BY <1>0, <1>12, <3>1, <3>2, RowsChanged DEF Ping, RowsType
      <3>4. call' \in CallSet(now)
        BY <1>0, <2>2 DEF RunType, CallSet
      <3> QED BY <1>0, <1>12, <2>2, <3>3, <3>4 DEF Ping, TypeInv, ClockType, RunType, MarksType
    <2> QED BY <1>12, <2>1, <2>2 DEF Ping
  <1>13. CASE Crash
    <2>1. /\ run' = [run EXCEPT !.pc = "lost", !.left = <<>>, !.before = {}]
          /\ call' = NoCall /\ now' = now
      BY <1>13 DEF Crash
    <2>2. run' \in RunSet(now)
      <3>1. "lost" \in Places /\ <<>> \in Seq(Parts) /\ {} \in SUBSET Docs
        BY DEF Places
      <3> QED BY <1>0, <2>1, <3>1 DEF RunSet
    <2> QED BY <1>0, <1>13, <2>1, <2>2, NoCallType, SameTable DEF Crash, RunType, MarksType
  <1>14. CASE Tick
    <2>1. now' = now + 1 /\ now' \in Nat /\ now <= now' /\ now < MAX_TIME
      BY <1>0, <1>14 DEF Tick
    <2>2. /\ RowSet(now) \subseteq RowSet(now') /\ RunSet(now) \subseteq RunSet(now')
          /\ CallSet(now) \subseteq CallSet(now')
      BY <1>0, <2>1, SetsGrow
    <2>3. ClockType'
      BY <1>0, <1>14, <2>1, ConstantsAreNat DEF Tick, ClockType
    <2>4. RowsType' /\ RunType'
      BY <1>0, <1>14, <2>2 DEF Tick, RowsType, RunType, UniqueIds
    <2> QED BY <1>0, <1>14, <2>3, <2>4 DEF Tick, TypeInv, MarksType
  <1>15. CASE UNCHANGED vars
    BY <1>0, <1>15
       DEF vars, TypeInv, ClockType, RowsType, UniqueIds, RunType, MarksType
  <1> QED BY <1>1, <1>2, <1>3, <1>4, <1>5, <1>6, <1>7, <1>8, <1>9, <1>10, <1>11, <1>12, <1>13,
             <1>14, <1>15 DEF Next, Work, Answers

-----------------------------------------------------------------------------
\* What was collected and what was read.

LEMMA InitInv ==
    ASSUME GatheringAssumption, Init
    PROVE  HarvestInv /\ StopInv /\ CallInv
  BY DEF Init, Idle, HarvestInv, CollectedIsKept, DoneWasRead, StopInv, CallInv, Working, Waits

\* A step that leaves the marks alone and goes on, ends the run or starts the next one.
LEMMA SameMarks ==
    ASSUME HarvestInv, UNCHANGED marks,
           \/ run'.pc = run.pc /\ run'.left = run.left /\ run'.before = run.before
           \/ run'.pc \in {"ok", "lost"}
           \/ run'.pc = "failed" /\ ~got
    PROVE  HarvestInv'
  BY DEF HarvestInv, CollectedIsKept, DoneWasRead, Key, marks

LEMMA NextHarvest ==
    ASSUME GatheringAssumption, TypeInv, HarvestInv, [Next]_vars
    PROVE  HarvestInv'
  <1>0. /\ run \in RunSet(now) /\ MarksType
        /\ UNCHANGED now => (BreakOff => run'.pc \in {"ok", "failed"} /\ (run'.pc = "failed" => ~got))
    BY BreakOffType DEF TypeInv, RunType
  <1>1. ASSUME UNCHANGED <<run, marks>>
        PROVE  HarvestInv'
    BY <1>1, SameMarks
  <1>2. CASE Start
    BY <1>2 DEF Start, Idle, HarvestInv, CollectedIsKept, DoneWasRead
  <1>3. CASE Check
    <2>1. CASE BreakOff
      BY <1>0, <1>3, <2>1, SameMarks DEF Check
    <2>2. CASE run.left = <<>> /\ run' = [run EXCEPT !.pc = "ok", !.before = {}]
      <3>1. run'.pc = "ok"
        BY <1>0, <2>2 DEF RunSet
      <3> QED BY <1>3, <3>1, SameMarks DEF Check
    <2>3. CASE run.left # <<>> /\ run' = [run EXCEPT !.pc = "pick", !.before = shown]
      <3>1. run'.pc = "pick" /\ run'.left = run.left /\ run'.before = shown
        BY <1>0, <2>3 DEF RunSet
      <3> QED BY <1>3, <2>3, <3>1
             DEF Check, HarvestInv, CollectedIsKept, DoneWasRead, marks
    <2> QED BY <1>3, <2>1, <2>2, <2>3 DEF Check
  <1>4. ASSUME NEW spent \in SUBSET Backends, Pick(spent)
        PROVE  HarvestInv'
    <2>1. CASE BreakOff /\ shown' = shown
      BY <1>0, <1>4, <2>1, SameMarks DEF Pick, marks
    <2>2. CASE /\ run' = [run EXCEPT !.pc = "ask"]
               /\ shown' = shown \cup {d \in Docs : PartOf[d] = Key}
      <3>1. run'.pc = "ask" /\ run'.left = run.left /\ run'.before = run.before
        BY <1>0, <2>2 DEF RunSet
      <3> QED BY <1>4, <2>2, <3>1
             DEF Pick, HarvestInv, CollectedIsKept, DoneWasRead, Key
    <2> QED BY <1>4, <2>1, <2>2 DEF Pick
  <1>5. CASE Begin
    <2>1. run'.pc = "call" /\ run'.left = run.left /\ run'.before = run.before /\ run.pc = "ask"
      BY <1>0, <1>5 DEF Begin, RunSet
    <2> QED BY <1>5, <2>1 DEF Begin, HarvestInv, CollectedIsKept, DoneWasRead, Key, marks
  <1>6. ASSUME NEW left \in SUBSET Docs, NEW salvaged \in BOOLEAN, NEW items \in BOOLEAN,
               Answer(left, salvaged, items)
        PROVE  HarvestInv'
    <2>1. run.pc = "call" /\ run'.pc = "check"
      BY <1>0, <1>6 DEF Answer, Waits, RunSet
    <2>2. /\ run.before \subseteq read /\ left \subseteq shown \ run.before
          /\ shown' = shown \ left /\ read' = read \cup ((shown \ run.before) \ left)
          /\ \A d \in Docs : PartOf[d] = Key => d \in shown
      BY <1>6, <2>1 DEF Answer, HarvestInv
    <2>3. shown' \subseteq read'
      BY <2>2
    <2>4. \A d \in Docs : PartOf[d] \in done' => d \in read'
      <3>1. CASE left = {} /\ done' = done \cup {Key}
        BY <2>2, <3>1 DEF HarvestInv, DoneWasRead
      <3>2. CASE done' = done
        BY <2>2, <3>2 DEF HarvestInv, DoneWasRead
      <3> QED BY <1>6, <3>1, <3>2 DEF Answer, PartDone
    <2> QED BY <2>1, <2>3, <2>4 DEF HarvestInv, CollectedIsKept, DoneWasRead
  <1>7. CASE AnswerFull
    <2>1. /\ run.pc = "call" /\ run'.pc = "pick" /\ run'.left = run.left
          /\ run'.before = run.before
      BY <1>0, <1>7 DEF AnswerFull, Waits, RunSet
    <2> QED BY <1>7, <2>1 DEF AnswerFull, HarvestInv, CollectedIsKept, DoneWasRead, marks
  <1>8. CASE AnswerFails \/ Ping
    BY <1>0, <1>8, SameMarks DEF AnswerFails, Ping
  <1>9. CASE Crash
    <2>1. run'.pc = "lost"
      BY <1>0, <1>9 DEF Crash, RunSet
    <2> QED BY <1>9, <2>1, SameMarks DEF Crash
  <1>10. ASSUME List \/ StopCaller \/ Tick \/ Retry \/ UNCHANGED vars \/ \E r \in rows : StopCall(r)
         PROVE  HarvestInv'
    BY <1>1, <1>10 DEF List, StopCaller, Tick, Retry, StopCall, vars, marks
  <1> QED BY <1>2, <1>3, <1>4, <1>5, <1>6, <1>7, <1>8, <1>9, <1>10 DEF Next, Work, Answers

-----------------------------------------------------------------------------
\* What a stop does.

LEMMA NextStop ==
    ASSUME GatheringAssumption, TypeInv, StopInv, [Next]_vars
    PROVE  StopInv'
  <1>0. /\ run \in RunSet(now) /\ run.started <= now /\ now \in Nat /\ wanted \in Nat
        /\ wanted <= now /\ run.started \in Nat
        /\ UNCHANGED now => (BreakOff => run'.pc \in {"ok", "failed"})
    BY BreakOffType, ClockIsNat DEF TypeInv, RunType, RunSet
  <1>1. ASSUME UNCHANGED <<run, askedAt, wanted>>
        PROVE  StopInv'
    BY <1>1 DEF StopInv, Working, StopWanted
  <1>2. ASSUME run'.pc \in {"ok", "failed", "lost"}
        PROVE  StopInv'
    BY <1>2 DEF StopInv, Working
  <1>3. CASE Start
    BY <1>3 DEF Start, StopInv
  <1>4. CASE Check
    <2>1. CASE BreakOff
      BY <1>0, <1>2, <1>4, <2>1 DEF Check
    <2>2. CASE run' = [run EXCEPT !.pc = "ok", !.before = {}]
      BY <1>0, <1>2, <2>2 DEF RunSet
    <2>3. CASE ~StopWanted /\ UNCHANGED askedAt
      BY <1>4, <2>3 DEF StopInv, Working, Check
    <2> QED BY <1>4, <2>1, <2>2, <2>3 DEF Check
  <1>5. ASSUME UNCHANGED <<askedAt, wanted>>, Working, run.pc # "check", run'.left = run.left,
               run'.started = run.started
        PROVE  StopInv'
    BY <1>5 DEF StopInv, StopWanted
  <1>6. ASSUME NEW spent \in SUBSET Backends, Pick(spent)
        PROVE  StopInv'
    <2>1. CASE BreakOff
      BY <1>0, <1>2, <1>6, <2>1 DEF Pick
    <2>2. CASE run' = [run EXCEPT !.pc = "ask"]
      <3>1. run'.left = run.left /\ run'.started = run.started
        BY <1>0, <2>2 DEF RunSet
      <3> QED BY <1>5, <1>6, <3>1 DEF Pick, Working
    <2> QED BY <1>6, <2>1, <2>2 DEF Pick
  <1>7. CASE Begin \/ AnswerFull
    <2>1. run'.left = run.left /\ run'.started = run.started
      BY <1>0, <1>7 DEF Begin, AnswerFull, RunSet
    <2> QED BY <1>5, <1>7, <2>1 DEF Begin, AnswerFull, Working, Waits, marks
  <1>8. ASSUME NEW left \in SUBSET Docs, NEW salvaged \in BOOLEAN, NEW items \in BOOLEAN,
               Answer(left, salvaged, items)
        PROVE  StopInv'
    <2>1. run'.pc = "check" /\ run'.started = run.started /\ Working
      BY <1>0, <1>8 DEF Answer, Waits, Working, RunSet
    <2> QED BY <1>8, <2>1 DEF Answer, StopInv, StopWanted
  <1>9. CASE AnswerFails \/ Ping
    BY <1>0, <1>1, <1>2, <1>9 DEF AnswerFails, Ping
  <1>10. CASE Crash
    <2>1. run'.pc = "lost"
      BY <1>0, <1>10 DEF Crash, RunSet
    <2> QED BY <1>2, <2>1
  <1>11. CASE StopCaller
    <2>1. StopWanted'
      BY <1>0, <1>11 DEF StopCaller, StopWanted
    <2>2. Working /\ run.pc # "check" => Len(run.left) = askedAt'
      BY <1>11 DEF StopCaller, StopInv
    <2> QED BY <1>11, <2>1, <2>2 DEF StopCaller, StopInv, Working
  <1>12. ASSUME List \/ Tick \/ Retry \/ UNCHANGED vars \/ \E r \in rows : StopCall(r)
         PROVE  StopInv'
    BY <1>1, <1>12 DEF List, Tick, Retry, StopCall, vars
  <1> QED BY <1>3, <1>4, <1>6, <1>7, <1>8, <1>9, <1>10, <1>11, <1>12 DEF Next, Work, Answers

-----------------------------------------------------------------------------
\* The call in the table.

\* The process looks at its call more often than the table loses patience with one that
\* does not beat or does not heed a stop (3 s against 30 s and 30 s in src/app/answer.py
\* and src/app/ai_inflight.py).
Timely == "hang" \notin Faults /\ STOP_POLL <= BEAT_GRACE /\ STOP_POLL <= STOP_GRACE

\* No row of a call under way is stale before its time is over.
LEMMA OwnRowIsFresh ==
    ASSUME GatheringAssumption, Timely, TypeInv, CallInv, Waits, NEW r \in Own,
           now <= call.begun + TIMEOUT + STALE_GRACE
    PROVE  ~Stale(r)
  <1>1. /\ r \in RowSet(now) /\ r.expires \in Nat /\ r.beat \in Nat /\ r.stop \in Nat
        /\ now \in Nat /\ call.pinged \in Nat /\ call.begun \in Nat
    BY ClockIsNat DEF TypeInv, RowsType, RunType, RowSet, CallSet, Own
  <1>2. /\ r.expires = call.begun + TIMEOUT + STALE_GRACE
        /\ r.beat \in {0, call.pinged} /\ (r.stop # 0 => call.pinged <= r.stop)
        /\ now <= call.pinged + STOP_POLL
    BY DEF CallInv
  <1>3. ~(r.expires < now)
    BY <1>1, <1>2
  <1>4. r.beat # 0 => ~(r.beat + BEAT_GRACE < now)
    BY <1>1, <1>2, ConstantsAreNat DEF Timely
  <1>5. r.stop # 0 => ~(r.stop + STOP_GRACE < now)
    BY <1>1, <1>2, ConstantsAreNat DEF Timely
  <1> QED BY <1>3, <1>4, <1>5 DEF Stale

\* The next step of a call that goes on.
LEMMA NextCall ==
    ASSUME GatheringAssumption, Timely, TypeInv, CallInv, [Next]_vars
    PROVE  CallInv'
  <1>0. /\ run \in RunSet(now) /\ call \in CallSet(now) /\ now \in Nat /\ rows \subseteq RowSet(now)
        /\ call.pinged \in Nat /\ call.begun \in Nat /\ call.pinged <= now /\ call.begun <= now
        /\ UNCHANGED now => (BreakOff => run'.pc \in {"ok", "failed"})
    BY BreakOffType, ClockIsNat DEF TypeInv, RunType, RowsType, CallSet
  <1>1. ASSUME run'.pc # "call"
        PROVE  CallInv'
    BY <1>1 DEF CallInv, Waits
  <1>2. ASSUME UNCHANGED <<run, rows, now, call>>
        PROVE  CallInv'
    BY <1>2 DEF CallInv, Waits, Own, LiveCallIsListed
  <1>3. CASE List
    <2>1. Own' \subseteq Own
      BY <1>3 DEF List, Reaped, Own
    <2>2. ASSUME Waits, now <= call.begun + TIMEOUT + STALE_GRACE
          PROVE  Own' # {}
      <3>1. PICK r \in Own : TRUE
        BY <2>2 DEF CallInv, LiveCallIsListed
      <3>2. r \in Reaped
        BY <2>2, <3>1, OwnRowIsFresh DEF Reaped, Own
      <3> QED BY <1>3, <3>1, <3>2 DEF List, Own
    <2> QED BY <1>3, <2>1, <2>2 DEF List, CallInv, LiveCallIsListed, Waits
  <1>4. ASSUME NEW r \in rows, StopCall(r) \/ StopCaller
        PROVE  CallInv'
    <2>1. /\ UNCHANGED <<run, call, now>>
          /\ \A t \in rows' : t \in rows \/ \E u \in rows : t = ToldToStop(u)
          /\ \A u \in rows : u \in rows' \/ ToldToStop(u) \in rows'
      BY <1>4 DEF StopCall, StopCaller
    <2>2. \A u \in rows : /\ ToldToStop(u).id = u.id /\ ToldToStop(u).expires = u.expires
                          /\ ToldToStop(u).beat = u.beat
                          /\ ToldToStop(u).stop = IF u.stop = 0 THEN now ELSE u.stop
      BY <1>0 DEF ToldToStop, RowSet
    <2>3. \A t \in Own' : \E u \in Own : /\ t.expires = u.expires /\ t.beat = u.beat
                                         /\ t.stop = u.stop \/ t.stop = now
      BY <2>1, <2>2 DEF Own
    <2>4. Own # {} => Own' # {}
      BY <2>1, <2>2 DEF Own
    <2> QED BY <1>0, <2>1, <2>3, <2>4 DEF CallInv, LiveCallIsListed, Waits
  <1>5. CASE Begin
    <2> DEFINE id == FreeId(Reaped)
               new == [id |-> id, expires |-> now + TIMEOUT + STALE_GRACE, beat |-> 0, stop |-> 0]
    <2>1. /\ IsFiniteSet(Reaped)
      BY TableType, FewerRows DEF TypeInv
    <2>2. id \in Nat \ {0} /\ \A r \in Reaped : r.id # id
      BY <2>1, FreeIdIsFree
    <2>3. rows' = Reaped \cup {new} /\ now' = now
      BY <1>5 DEF Begin
    <2>4. call' = [call EXCEPT !.token = id, !.posted = now, !.pinged = now, !.begun = now]
      BY <1>5 DEF Begin
    <2> HIDE DEF id
    <2>5. call'.token = id /\ call'.pinged = now /\ call'.begun = now
      BY <1>0, <2>4 DEF CallSet
    <2>6. Own' = {new}
      BY <2>2, <2>3, <2>5 DEF Own
    <2>7. now <= now + STOP_POLL
      BY <1>0, ConstantsAreNat
    <2>8. new.expires = now + TIMEOUT + STALE_GRACE /\ new.beat = 0 /\ new.stop = 0
      OBVIOUS
    <2> HIDE DEF new
    <2> QED BY <1>0, <2>2, <2>3, <2>5, <2>6, <2>7, <2>8 DEF CallInv, LiveCallIsListed
  <1>6. CASE Retry
    <2>1. call'.token = call.token /\ call'.pinged = call.pinged /\ call'.begun = call.begun
      BY <1>0, <1>6 DEF Retry, CallSet
    <2> QED BY <1>6, <2>1 DEF Retry, CallInv, LiveCallIsListed, Waits, Own
  <1>7. CASE Ping
    <2>1. CASE BreakOff
      BY <1>0, <1>1, <1>7, <2>1 DEF Ping
    <2>2. CASE /\ \A r \in Own : r.stop = 0
               /\ call' = [call EXCEPT !.pinged = now]
               /\ rows' = (rows \ Own) \cup {[r EXCEPT !.beat = now] : r \in Own}
               /\ UNCHANGED run
      <3>1. call'.token = call.token /\ call'.pinged = now /\ call'.begun = call.begun
        BY <1>0, <2>2 DEF CallSet
      <3>2. \A r \in Own : /\ [r EXCEPT !.beat = now].id = r.id /\ [r EXCEPT !.beat = now].stop = r.stop
                           /\ [r EXCEPT !.beat = now].beat = now
                           /\ [r EXCEPT !.beat = now].expires = r.expires
        BY <1>0 DEF RowSet, Own
      <3>3. Own' = {[r EXCEPT !.beat = now] : r \in Own}
        BY <2>2, <3>1, <3>2 DEF Own
      <3>4. now <= now + STOP_POLL
        BY <1>0, ConstantsAreNat
      <3>5. \A t \in Own' : /\ t.expires = call.begun + TIMEOUT + STALE_GRACE
                            /\ t.beat = now /\ t.stop = 0
        BY <1>7, <2>2, <3>2, <3>3 DEF Ping, CallInv
      <3>6. Own # {} => Own' # {}
        BY <3>3
      <3> QED BY <1>0, <1>7, <2>2, <3>1, <3>4, <3>5, <3>6 DEF Ping, CallInv, LiveCallIsListed, Waits
    <2> QED BY <1>7, <2>1, <2>2 DEF Ping
  <1>8. CASE Tick
    <2>1. now' = now + 1 /\ UNCHANGED <<run, rows, call>>
      BY <1>8 DEF Tick
    <2>2. Waits => now + 1 <= call.pinged + STOP_POLL
      BY <1>0, <1>8, ConstantsAreNat DEF Tick, Timely
    <2>3. LiveCallIsListed => LiveCallIsListed'
      BY <1>0, <2>1, ConstantsAreNat DEF LiveCallIsListed, Waits, Own
    <2> QED BY <2>1, <2>2, <2>3 DEF CallInv, Waits, Own
  <1>9. ASSUME \/ Start \/ Check \/ (\E spent \in SUBSET Backends : Pick(spent))
               \/ Answers \/ Crash
        PROVE  CallInv'
    <2>1. run'.pc # "call"
      BY <1>0, <1>9
         DEF Start, Idle, Check, Pick, Answers, Answer, AnswerFull, AnswerFails, Crash, RunSet
    <2> QED BY <1>1, <2>1
  <1>10. CASE UNCHANGED vars
    BY <1>2, <1>10 DEF vars
  <1>11. StopCaller => CallInv'
    <2>1. CASE rows = {}
      BY <2>1 DEF StopCaller, CallInv, LiveCallIsListed, Waits, Own
    <2> QED BY <1>4, <2>1
  <1> QED BY <1>3, <1>4, <1>5, <1>6, <1>7, <1>8, <1>9, <1>10, <1>11 DEF Next, Work

-----------------------------------------------------------------------------
\* The theorems.

LEMMA InvHolds ==
    ASSUME GatheringAssumption
    PROVE  Spec => [](TypeInv /\ HarvestInv /\ StopInv)
  <1> DEFINE I == TypeInv /\ HarvestInv /\ StopInv
  <1>1. Init => I
    BY InitType, InitInv
  <1>2. I /\ [Next]_vars => I'
    <2>1. HarvestInv => (run.pc \in {"pick", "ask", "call"} => run.left # <<>>)
      BY DEF HarvestInv
    <2> QED BY <2>1, NextType, NextHarvest, NextStop
  <1> QED BY <1>1, <1>2, PTL DEF Spec

\* Every state of a run has the types it should, and no two calls in the table have one id
\* (src/app/ai_inflight.py, begin).
THEOREM GatheringTyped == ASSUME GatheringAssumption PROVE Spec => []TypeOK
  BY InvHolds, TypesAreTypeOK, PTL

\* A run that breaks off keeps what it collected, and a partition counts as done only if an
\* answer covered every document sent with it (src/app/main.py, _collect_items), however
\* many backends are full, calls are stopped or processes die on the way.
THEOREM HarvestKept == ASSUME GatheringAssumption PROVE Spec => []HarvestIsKept
  <1>1. HarvestInv => HarvestIsKept
    BY DEF HarvestInv, HarvestIsKept
  <1> QED BY <1>1, InvHolds, PTL

\* A collection that was told to stop calls for the partition at hand at most
\* (src/app/main.py, the head of the loop in _collect_items).
THEOREM StopsBeforeNext == ASSUME GatheringAssumption PROVE Spec => NoPartitionAfterStop
  <1>1. /\ TypeInv /\ StopInv /\ [Next]_vars
        => [~Waits /\ run'.pc = "call" /\ askedAt # Never => Len(run.left) = askedAt]_vars
    <2> SUFFICES ASSUME TypeInv, StopInv, [Next]_vars,
                        ~Waits, run'.pc = "call", askedAt # Never
                 PROVE  Len(run.left) = askedAt
      OBVIOUS
    <2>0. run \in RunSet(now) /\ (UNCHANGED now => (BreakOff => run'.pc \in {"ok", "failed"}))
      BY BreakOffType DEF TypeInv, RunType
    <2>1. run.pc # "call"
      BY DEF Waits
    <2>2. Begin
      BY <2>0, <2>1
         DEF Next, Work, Start, Idle, Check, Pick, Answers, Answer, AnswerFull, AnswerFails, Crash,
             Retry, Ping, List, StopCaller, StopCall, Tick, Waits, RunSet, vars
    <2> QED BY <2>2 DEF Begin, StopInv, Working
  <1> QED BY <1>1, InvHolds, PTL DEF NoPartitionAfterStop, Spec

\* The process of a call that wakes in time finds its row in the table until its time is
\* over, a stop set there ends it at its next look, and a collection that was told to
\* stop calls for nothing more (src/app/answer.py, _watching_for_stop;
\* src/app/ai_inflight.py, _stale).
THEOREM StopReachesCall ==
    ASSUME GatheringAssumption, Timely
    PROVE  Spec => StopReachesTheCall
  <1>1. Init => CallInv
    BY InitInv
  <1>2. TypeInv /\ CallInv /\ [Next]_vars => CallInv'
    BY NextCall
  <1>3. TypeInv /\ CallInv => LiveCallIsListed /\ StopEndsTheCall
    <2> SUFFICES ASSUME TypeInv, CallInv, Waits, NEW r \in Own, r.stop # 0
                 PROVE  now <= r.stop + STOP_POLL
      BY DEF CallInv, LiveCallIsListed, StopEndsTheCall
    <2>1. call.pinged \in Nat /\ r.stop \in Nat /\ now \in Nat
      BY ClockIsNat DEF TypeInv, RunType, CallSet, RowsType, RowSet, Own
    <2>2. call.pinged <= r.stop /\ now <= call.pinged + STOP_POLL
      BY DEF CallInv
    <2> QED BY <2>1, <2>2, ConstantsAreNat
  <1>4. Spec => [](LiveCallIsListed /\ StopEndsTheCall)
    BY <1>1, <1>2, <1>3, InvHolds, PTL DEF Spec
  <1>5. Spec => NoPartitionAfterStop
    BY StopsBeforeNext
  <1> QED BY <1>4, <1>5, PTL DEF StopReachesTheCall

================================================================================
