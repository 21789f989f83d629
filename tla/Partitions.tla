------------------------------ MODULE Partitions ------------------------------
(***************************************************************************)
(* The partitions a collection is looked through by (app/partition.py,     *)
(* by = "title", without a source of its own): how the ledger is cut, how  *)
(* a partition that has grown is split, small neighbours are merged and a  *)
(* ledger cut anew takes over the marks of the one before                  *)
(* (collect.plan_partitions, repartition), while runs of an AI look at     *)
(* partitions and rosters bring documents nobody has looked at.            *)
(*                                                                         *)
(* A title is its place in the order of titles; a key is the pair of the   *)
(* first and the last title it was cut from.  Times are numbers of runs.   *)
(***************************************************************************)
EXTENDS Integers, Sequences, FiniteSets, FiniteSetsExt

CONSTANTS
    N,          \* titles 1..N
    Sweeps,
    TARGET,     \* how many documents a partition is meant to hold
    MAX_RUNS,
    MAX_NEW,    \* bound: documents one run adds
    ANYTIME,    \* FALSE: cut anew only while every key still says what its
                \* partition holds
    EARLY       \* FALSE: no title comes before the first key of a ledger

PartitionsAssumption ==
    /\ N \in Nat \ {0} /\ TARGET \in Nat \ {0}
    /\ MAX_RUNS \in Nat /\ MAX_NEW \in Nat /\ ANYTIME \in BOOLEAN /\ EARLY \in BOOLEAN

VARIABLES
    docs,       \* docs[t]: "none", "new" (marked unreviewed), "seen" or "gone"
    ledger,     \* the partitions: [lo, hi, count, visits]
    looked,     \* looked[s][t]: when sweep s last saw t, 0 if never (a history)
    now

vars == <<docs, ledger, looked, now>>

Headings == 1..N
Unvisited == [s \in Sweeps |-> 0]
Partition(lo, hi, count, visits) == [lo |-> lo, hi |-> hi, count |-> count, visits |-> visits]
Living(ds) == {t \in Headings : ds[t] \in {"new", "seen"}}

Init ==
    /\ docs = [t \in Headings |-> "none"]
    /\ ledger = <<>>
    /\ looked = [s \in Sweeps |-> [t \in Headings |-> 0]]
    /\ now = 0

--------------------------------------------------------------------------------
(* The order of the keys, by their beginnings: the first child of a split  *)
(* may begin where its sister does (_split_titles).                        *)
Precedes(p, q) == p.lo < q.lo \/ (p.lo = q.lo /\ p.hi < q.hi)
Earliest(parts, at) == CHOOSE i \in at : \A j \in at : ~Precedes(parts[j], parts[i])
Latest(parts, at) == CHOOSE i \in at : \A j \in at : ~Precedes(parts[i], parts[j])

(* _title_locator: the last partition that begins at the title or before   *)
(* it, the first one for what comes before them all; 0 if there is none.   *)
LocatedAt(parts, t) ==
    LET begun == {i \in DOMAIN parts : parts[i].lo <= t}
    IN  IF parts = <<>> THEN 0
        ELSE IF begun = {} THEN Earliest(parts, DOMAIN parts)
        ELSE Latest(parts, begun)

Located(parts) == [t \in Headings |-> LocatedAt(parts, t)]

Members(at, i, titles) == {t \in titles : at[t] = i}

\* Mutant: by the key as it was cut.
NarrowedByKey(parts, i, t) == parts[i].lo <= t /\ t <= parts[i].hi

(* _title_narrowing: what the query for a partition leaves through, cut at *)
(* the beginning of the next one.                                          *)
Narrowed(parts, i, t) ==
    LET after == {j \in DOMAIN parts : Precedes(parts[i], parts[j])}
    IN  /\ (\E j \in DOMAIN parts : Precedes(parts[j], parts[i])) => t >= parts[i].lo
        /\ after # {} => t < parts[Earliest(parts, after)].lo

\* counts_of and counted: nothing alive, nothing counted
Counted(parts, titles) ==
    LET at == Located(parts)
    IN  IF titles = {} THEN parts
        ELSE [i \in DOMAIN parts |->
                 [parts[i] EXCEPT !.count = Cardinality(Members(at, i, titles))]]

\* How many come before t; the title that c come before.
Rank(t, titles) == Cardinality({u \in titles : u < t})
Ranked(c, titles) == CHOOSE t \in titles : Rank(t, titles) = c

\* _titles: every TARGET-th title begins one, which holds the titles up to the next
Chunks(titles) ==
    LET starts == {t \in titles : Rank(t, titles) % TARGET = 0}
        held(t) == {u \in titles : t <= u /\ \A v \in starts : t < v => u < v}
        chunk(t) == Partition(t, Max(held(t)), Cardinality(held(t)), Unvisited)
    IN  [c \in 1..Cardinality(starts) |-> chunk(Ranked(c - 1, starts))]

(* _split_titles: the first child begins where the parent did, the last    *)
(* one ends where it did.  Every child has the marks of the parent.        *)
Children(p, titles) ==
    LET cut == Chunks(titles)
    IN  IF Cardinality(titles) <= TARGET THEN <<p>>
        ELSE [c \in DOMAIN cut |->
                 [cut[c] EXCEPT !.lo = IF c = 1 THEN p.lo ELSE @,
                                !.hi = IF c = Len(cut) THEN p.hi ELSE @,
                                !.visits = p.visits]]

\* split_outgrown
SplitOutgrown(parts, titles) ==
    LET at == Located(parts)
        of(i) == IF parts[i].count > 2 * TARGET THEN Children(parts[i], Members(at, i, titles))
                 ELSE <<parts[i]>>
        upTo[i \in 0..Len(parts)] == IF i = 0 THEN <<>> ELSE upTo[i - 1] \o of(i)
    IN  upTo[Len(parts)]

\* same_sweeps
SameSweeps(p, q) == \A s \in Sweeps : (p.visits[s] = 0) <=> (q.visits[s] = 0)

Older(a, b) == IF a < b THEN a ELSE b

\* merged, _joined: neighbours that together are under 0.8 of TARGET
Joins(p, q) ==
    /\ SameSweeps(p, q)
    /\ 5 * (p.count + q.count) < 4 * TARGET
    /\ p.lo <= q.lo /\ p.hi <= q.hi

Join(p, q) ==
    Partition(p.lo, q.hi, p.count + q.count,
              [s \in Sweeps |-> Older(p.visits[s], q.visits[s])])

MergedWith(out, p) ==
    LET n == Len(out)
    IN  IF out # <<>> /\ Joins(out[n], p) THEN [out EXCEPT ![n] = Join(@, p)]
        ELSE Append(out, p)

Merged(parts) ==
    LET upTo[i \in 0..Len(parts)] == IF i = 0 THEN <<>> ELSE MergedWith(upTo[i - 1], parts[i])
    IN  upTo[Len(parts)]

--------------------------------------------------------------------------------
\* _overlaps, _within: the ranges of two keys meet, or one lies in the other
\* (which says something else when the range of a key is empty)
Within(p, q) == p.lo <= q.lo /\ q.hi <= p.hi

Overlaps(p, q) == Within(p, q) \/ Within(q, p) \/ (p.lo <= q.hi /\ q.lo <= p.hi)

\* Mutant: a mark that one of them has.
InheritedOfAny(over) ==
    [s \in Sweeps |-> IF over = {} THEN 0 ELSE Max({p.visits[s] : p \in over})]

(* _inherited: a mark that every partition of before that meets the new    *)
(* one has, at the oldest of their times.                                  *)
InheritedOf(over) ==
    [s \in Sweeps |->
        IF over = {} \/ \E p \in over : p.visits[s] = 0 THEN 0
        ELSE Min({p.visits[s] : p \in over})]


\* refresh, with _uncovered: nothing served means everything is kept
Refreshed(built, before) ==
    LET olds == {before[i] : i \in DOMAIN before}
        same(b) == {p \in olds : p.lo = b.lo /\ p.hi = b.hi}
        over(b) == IF same(b) # {} THEN same(b) ELSE {p \in olds : Overlaps(p, b)}
    IN  IF built = <<>> THEN [i \in DOMAIN before |-> [before[i] EXCEPT !.count = 0]]
        ELSE [i \in DOMAIN built |-> [built[i] EXCEPT !.visits = InheritedOf(over(built[i]))]]

(* carried_by_docs: marks that every document in the new partition had     *)
(* in the partition it was in before.                                      *)
Carried(parts, before, ds) ==
    LET of == Located(before)
        at == Located(parts)
        was(t) == before[of[t]].visits
        carries(i, s) ==
            LET here == Members(at, i, Living(ds))
            IN  /\ here # {}
                /\ \A t \in here : ds[t] # "new" /\ was(t)[s] # 0
        oldest(i, s) == Min({was(t)[s] : t \in Members(at, i, Living(ds))})
    IN  IF before = <<>> THEN parts
        ELSE [i \in DOMAIN parts |-> [parts[i] EXCEPT !.visits =
                 [s \in Sweeps |-> IF @[s] = 0 /\ carries(i, s) THEN oldest(i, s) ELSE @[s]]]]

\* _after_roster, cleared_where_unseen
ClearedWhereUnseen(parts, ds) ==
    LET unseen == {LocatedAt(parts, t) : t \in {u \in Living(ds) : ds[u] = "new"}}
    IN  [i \in DOMAIN parts |->
            IF i \in unseen THEN [parts[i] EXCEPT !.visits = Unvisited] ELSE parts[i]]

\* plan_partitions
CutAnew(before, ds) ==
    Merged(Carried(Refreshed(Chunks(Living(ds)), before), before, ds))

Planned(before, ds) ==
    IF before = <<>> THEN CutAnew(before, ds)
    ELSE Merged(SplitOutgrown(Counted(before, Living(ds)), Living(ds)))

--------------------------------------------------------------------------------
(* The documents a run brings are new ones, at most MAX_NEW.               *)
Fresh == {{}} \cup UNION {kSubset(k, {t \in Headings : docs[t] = "none"}) : k \in 1..MAX_NEW}

(* What comes before the first key goes to the first partition.  When that *)
(* is split, its first child keeps the beginning of the key, the next one  *)
(* may begin before it (_split_titles), and the list is in the order of    *)
(* the keys no more: merged, which goes by the list, then joins two keys   *)
(* that have a third one between them, whose mark their documents get.     *)
(* Without EARLY such titles are left out.                                 *)
NotBefore(parts, added) ==
    ~EARLY /\ parts # <<>> => \A t \in added : \E i \in DOMAIN parts : parts[i].lo <= t

\* record_result: the mark of the partition that was looked at
Visited(p, s, at) == [p EXCEPT !.visits[s] = at]

(* _collect_material for a run of an AI: it looks at the partition i of    *)
(* the ledger it plans, adds documents and removes some it was shown.      *)
(* Without a ledger it looks at everything there is.                       *)
AiRun(parts, s, i, added, removed) ==
    LET shown == IF parts = <<>> THEN Living(docs)
                 ELSE Members(Located(parts), i, Living(docs))
        next == [t \in Headings |->
                    IF t \in removed THEN "gone"
                    ELSE IF t \in added \cup shown THEN "seen" ELSE docs[t]]
    IN  /\ now < MAX_RUNS
        /\ IF parts = <<>> THEN i = 0 ELSE i \in DOMAIN parts
        /\ NotBefore(parts, added)
        /\ removed \subseteq shown
        /\ now' = now + 1
        /\ docs' = next
        /\ looked' = [r \in Sweeps |-> [t \in Headings |->
                          IF t \in added \/ (r = s /\ t \in shown) THEN now' ELSE looked[r][t]]]
        /\ ledger' = Counted([k \in DOMAIN parts |->
                                 IF k = i THEN Visited(parts[k], s, now') ELSE parts[k]],
                             Living(next))

(* ... and for a machine that makes the roster anew: the ledger is planned *)
(* a second time, for what is about to be baked (plan_partitions_next).    *)
RosterRun(added) ==
    LET next == [t \in Headings |-> IF t \in added THEN "new" ELSE docs[t]]
    IN  /\ now < MAX_RUNS
        /\ NotBefore(Planned(ledger, docs), added)
        /\ now' = now + 1
        /\ docs' = next
        /\ ledger' = ClearedWhereUnseen(Planned(Planned(ledger, docs), next), next)
        /\ UNCHANGED looked

(* Every document lies in the range of its partition's key.  A title that  *)
(* came before the first key or after the last one lies outside, and the   *)
(* last child of a split keeps the parent's end, so the range of its key   *)
(* may be empty.                                                           *)
KeysCover ==
    \A t \in Living(docs) : LET p == ledger[LocatedAt(ledger, t)] IN p.lo <= t /\ t <= p.hi

\* repartition: asked for on the screen
Repartition ==
    /\ now < MAX_RUNS
    /\ ledger # <<>> => ANYTIME \/ KeysCover
    /\ now' = now + 1
    /\ ledger' = CutAnew(ledger, docs)
    /\ UNCHANGED <<docs, looked>>

Next ==
    \/ \E parts \in {Planned(ledger, docs)}, s \in Sweeps, added \in Fresh :
          \E i \in 0..Len(parts), removed \in {{}} \cup {{t} : t \in Living(docs)} :
              AiRun(parts, s, i, added, removed)
    \/ \E added \in Fresh : RosterRun(added)
    \/ Repartition

Spec == Init /\ [][Next]_vars

--------------------------------------------------------------------------------
\* The ends of a partition are titles; a mark is dated no later than the last run.
TypeOK ==
    /\ docs \in [Headings -> {"none", "new", "seen", "gone"}]
    /\ \A i \in DOMAIN ledger :
          /\ ledger[i].lo \in Headings /\ ledger[i].hi \in Headings
          /\ ledger[i].visits \in [Sweeps -> 0..now]
    /\ now \in 0..MAX_RUNS

(* Every title has a partition, whatever was split, merged and cut anew:   *)
(* keys stay apart, and the query that narrows to a partition leaves out   *)
(* nothing the locator puts there.                                         *)
OnePartitionEach ==
    /\ \A i, j \in DOMAIN ledger :
          i # j => Precedes(ledger[i], ledger[j]) \/ Precedes(ledger[j], ledger[i])
    /\ \A t \in Headings : ledger # <<>> => Narrowed(ledger, LocatedAt(ledger, t), t)

(* A partition is marked by a sweep only if that sweep (or the AI that     *)
(* added it) has looked at each of its documents, at the time of the mark  *)
(* or later: what was never looked at does not hide behind a mark.         *)
MarkIsEarned ==
    \A i \in DOMAIN ledger, s \in Sweeps :
        ledger[i].visits[s] # 0 =>
            \A t \in Members(Located(ledger), i, Living(docs)) : looked[s][t] >= ledger[i].visits[s]

(* What a roster brought and nobody looked at since stands in a partition  *)
(* without a mark, where the next round comes to it (_inherited: a mark    *)
(* passes on only what every partition before it had been seen).           *)
UnseenIsUnmarked ==
    \A i \in DOMAIN ledger :
        (\E t \in Members(Located(ledger), i, Living(docs)) : docs[t] = "new")
            => ledger[i].visits = Unvisited

================================================================================
