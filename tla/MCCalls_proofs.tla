----------------------------- MODULE MCCalls_proofs ----------------------------
(***************************************************************************)
(* The proofs of Bridge and Media, and what they and Gathering's say of    *)
(* the three machines that MCCalls runs side by side: each takes only      *)
(* steps of its own module or none, so what is proved there holds here.    *)
(*                                                                         *)
(* Bridge, for any requests, credentials and refreshes: a process of the   *)
(* CLI belongs to the request that has the slot, unless it was left alone  *)
(* when its request was over; where nothing is left alone, no two          *)
(* processes run, no token is used twice and no picture is mixed up.       *)
(* Media, for any jobs and workers: a worker sends a bridged backend one   *)
(* call at a time, a job whose task lives is not closed as abandoned, and  *)
(* what was made stands in the job's row.                                  *)
(***************************************************************************)
EXTENDS MCCalls, SequencesExt, FiniteSetTheorems, SequenceTheorems, TLAPS

-----------------------------------------------------------------------------
\* Sequences without repetitions: what joining, coming to one's turn and leaving do.

LEMMA Joined ==
    ASSUME NEW S, NEW s \in Seq(S), IsInjective(s), NEW e \in S, e \notin ToSet(s)
    PROVE  /\ Append(s, e) \in Seq(S) /\ IsInjective(Append(s, e))
           /\ Len(Append(s, e)) = Len(s) + 1
           /\ ToSet(Append(s, e)) = ToSet(s) \cup {e}
           /\ \A k \in ToSet(s) : Head(s) = k => Head(Append(s, e)) = k
  <1> DEFINE t == Append(s, e)
  <1>1. /\ t \in Seq(S) /\ Len(t) = Len(s) + 1 /\ DOMAIN t = 1..Len(s) + 1
        /\ \A i \in 1..Len(s) : t[i] = s[i]
        /\ t[Len(s) + 1] = e /\ Len(s) \in Nat /\ DOMAIN s = 1..Len(s)
    BY AppendProperties
  <1> HIDE DEF t
  <1>2. IsInjective(t)
    BY <1>1 DEF IsInjective, ToSet
  <1>3. ToSet(t) = ToSet(s) \cup {e}
    BY <1>1 DEF ToSet
  <1>4. \A k \in ToSet(s) : Head(s) = k => Head(t) = k
    <2>1. ToSet(s) # {} => 1 \in 1..Len(s)
      BY <1>1 DEF ToSet
    <2>2. Head(s) = s[1] /\ Head(t) = t[1]
      OBVIOUS
    <2> QED BY <2>1, <2>2, <1>1
  <1> QED BY <1>1, <1>2, <1>3, <1>4 DEF t

LEMMA ComeToTurn ==
    ASSUME NEW S, NEW s \in Seq(S), IsInjective(s), s # <<>>
    PROVE  /\ Tail(s) \in Seq(S) /\ IsInjective(Tail(s))
           /\ Len(Tail(s)) = Len(s) - 1
           /\ ToSet(Tail(s)) = ToSet(s) \ {Head(s)} /\ Head(s) \in ToSet(s)
  <1> DEFINE t == Tail(s)
  <1>1. /\ t \in Seq(S) /\ Len(t) = Len(s) - 1 /\ DOMAIN t = 1..Len(s) - 1
        /\ \A i \in 1..Len(s) - 1 : t[i] = s[i + 1]
        /\ Len(s) \in Nat \ {0} /\ DOMAIN s = 1..Len(s) /\ Head(s) = s[1]
    BY HeadTailProperties
  <1> HIDE DEF t
  <1>2. IsInjective(t)
    <2> SUFFICES ASSUME NEW i \in 1..Len(s) - 1, NEW j \in 1..Len(s) - 1, t[i] = t[j]
                 PROVE  i = j
      BY <1>1 DEF IsInjective
    <2>1. s[i + 1] = s[j + 1] /\ i + 1 \in 1..Len(s) /\ j + 1 \in 1..Len(s)
      BY <1>1
    <2>2. i + 1 = j + 1
      BY <2>1, <1>1 DEF IsInjective
    <2> QED BY <2>2
  <1>3. ToSet(t) \subseteq ToSet(s) \ {s[1]}
    BY SMTT(30), <1>1 DEF ToSet, IsInjective
  <1>4. ASSUME NEW i \in 1..Len(s), s[i] # s[1]
        PROVE  s[i] \in ToSet(t)
    <2>1. i - 1 \in 1..Len(s) - 1 /\ t[i - 1] = s[i]
      BY <1>1, <1>4
    <2> QED BY <2>1, <1>1 DEF ToSet
  <1>5. s[1] \in ToSet(s)
    BY <1>1 DEF ToSet
  <1>6. ToSet(s) \ {s[1]} \subseteq ToSet(t)
    BY <1>1, <1>4 DEF ToSet
  <1> QED BY <1>1, <1>2, <1>3, <1>5, <1>6 DEF t

LEMMA GoneFromLine ==
    ASSUME NEW S, NEW s \in Seq(S), IsInjective(s), NEW i \in 1..Len(s)
    PROVE  /\ RemoveAt(s, i) \in Seq(S) /\ IsInjective(RemoveAt(s, i))
           /\ Len(RemoveAt(s, i)) = Len(s) - 1
           /\ ToSet(RemoveAt(s, i)) = ToSet(s) \ {s[i]} /\ s[i] \in ToSet(s)
           /\ i # 1 => Head(RemoveAt(s, i)) = Head(s)
  <1> DEFINE n == Len(s)
             t == RemoveAt(s, i)
             a == SubSeq(s, 1, i - 1)
             b == SubSeq(s, i + 1, n)
  <1>1. n \in Nat /\ DOMAIN s = 1..n /\ (\A j \in 1..n : s[j] \in S) /\ i \in 1..n
    BY ElementOfSeq
  <1>2. t = a \o b
    BY DEF RemoveAt
  <1>3. a \in Seq(S) /\ Len(a) = i - 1 /\ \A j \in 1..i - 1 : a[j] = s[j]
    <2>1. \A j \in 1..i - 1 : s[j] \in S
      BY <1>1
    <2>2. /\ SubSeq(s, 1, i - 1) \in Seq(S)
          /\ Len(SubSeq(s, 1, i - 1)) = (IF 1 <= i - 1 THEN i - 1 - 1 + 1 ELSE 0)
          /\ \A j \in 1..i - 1 - 1 + 1 : SubSeq(s, 1, i - 1)[j] = s[1 + j - 1]
      BY <1>1, <2>1, SubSeqProperties
    <2> QED BY <2>2, <1>1
  <1>4. b \in Seq(S) /\ Len(b) = n - i /\ \A j \in 1..n - i : b[j] = s[i + j]
    <2>1. \A j \in i + 1..n : s[j] \in S
      BY <1>1
    <2>2. /\ SubSeq(s, i + 1, n) \in Seq(S)
          /\ Len(SubSeq(s, i + 1, n)) = (IF i + 1 <= n THEN n - (i + 1) + 1 ELSE 0)
          /\ \A j \in 1..n - (i + 1) + 1 : SubSeq(s, i + 1, n)[j] = s[i + 1 + j - 1]
      BY <1>1, <2>1, SubSeqProperties
    <2>3. ASSUME NEW j \in 1..n - i
          PROVE  j \in 1..n - (i + 1) + 1 /\ i + 1 + j - 1 = i + j
      BY <1>1
    <2>4. Len(b) = n - i
      <3>1. CASE i = n
        BY <2>2, <3>1, <1>1
      <3>2. CASE i < n
        <4>1. i + 1 <= n /\ n - (i + 1) + 1 = n - i
          BY <3>2, <1>1
        <4> QED BY <2>2, <4>1
      <3>3. i = n \/ i < n
        <4>1. n \in Nat /\ i \in 1..n
          BY <1>1
        <4> HIDE DEF n
        <4> QED BY <4>1
      <3> QED BY <3>1, <3>2, <3>3
    <2>5. \A j \in 1..n - i : b[j] = s[i + j]
      BY <2>2, <2>3
    <2> QED BY <2>2, <2>4, <2>5
  <1> HIDE DEF t, a, b, n
  <1>5. /\ t \in Seq(S) /\ Len(t) = n - 1 /\ DOMAIN t = 1..n - 1
        /\ \A j \in 1..n - 1 : t[j] = IF j < i THEN s[j] ELSE s[j + 1]
    <2>1. /\ t \in Seq(S) /\ Len(t) = Len(a) + Len(b)
          /\ \A j \in 1..Len(a) + Len(b) : t[j] = IF j <= Len(a) THEN a[j] ELSE b[j - Len(a)]
      BY <1>2, <1>3, <1>4, ConcatProperties
    <2>2. Len(t) = n - 1 /\ DOMAIN t = 1..n - 1
      BY <2>1, <1>1, <1>3, <1>4
    <2>3. ASSUME NEW j \in 1..n - 1
          PROVE  t[j] = IF j < i THEN s[j] ELSE s[j + 1]
      <3>1. CASE j < i
        BY <3>1, <2>1, <2>2, <1>1, <1>3
      <3>2. CASE ~(j < i)
        <4>1. j - (i - 1) \in 1..n - i /\ i + (j - (i - 1)) = j + 1
          BY <3>2, <1>1
        <4>2. t[j] = b[j - (i - 1)]
          BY SMTT(30), <3>2, <2>1, <2>2, <1>1, <1>3, <1>4
        <4> QED BY <4>1, <4>2, <3>2, <1>4
      <3> QED BY <3>1, <3>2
    <2> QED BY <2>1, <2>2, <2>3
  <1> DEFINE skip(j) == IF j < i THEN j ELSE j + 1
  <1>6. /\ \A j \in 1..n - 1 : skip(j) \in 1..n /\ skip(j) # i /\ t[j] = s[skip(j)]
        /\ \A j, k \in 1..n - 1 : skip(j) = skip(k) => j = k
        /\ \A k \in 1..n : k # i => \E j \in 1..n - 1 : skip(j) = k
    <2>1. \A j \in 1..n - 1 : skip(j) \in 1..n /\ skip(j) # i /\ t[j] = s[skip(j)]
      BY <1>1, <1>5
    <2>2. \A j, k \in 1..n - 1 : skip(j) = skip(k) => j = k
      BY <1>1
    <2>3. ASSUME NEW k \in 1..n, k # i
          PROVE  \E j \in 1..n - 1 : skip(j) = k
      <3>1. CASE k < i
        <4>1. k \in 1..n - 1 /\ skip(k) = k
          BY <3>1, <1>1
        <4> QED BY <4>1
      <3>2. CASE k > i
        <4>1. k - 1 \in 1..n - 1 /\ skip(k - 1) = k
          BY <3>2, <1>1
        <4> QED BY <4>1
      <3> QED BY <3>1, <3>2, <2>3, <1>1
    <2> QED BY <2>1, <2>2, <2>3
  <1> HIDE DEF skip
  <1>7. \A j, k \in 1..n : s[j] = s[k] => j = k
    BY <1>1 DEF IsInjective
  <1>8. IsInjective(t)
    BY SMTT(30), <1>5, <1>6, <1>7 DEF IsInjective
  <1>9. ToSet(t) = {t[j] : j \in 1..n - 1} /\ ToSet(s) = {s[j] : j \in 1..n}
    BY <1>1, <1>5 DEF ToSet
  <1>10. ToSet(t) = ToSet(s) \ {s[i]}
    BY SMTT(30), <1>1, <1>6, <1>7, <1>9
  <1>11. i # 1 => Head(t) = Head(s)
    <2>1. i # 1 => 1 \in 1..n - 1 /\ t[1] = s[1]
      BY <1>1, <1>5
    <2>2. Head(s) = s[1] /\ Head(t) = t[1]
      OBVIOUS
    <2> QED BY <2>1, <2>2
  <1> QED BY <1>1, <1>5, <1>8, <1>9, <1>10, <1>11 DEF t, n

LEMMA AtMostOne ==
    ASSUME NEW S, \A a, b \in S : a = b
    PROVE  IsFiniteSet(S) /\ Cardinality(S) \in Nat /\ Cardinality(S) <= 1
  <1>1. CASE S = {}
    BY <1>1, FS_EmptySet
  <1>2. CASE S # {}
    <2>1. PICK x : S = {x}
      BY <1>2
    <2> QED BY <2>1, FS_Singleton
  <1> QED BY <1>1, <1>2

\* The words of the community modules mean the same in every instance.
LEMMA BridgeWords ==
    /\ \A s : B!ToSet(s) = ToSet(s) /\ B!IsInjective(s) = IsInjective(s)
    /\ \A s, i : B!RemoveAt(s, i) = RemoveAt(s, i)
    /\ \A S : B!Cardinality(S) = Cardinality(S)
  BY DEF B!ToSet, ToSet, B!IsInjective, IsInjective, B!RemoveAt, RemoveAt,
         B!Cardinality, Cardinality

LEMMA MediaWords ==
    /\ \A s : M!ToSet(s) = ToSet(s) /\ M!IsInjective(s) = IsInjective(s)
    /\ \A s, i : M!RemoveAt(s, i) = RemoveAt(s, i)
    /\ \A S : M!Cardinality(S) = Cardinality(S)
  BY DEF M!ToSet, ToSet, M!IsInjective, IsInjective, M!RemoveAt, RemoveAt,
         M!Cardinality, Cardinality

-----------------------------------------------------------------------------
\* The bridge: its line and who is counted there.

LEMMA BridgeJoined ==
    ASSUME NEW S, NEW s \in Seq(S), B!IsInjective(s), NEW e \in S, e \notin B!ToSet(s)
    PROVE  /\ Append(s, e) \in Seq(S) /\ B!IsInjective(Append(s, e))
           /\ Len(Append(s, e)) = Len(s) + 1
           /\ B!ToSet(Append(s, e)) = B!ToSet(s) \cup {e}
  BY Joined, BridgeWords

LEMMA BridgeTurn ==
    ASSUME NEW S, NEW s \in Seq(S), B!IsInjective(s), s # <<>>
    PROVE  /\ Tail(s) \in Seq(S) /\ B!IsInjective(Tail(s))
           /\ Len(Tail(s)) = Len(s) - 1
           /\ B!ToSet(Tail(s)) = B!ToSet(s) \ {Head(s)} /\ Head(s) \in B!ToSet(s)
  BY ComeToTurn, BridgeWords

LEMMA BridgeGone ==
    ASSUME NEW S, NEW s \in Seq(S), B!IsInjective(s), NEW i \in 1..Len(s)
    PROVE  /\ B!RemoveAt(s, i) \in Seq(S) /\ B!IsInjective(B!RemoveAt(s, i))
           /\ Len(B!RemoveAt(s, i)) = Len(s) - 1
           /\ B!ToSet(B!RemoveAt(s, i)) = B!ToSet(s) \ {s[i]} /\ s[i] \in B!ToSet(s)
  BY GoneFromLine, BridgeWords

LEMMA BridgeCounts == B!Cardinality({}) = 0 /\ \A x : B!Cardinality({x}) = 1
  BY FS_EmptySet, FS_Singleton, BridgeWords

LEMMA BridgeOne ==
    ASSUME NEW S, \A a, b \in S : a = b
    PROVE  B!Cardinality(S) <= 1
  BY AtMostOne, BridgeWords

\* Who has the slot, and whose each process is.
SlotInv ==
    /\ B!TypeOK
    /\ B!WaitingIsCounted
    /\ \A a, b \in holder : a = b
    /\ \A r \in Requests : phase[r] # "new" => kind[r] \in Kinds
    /\ \A p \in procs :
          \/ phase[p.of] = "runs"
          \/ phase[p.of] = "over" /\ kind[p.of] \in B!LeftAlone
    /\ \A p, q \in procs : p.of = q.of => p = q

\* What is laid down for the CLI: the file stands as soon as something was asked.
FileInv ==
    /\ file = B!NoFile <=> seed = 0
    /\ \A r \in Requests : phase[r] # "new" => file # B!NoFile

\* Where nothing is left alone: every token that is somewhere is the valid one, and a
\* credential that was not laid down yet was never refreshed.
KeysInv ==
    /\ revoked = {}
    /\ \A p \in procs : p.token.token = current[p.token.of] /\ p.token.of <= seed
    /\ file # B!NoFile => file.token = current[file.of] /\ file.of <= seed
    /\ \A c \in B!Credentials : c > seed => current[c] = 0

\* A picture that was not there before the run is the run's own.
PicturesInv ==
    /\ B!PictureIsOwn
    /\ \A r \in Requests : phase[r] = "runs" => shared \subseteq seen[r] \cup {r}

AloneInv == KeysInv /\ PicturesInv

-----------------------------------------------------------------------------
\* The slot.

LEMMA InitSlot ==
    ASSUME B!BridgeAssumption, B!Init
    PROVE  SlotInv /\ FileInv
  <1> USE DEF B!Init
  <1>1. B!IsInjective(line) /\ B!ToSet(line) = {} /\ line \in Seq(Requests) /\ Len(line) = 0
    BY DEF B!IsInjective, B!ToSet
  <1>2. B!Cardinality(holder) <= 1
    BY BridgeCounts
  <1>3. B!TypeOK
    <2>1. stored \in B!Credentials /\ seed \in 0..stored
      BY DEF B!BridgeAssumption, B!Credentials
    <2>2. phase \in [Requests -> {"new", "waits", "runs", "over"}] /\ kind \in [Requests -> B!AllKinds]
      BY DEF B!AllKinds
    <2>3. current \in [B!Credentials -> 0..MAX_TOKEN] /\ restarts \in 0..MAX_RESTARTS
      BY DEF B!BridgeAssumption
    <2> QED BY <1>1, <1>2, <2>1, <2>2, <2>3 DEF B!TypeOK
  <1>4. B!WaitingIsCounted
    BY <1>1 DEF B!WaitingIsCounted
  <1> QED BY <1>3, <1>4 DEF SlotInv, FileInv

\* Whoever waits and gives up leaves the line and is counted off.
LEMMA LeavesTheLine ==
    ASSUME B!TypeOK, B!WaitingIsCounted, NEW r \in Requests, phase[r] = "waits", B!NotInLine(r)
    PROVE  /\ line' \in Seq(Requests) /\ B!IsInjective(line')
           /\ waiting' \in Nat /\ waiting' = Len(line')
           /\ B!ToSet(line') = B!ToSet(line) \ {r}
  <1>1. r \in B!ToSet(line)
    BY DEF B!WaitingIsCounted
  <1>2. line \in Seq(Requests) /\ B!IsInjective(line) /\ waiting = Len(line)
    BY DEF B!TypeOK, B!WaitingIsCounted
  <1>3. \E i \in 1..Len(line) : line[i] = r
    BY <1>1, <1>2 DEF B!ToSet
  <1>4. B!PlaceOf(r) \in 1..Len(line) /\ line[B!PlaceOf(r)] = r
    BY <1>3 DEF B!PlaceOf
  <1> DEFINE i == B!PlaceOf(r)
  <1> HIDE DEF i
  <1>5. i \in 1..Len(line) /\ line[i] = r /\ line' = B!RemoveAt(line, i) /\ waiting' = waiting - 1
    BY <1>4 DEF B!NotInLine, i
  <1>6. /\ B!RemoveAt(line, i) \in Seq(Requests) /\ B!IsInjective(B!RemoveAt(line, i))
        /\ Len(B!RemoveAt(line, i)) = Len(line) - 1
        /\ B!ToSet(B!RemoveAt(line, i)) = B!ToSet(line) \ {line[i]}
    BY <1>2, <1>5, BridgeGone
  <1>7. Len(line) \in Nat
    BY <1>2
  <1> QED BY <1>2, <1>5, <1>6, <1>7

LEMMA ArriveSlot ==
    ASSUME B!BridgeAssumption, SlotInv, FileInv,
           NEW r \in Requests, NEW k \in Kinds, B!Arrive(r, k)
    PROVE  SlotInv' /\ FileInv'
  <1> USE DEF B!Arrive, SlotInv, B!keys, B!pictures
  <1>1. r \notin B!ToSet(line) /\ line \in Seq(Requests) /\ B!IsInjective(line) /\ Len(line) \in Nat
    BY DEF B!TypeOK, B!WaitingIsCounted
  <1>2. /\ line' \in Seq(Requests) /\ B!IsInjective(line')
        /\ Len(line') = Len(line) + 1
        /\ B!ToSet(line') = B!ToSet(line) \cup {r}
    BY <1>1, BridgeJoined
  <1>3. /\ file' \in B!Tokens /\ file' # B!NoFile /\ seed' = stored
        /\ stored \in Nat \ {0} /\ stored' = stored
    BY DEF B!TypeOK, B!Seeded, B!Tokens, B!NoFile, B!Credentials, B!BridgeAssumption
  <1>4. B!TypeOK'
    BY <1>1, <1>2, <1>3 DEF B!TypeOK, B!WaitingIsCounted, B!BridgeAssumption, B!Credentials
  <1>5. B!WaitingIsCounted'
    BY <1>1, <1>2 DEF B!TypeOK, B!WaitingIsCounted
  <1>6. \A p \in procs : p.of \in Requests /\ p.of # r
    BY DEF B!TypeOK
  <1> QED BY <1>3, <1>4, <1>5, <1>6 DEF B!TypeOK, FileInv

LEMMA EnterSlot ==
    ASSUME B!BridgeAssumption, SlotInv, FileInv, NEW r \in Requests, B!Enter(r)
    PROVE  SlotInv' /\ FileInv'
  <1> USE DEF B!Enter, SlotInv, B!keys, B!SlotFree
  <1>1. /\ Tail(line) \in Seq(Requests) /\ B!IsInjective(Tail(line))
        /\ Len(Tail(line)) = Len(line) - 1 /\ Len(line) \in Nat \ {0}
        /\ B!ToSet(Tail(line)) = B!ToSet(line) \ {r} /\ r \in B!ToSet(line)
    BY BridgeTurn DEF B!TypeOK
  <1>2. phase[r] = "waits" /\ holder = {} /\ \A x \in Requests : phase[x] # "runs"
    BY <1>1 DEF B!WaitingIsCounted
  <1>3. B!Cardinality(holder') <= 1
    <2>1. holder' = {r}
      BY <1>2
    <2>2. B!Cardinality({r}) = 1
      BY BridgeCounts
    <2> QED BY <2>1, <2>2
  <1>4. file \in B!Tokens
    BY <1>2 DEF FileInv, B!TypeOK
  <1>5. B!TypeOK'
    BY <1>1, <1>2, <1>3, <1>4 DEF B!TypeOK, B!WaitingIsCounted, B!BridgeAssumption, B!Credentials
  <1>6. B!WaitingIsCounted'
    BY <1>1, <1>2 DEF B!TypeOK, B!WaitingIsCounted
  <1>7. \A p \in procs : p.of \in Requests /\ p.of # r
    BY <1>2 DEF B!TypeOK
  <1> QED BY <1>2, <1>4, <1>5, <1>6, <1>7 DEF B!TypeOK, FileInv

\* Who gives up, whose caller leaves the line.
LEMMA LeaveLineSlot ==
    ASSUME SlotInv, NEW r \in Requests, phase[r] = "waits", B!NotInLine(r),
           phase' = [phase EXCEPT ![r] = "over"],
           probed' \in BOOLEAN, found' \in BOOLEAN,
           UNCHANGED <<kind, holder, procs, B!keys, B!pictures, restarts>>
    PROVE  SlotInv'
  <1> USE DEF SlotInv, B!keys, B!pictures
  <1>1. /\ line' \in Seq(Requests) /\ B!IsInjective(line')
        /\ waiting' \in Nat /\ waiting' = Len(line')
        /\ B!ToSet(line') = B!ToSet(line) \ {r}
    BY LeavesTheLine
  <1>2. B!TypeOK'
    BY <1>1 DEF B!TypeOK
  <1>3. B!WaitingIsCounted'
    BY <1>1 DEF B!TypeOK, B!WaitingIsCounted
  <1>4. \A p \in procs : p.of \in Requests /\ p.of # r
    BY DEF B!TypeOK
  <1> QED BY <1>2, <1>3, <1>4 DEF B!TypeOK

\* Who had the slot gives it back: some of its processes may stay if its kind is left alone.
LEMMA LeaveSlot ==
    ASSUME SlotInv, NEW r \in Requests, phase[r] = "runs", B!Release(r),
           phase' = [phase EXCEPT ![r] = "over"],
           procs' \subseteq procs,
           kind[r] \in B!LeftAlone \/ B!Processes(r) \cap procs' = {},
           probed' \in BOOLEAN, found' \in BOOLEAN,
           given' \in [Requests -> SUBSET Requests],
           UNCHANGED <<kind, line, waiting, B!keys, shared, seen, restarts>>
    PROVE  SlotInv'
  <1> USE DEF SlotInv, B!keys, B!Release
  <1>1. holder' = {}
    BY DEF B!WaitingIsCounted
  <1>2. B!Cardinality(holder') <= 1
    <2>1. B!Cardinality({}) = 0
      BY BridgeCounts
    <2>2. B!Cardinality(holder') = 0
      BY <1>1, <2>1, Zenon
    <2> QED BY <2>2
  <1>3. B!TypeOK'
    BY <1>1, <1>2 DEF B!TypeOK
  <1>4. B!WaitingIsCounted'
    BY <1>1 DEF B!TypeOK, B!WaitingIsCounted
  <1>5. \A p \in procs' :
           \/ phase'[p.of] = "runs"
           \/ phase'[p.of] = "over" /\ kind'[p.of] \in B!LeftAlone
    BY DEF B!TypeOK, B!Processes
  <1> QED BY <1>1, <1>3, <1>4, <1>5 DEF B!TypeOK

LEMMA NextSlot ==
    ASSUME B!BridgeAssumption, SlotInv, FileInv, [B!Next]_B!vars
    PROVE  SlotInv' /\ FileInv'
  <1> USE DEF B!keys, B!pictures, B!slot
  <1>1. ASSUME NEW r \in Requests, NEW k \in Kinds, B!Arrive(r, k)
        PROVE  SlotInv' /\ FileInv'
    BY <1>1, ArriveSlot
  <1>2. ASSUME NEW r \in Requests, B!Enter(r)
        PROVE  SlotInv' /\ FileInv'
    BY <1>2, EnterSlot
  <1>3. ASSUME NEW r \in Requests, B!GiveUp(r)
        PROVE  SlotInv' /\ FileInv'
    <2>1. SlotInv'
      BY <1>3, LeaveLineSlot DEF B!GiveUp, B!Leave, B!ProbedAfter, SlotInv, B!TypeOK
    <2> QED BY <1>3, <2>1 DEF B!GiveUp, B!Leave, FileInv, SlotInv, B!TypeOK
  <1>4. ASSUME NEW r \in Requests, NEW finds \in BOOLEAN, B!Finish(r, finds)
        PROVE  SlotInv' /\ FileInv'
    <2>1. given' \in [Requests -> SUBSET Requests]
      BY <1>4 DEF B!Finish, B!NewPictures, SlotInv, B!TypeOK
    <2>2. SlotInv'
      BY <1>4, <2>1, LeaveSlot DEF B!Finish, B!Leave, B!ProbedAfter, SlotInv, B!TypeOK
    <2> QED BY <1>4, <2>2 DEF B!Finish, B!Leave, FileInv, SlotInv, B!TypeOK
  <1>5. ASSUME NEW r \in Requests, B!TimeOut(r)
        PROVE  SlotInv' /\ FileInv'
    <2>1. /\ procs' \subseteq procs
          /\ kind[r] \in B!LeftAlone \/ B!Processes(r) \cap procs' = {}
      BY <1>5 DEF B!TimeOut, B!Limited, B!Left, B!Kills, B!LeftAlone, B!Processes
    <2>2. SlotInv'
      BY <1>5, <2>1, LeaveSlot DEF B!TimeOut, B!Leave, B!ProbedAfter, SlotInv, B!TypeOK
    <2> QED BY <1>5, <2>2 DEF B!TimeOut, B!Leave, FileInv, SlotInv, B!TypeOK
  <1>6. ASSUME NEW r \in Requests, B!Drop(r)
        PROVE  SlotInv' /\ FileInv'
    <2>1. CASE phase[r] = "waits"
      BY <1>6, <2>1, LeaveLineSlot DEF B!Drop, FileInv, SlotInv, B!TypeOK
    <2>2. CASE phase[r] = "runs"
      <3>1. /\ procs' \subseteq procs
            /\ kind[r] \in B!LeftAlone \/ B!Processes(r) \cap procs' = {}
        BY <1>6, <2>2 DEF B!Drop, B!KillsDropped, B!LeftAlone, B!Processes
      <3>2. SlotInv'
        BY <1>6, <2>2, <3>1, LeaveSlot DEF B!Drop, SlotInv, B!TypeOK
      <3> QED BY <1>6, <2>2, <3>2 DEF B!Drop, FileInv, SlotInv, B!TypeOK
    <2> QED BY <1>6, <2>1, <2>2 DEF B!Drop
  <1>7. ASSUME NEW p \in procs, B!Refresh(p)
        PROVE  SlotInv' /\ FileInv'
    <2> USE <1>7 DEF SlotInv, B!Refresh
    <2>1. p.of \in Requests /\ p.token.of \in B!Credentials /\ p.token.token \in 0..MAX_TOKEN
      BY DEF B!TypeOK, B!Tokens
    <2>2. CASE p.token.token # current[p.token.of]
      BY ZenonT(30), <2>1, <2>2 DEF B!TypeOK, B!WaitingIsCounted, FileInv
    <2>3. CASE p.token.token = current[p.token.of]
      <3> DEFINE next == [p.token EXCEPT !.token = @ + 1]
                 q == [p EXCEPT !.token.token = @ + 1]
      <3>0. p.token \in B!Tokens /\ current[p.token.of] < MAX_TOKEN /\ MAX_TOKEN \in Nat
        BY <2>3 DEF B!TypeOK, B!BridgeAssumption
      <3>1. next \in B!Tokens /\ next # B!NoFile
        <4>1. next \in B!Tokens
          BY <2>1, <2>3, <3>0 DEF B!Tokens
        <4>2. next.of # 0
          BY <2>1, <3>0 DEF B!Tokens, B!Credentials
        <4> QED BY <4>1, <4>2 DEF B!NoFile
      <3>2. q \in [of : Requests, token : B!Tokens] /\ q.of = p.of
        BY SMTT(30), <2>1, <2>3 DEF B!TypeOK, B!Tokens, B!BridgeAssumption
      <3> HIDE DEF next, q
      <3>3. /\ procs' = (procs \ {p}) \cup {q} /\ file' = next
            /\ current' \in [B!Credentials -> 0..MAX_TOKEN]
        BY <2>1, <2>3 DEF B!TypeOK, B!BridgeAssumption, next, q
      <3>4. UNCHANGED <<phase, kind, line, holder, waiting, probed, found, stored, seed, revoked,
                        shared, seen, given, restarts>>
        BY <2>3
      <3>5. B!TypeOK'
        BY <3>1, <3>2, <3>3, <3>4 DEF B!TypeOK
      <3>6. B!WaitingIsCounted' /\ FileInv'
        BY <3>1, <3>3, <3>4 DEF B!WaitingIsCounted, FileInv, B!TypeOK, B!Tokens, B!NoFile, B!Credentials
      <3>7. \A a, b \in procs' : a.of = b.of => a = b
        BY <3>2, <3>3
      <3> QED BY <3>2, <3>3, <3>4, <3>5, <3>6, <3>7
    <2> QED BY <2>2, <2>3
  <1>8. ASSUME NEW p \in procs, B!Draw(p) \/ B!Exit(p)
        PROVE  SlotInv' /\ FileInv'
    BY ZenonT(30), <1>8 DEF B!Draw, B!Exit, SlotInv, FileInv, B!TypeOK, B!WaitingIsCounted
  <1>9. CASE B!Register
    BY <1>9 DEF B!Register, SlotInv, FileInv, B!TypeOK, B!WaitingIsCounted,
         B!BridgeAssumption, B!Credentials
  <1>10. CASE B!Restart
    <2>1. line' = <<>> /\ B!IsInjective(<<>>) /\ B!ToSet(<<>>) = {} /\ Len(<<>>) = 0
      BY <1>10 DEF B!Restart, B!IsInjective, B!ToSet
    <2>2. B!Cardinality(holder') <= 1
      BY <1>10, BridgeCounts DEF B!Restart
    <2>3. phase' \in [Requests -> {"new", "waits", "runs", "over"}] /\ restarts' \in 0..MAX_RESTARTS
      BY <1>10 DEF B!Restart, SlotInv, B!TypeOK, B!BridgeAssumption
    <2>4. B!TypeOK'
      <3>0. line' \in Seq(Requests) /\ B!IsInjective(line')
        BY <2>1
      <3>1. /\ line' \in Seq(Requests) /\ B!IsInjective(line') /\ waiting' \in Nat
            /\ holder' \subseteq Requests /\ procs' \subseteq [of : Requests, token : B!Tokens]
            /\ probed' \in BOOLEAN /\ found' \in BOOLEAN
        BY <1>10, <3>0 DEF B!Restart
      <3> QED BY <1>10, <2>2, <2>3, <3>1 DEF B!Restart, SlotInv, B!TypeOK
    <2>5. B!WaitingIsCounted'
      BY <1>10, <2>1 DEF B!Restart, B!WaitingIsCounted
    <2> QED BY <1>10, <2>4, <2>5 DEF B!Restart, SlotInv, FileInv, B!TypeOK
  <1>11. CASE UNCHANGED B!vars
    BY <1>11 DEF B!vars, SlotInv, FileInv, B!TypeOK, B!WaitingIsCounted
  <1> QED BY <1>1, <1>2, <1>3, <1>4, <1>5, <1>6, <1>7, <1>8, <1>9, <1>10, <1>11 DEF B!Next, B!Serve

-----------------------------------------------------------------------------
\* Where nothing is left alone.

LEMMA ProcessIsTheHolders ==
    ASSUME SlotInv, NothingLeftAlone
    PROVE  /\ \A p \in procs : p.of \in Requests /\ phase[p.of] = "runs"
           /\ \A p, q \in procs : p = q
           /\ B!OneCliAtATime
  <1>1. \A p \in procs : p.of \in Requests /\ phase[p.of] = "runs"
    BY DEF SlotInv, NothingLeftAlone, B!TypeOK
  <1>2. \A p \in procs : p.of \in holder
    BY <1>1 DEF SlotInv, B!WaitingIsCounted
  <1>3. \A p, q \in procs : p = q
    BY <1>2 DEF SlotInv
  <1>4. B!OneCliAtATime
    BY <1>3, BridgeOne DEF B!OneCliAtATime
  <1> QED BY <1>1, <1>3, <1>4

LEMMA InitAlone ==
    ASSUME B!Init
    PROVE  AloneInv /\ B!ProbeCanBeRepeated
  BY DEF B!Init, AloneInv, KeysInv, PicturesInv, B!PictureIsOwn, B!ProbeCanBeRepeated, B!NoFile

LEMMA NextKeys ==
    ASSUME B!BridgeAssumption, SlotInv, FileInv, NothingLeftAlone, KeysInv, [B!Next]_B!vars
    PROVE  KeysInv'
  <1> USE DEF B!keys, B!pictures, B!slot
  <1>0. /\ \A p, q \in procs : p = q
        /\ \A p \in procs : p.of \in Requests /\ p.token \in B!Tokens
        /\ file \in B!Tokens \cup {B!NoFile} /\ stored \in B!Credentials /\ seed \in 0..stored
        /\ current \in [B!Credentials -> 0..MAX_TOKEN]
    BY ProcessIsTheHolders DEF SlotInv, B!TypeOK
  <1>1. ASSUME UNCHANGED <<file, seed, current, revoked>>, procs' \subseteq procs
        PROVE  KeysInv'
    BY <1>1 DEF KeysInv
  <1>2. ASSUME NEW r \in Requests, NEW k \in Kinds, B!Arrive(r, k)
        PROVE  KeysInv'
    <2>1. seed' = stored /\ current' = current /\ revoked' = revoked /\ procs' = procs
      BY <1>2 DEF B!Arrive
    <2>2. seed <= stored /\ stored \in Nat /\ seed \in Nat
      BY <1>0 DEF B!Credentials, B!BridgeAssumption
    <2>3. CASE file' = file /\ file # B!NoFile
      <3>1. file.of \in Nat
        BY <1>0, <2>3 DEF B!Tokens, B!Credentials
      <3>2. \A p \in procs : p.token.of \in Nat
        BY <1>0 DEF B!Tokens, B!Credentials
      <3>3. \A c \in B!Credentials : c \in Nat
        BY DEF B!Credentials
      <3> QED BY <2>1, <2>2, <2>3, <3>1, <3>2, <3>3 DEF KeysInv
    <2>4. CASE file' = [of |-> stored, token |-> 0] /\ seed < stored
      <3>1. file'.of = stored /\ file'.token = 0 /\ current[stored] = 0
        BY <1>0, <2>4 DEF KeysInv
      <3>2. \A p \in procs : p.token.of \in Nat
        BY <1>0 DEF B!Tokens, B!Credentials
      <3>3. \A c \in B!Credentials : c \in Nat
        BY DEF B!Credentials
      <3> QED BY <2>1, <2>2, <3>1, <3>2, <3>3 DEF KeysInv
    <2>5. \/ file' = file /\ file # B!NoFile
          \/ file' = [of |-> stored, token |-> 0] /\ seed < stored
      <3>1. CASE seed = stored
        <4>1. file # B!NoFile
          BY <3>1, <1>0 DEF FileInv, B!Credentials
        <4> QED BY <3>1, <4>1, <1>2 DEF B!Arrive, B!Seeded
      <3>2. CASE seed # stored
        BY <3>2, <2>2, <1>2 DEF B!Arrive, B!Seeded
      <3> QED BY <3>1, <3>2
    <2> QED BY <2>3, <2>4, <2>5
  <1>3. ASSUME NEW r \in Requests, B!Enter(r)
        PROVE  KeysInv'
    <2>1. r \in B!ToSet(line)
      BY <1>3, BridgeTurn DEF B!Enter, SlotInv, B!TypeOK
    <2>2. file # B!NoFile
      BY <2>1 DEF SlotInv, B!WaitingIsCounted, FileInv
    <2>3. \A p \in procs' : p \in procs \/ p.token = file
      BY <1>3 DEF B!Enter
    <2> QED BY <1>3, <2>2, <2>3 DEF B!Enter, KeysInv
  <1>4. ASSUME NEW p \in procs, B!Refresh(p)
        PROVE  KeysInv'
    <2>1. /\ p.token.token = current[p.token.of] /\ p.token.of <= seed
          /\ p.token \in B!Tokens /\ p.token.of \in B!Credentials /\ procs = {p}
      BY <1>0 DEF KeysInv, B!Tokens
    <2> DEFINE c == p.token.of
               n == current[c] + 1
               q == [p EXCEPT !.token.token = @ + 1]
               next == [p.token EXCEPT !.token = @ + 1]
    <2>2. q.token.of = c /\ q.token.token = n /\ next.of = c /\ next.token = n
      BY <2>1, <1>0 DEF SlotInv, B!TypeOK, B!Tokens
    <2>3. /\ procs' = {q} /\ file' = next /\ current' = [current EXCEPT ![c] = n]
          /\ UNCHANGED <<seed, revoked>>
      BY <1>4, <2>1 DEF B!Refresh
    <2> HIDE DEF q, next
    <2>4. current'[c] = n /\ \A x \in B!Credentials : x > seed => x # c
      BY <1>0, <2>1, <2>3 DEF B!Credentials
    <2>5. \A x \in B!Credentials : x > seed' => current'[x] = 0
      BY <1>0, <2>3, <2>4 DEF KeysInv
    <2>6. file'.token = current'[file'.of] /\ file'.of <= seed'
      BY <2>1, <2>2, <2>3, <2>4
    <2>7. \A x \in procs' : x.token.token = current'[x.token.of] /\ x.token.of <= seed'
      BY <2>1, <2>2, <2>3, <2>4
    <2> QED BY <2>3, <2>5, <2>6, <2>7 DEF KeysInv
  <1>5. ASSUME NEW r \in Requests,
               \/ B!GiveUp(r) \/ B!TimeOut(r) \/ B!Drop(r)
               \/ \E finds \in BOOLEAN : B!Finish(r, finds)
        PROVE  KeysInv'
    BY <1>1, <1>5 DEF B!GiveUp, B!TimeOut, B!Drop, B!Finish, B!Leave, B!Left
  <1>6. ASSUME NEW p \in procs, B!Draw(p) \/ B!Exit(p)
        PROVE  KeysInv'
    BY <1>1, <1>6 DEF B!Draw, B!Exit
  <1>7. CASE B!Register \/ B!Restart \/ UNCHANGED B!vars
    BY <1>1, <1>7 DEF B!Register, B!Restart, B!vars
  <1> QED BY <1>2, <1>3, <1>4, <1>5, <1>6, <1>7 DEF B!Next, B!Serve

LEMMA NextPictures ==
    ASSUME B!BridgeAssumption, SlotInv, NothingLeftAlone, PicturesInv, [B!Next]_B!vars
    PROVE  PicturesInv'
  <1> USE DEF B!keys, B!pictures, B!slot
  <1>0. /\ \A p \in procs : p.of \in Requests /\ phase[p.of] = "runs"
        /\ \A a, b \in Requests : phase[a] = "runs" /\ phase[b] = "runs" => a = b
        /\ phase \in [Requests -> {"new", "waits", "runs", "over"}]
        /\ seen \in [Requests -> SUBSET Requests] /\ given \in [Requests -> SUBSET Requests]
    BY ProcessIsTheHolders DEF SlotInv, B!WaitingIsCounted, B!TypeOK
  <1>1. ASSUME UNCHANGED B!pictures,
               \A r \in Requests : phase'[r] = "runs" => phase[r] = "runs"
        PROVE  PicturesInv'
    BY <1>1 DEF PicturesInv, B!PictureIsOwn
  <1>2. ASSUME NEW r \in Requests, NEW k \in Kinds, B!Arrive(r, k)
        PROVE  PicturesInv'
    BY <1>0, <1>1, <1>2 DEF B!Arrive
  <1>3. ASSUME NEW r \in Requests, B!Enter(r)
        PROVE  PicturesInv'
    BY <1>0, <1>3 DEF B!Enter, PicturesInv, B!PictureIsOwn
  <1>4. ASSUME NEW r \in Requests, NEW finds \in BOOLEAN, B!Finish(r, finds)
        PROVE  PicturesInv'
    BY <1>0, <1>4 DEF B!Finish, B!Leave, B!NewPictures, PicturesInv, B!PictureIsOwn
  <1>5. ASSUME NEW r \in Requests, B!GiveUp(r) \/ B!TimeOut(r) \/ B!Drop(r)
        PROVE  PicturesInv'
    BY <1>0, <1>1, <1>5 DEF B!GiveUp, B!TimeOut, B!Drop, B!Leave
  <1>6. ASSUME NEW p \in procs, B!Draw(p)
        PROVE  PicturesInv'
    BY <1>0, <1>6 DEF B!Draw, PicturesInv, B!PictureIsOwn
  <1>7. ASSUME NEW p \in procs, B!Refresh(p) \/ B!Exit(p)
        PROVE  PicturesInv'
    BY <1>1, <1>7 DEF B!Refresh, B!Exit
  <1>8. CASE B!Register \/ B!Restart \/ UNCHANGED B!vars
    BY <1>0, <1>1, <1>8 DEF B!Register, B!Restart, B!vars
  <1> QED BY <1>2, <1>3, <1>4, <1>5, <1>6, <1>7, <1>8 DEF B!Next, B!Serve

LEMMA NextProbe ==
    ASSUME SlotInv, "probe" \notin Dropped, B!ProbeCanBeRepeated, [B!Next]_B!vars
    PROVE  B!ProbeCanBeRepeated'
  <1> USE DEF B!keys, B!pictures, B!slot, B!ProbeCanBeRepeated
  <1>0. phase \in [Requests -> {"new", "waits", "runs", "over"}] /\ kind \in [Requests -> B!AllKinds]
    BY DEF SlotInv, B!TypeOK
  <1>1. ASSUME NEW r \in Requests, NEW k \in Kinds, B!Arrive(r, k)
        PROVE  B!ProbeCanBeRepeated'
    BY <1>0, <1>1 DEF B!Arrive
  <1>2. ASSUME NEW r \in Requests, B!Enter(r)
        PROVE  B!ProbeCanBeRepeated'
    <2>1. phase[r] = "waits"
      BY <1>2, BridgeTurn DEF B!Enter, SlotInv, B!TypeOK, B!WaitingIsCounted
    <2> QED BY <1>0, <1>2, <2>1 DEF B!Enter
  <1>3. ASSUME NEW r \in Requests, NEW finds \in BOOLEAN, B!Leave(r, finds)
        PROVE  B!ProbeCanBeRepeated'
    BY <1>0, <1>3 DEF B!Leave, B!ProbedAfter
  <1>4. ASSUME NEW r \in Requests, B!Drop(r)
        PROVE  B!ProbeCanBeRepeated'
    BY <1>0, <1>4 DEF B!Drop
  <1>5. ASSUME NEW p \in procs, B!Refresh(p) \/ B!Draw(p) \/ B!Exit(p)
        PROVE  B!ProbeCanBeRepeated'
    BY <1>5 DEF B!Refresh, B!Draw, B!Exit
  <1>6. CASE B!Register \/ B!Restart \/ UNCHANGED B!vars
    BY <1>6 DEF B!Register, B!Restart, B!vars
  <1> QED BY <1>1, <1>2, <1>3, <1>4, <1>5, <1>6 DEF B!Next, B!Serve, B!Finish, B!GiveUp, B!TimeOut

-----------------------------------------------------------------------------

\* Whatever people do: what /health says of the line is true, and a process of the CLI
\* is that of the request that has the slot, or of one that was over and whose kind the
\* bridge leaves running: a check whose time is over, a picture whose caller left
\* (check_auth, _generate_images; src/bridge/cli_bridge.py).
THEOREM SlotHolds ==
    ASSUME B!BridgeAssumption
    PROVE  B!Spec => [](/\ B!TypeOK
                      /\ B!WaitingIsCounted
                      /\ \A p \in procs : phase[p.of] = "runs" \/ kind[p.of] \in B!LeftAlone)
  <1>1. B!Init => SlotInv /\ FileInv
    BY InitSlot
  <1>2. SlotInv /\ FileInv /\ [B!Next]_B!vars => (SlotInv /\ FileInv)'
    BY NextSlot
  <1>3. SlotInv => /\ B!TypeOK
                   /\ B!WaitingIsCounted
                   /\ \A p \in procs : phase[p.of] = "runs" \/ kind[p.of] \in B!LeftAlone
    BY DEF SlotInv
  <1> QED BY <1>1, <1>2, <1>3, PTL DEF B!Spec

\* Where no check is cut off by its time and only conversations and questions about the
\* usage are left by their callers, the CLI runs alone: one process, no token twice, no
\* picture of another, nobody waits uncounted, and a probe without an answer is repeated.
THEOREM CliRunsAlone ==
    ASSUME B!BridgeAssumption, NothingLeftAlone, "probe" \notin Dropped
    PROVE  B!Spec => []B!CliIsAlone
  <1> DEFINE Inv == SlotInv /\ FileInv /\ AloneInv /\ B!ProbeCanBeRepeated
  <1>1. B!Init => Inv
    BY InitSlot, InitAlone
  <1>2. Inv /\ [B!Next]_B!vars => Inv'
    BY NextSlot, NextKeys, NextPictures, NextProbe DEF AloneInv
  <1>3. Inv => B!CliIsAlone
    BY ProcessIsTheHolders
       DEF SlotInv, AloneInv, KeysInv, PicturesInv, B!CliIsAlone, B!NoTokenIsReused
  <1> QED BY <1>1, <1>2, <1>3, PTL DEF B!Spec

-----------------------------------------------------------------------------
\* The media jobs: the lines of the workers.

LEMMA MediaJoined ==
    ASSUME NEW S, NEW s \in Seq(S), M!IsInjective(s), NEW e \in S, e \notin M!ToSet(s)
    PROVE  /\ Append(s, e) \in Seq(S) /\ M!IsInjective(Append(s, e))
           /\ Len(Append(s, e)) = Len(s) + 1
           /\ M!ToSet(Append(s, e)) = M!ToSet(s) \cup {e}
           /\ \A k \in M!ToSet(s) : Head(s) = k => Head(Append(s, e)) = k
  BY Joined, MediaWords

LEMMA MediaGone ==
    ASSUME NEW S, NEW s \in Seq(S), M!IsInjective(s), NEW i \in 1..Len(s)
    PROVE  /\ M!RemoveAt(s, i) \in Seq(S) /\ M!IsInjective(M!RemoveAt(s, i))
           /\ Len(M!RemoveAt(s, i)) = Len(s) - 1
           /\ M!ToSet(M!RemoveAt(s, i)) = M!ToSet(s) \ {s[i]} /\ s[i] \in M!ToSet(s)
           /\ i # 1 => Head(M!RemoveAt(s, i)) = Head(s)
  BY GoneFromLine, MediaWords

LEMMA MediaOne ==
    ASSUME NEW S, \A a, b \in S : a = b
    PROVE  M!Cardinality(S) <= 1
  BY AtMostOne, MediaWords

\* Who is past the line holds its worker's semaphore.
LinesInv ==
    /\ task \in [Jobs -> M!Places]
    /\ home \in [Jobs -> Workers]
    /\ turns \in [Workers -> Seq(Bridged)]
    /\ \A w \in Workers :
          /\ M!IsInjective(turns[w])
          /\ M!ToSet(turns[w]) = {j \in Bridged : home[j] = w /\ task[j] # "none"}
    /\ \A j \in Jobs : task[j] \in {"line", "turn"} => j \in Bridged
    /\ \A j \in Bridged : task[j] \in {"turn", "go", "call"} => Head(turns[home[j]]) = j

Rows == [state : M!States, files : Nat, why : {"", "stale", "stopped", "error"}]

\* Who is not over has something left to make; who beats is fresh; a row nobody asked
\* for is empty.
RowsInv ==
    /\ row \in [Jobs -> Rows]
    /\ made \in [Jobs -> Nat] /\ fresh \in [Jobs -> BOOLEAN]
    /\ \A j \in Jobs : made[j] <= Count[j]
    /\ \A j \in Jobs : task[j] # "none" => made[j] < Count[j]
    /\ \A j \in Jobs : M!Beats(j) => fresh[j]
    /\ \A j \in Jobs : row[j].state = "none" => made[j] = 0 /\ task[j] = "none" /\ row[j].why = ""
    /\ M!AliveIsNotReaped
    /\ M!MadeIsListed

BoundsInv == presses \in 0..Stops /\ crashes \in 0..MAX_CRASHES

IInv == LinesInv /\ RowsInv /\ BoundsInv

-----------------------------------------------------------------------------
\* The lines.

LEMMA InitInv ==
    ASSUME M!MediaAssumption, M!Init
    PROVE  IInv
  <1>1. M!IsInjective(<<>>) /\ M!ToSet(<<>>) = {} /\ <<>> \in Seq(Bridged)
    BY DEF M!IsInjective, M!ToSet
  <1>2. home \in [Jobs -> Workers]
    BY DEF M!MediaAssumption, M!Init
  <1>3. task = [j \in Jobs |-> "none"] /\ turns = [w \in Workers |-> <<>>]
    BY DEF M!Init
  <1>4. task \in [Jobs -> M!Places] /\ turns \in [Workers -> Seq(Bridged)]
    BY <1>1, <1>3 DEF M!Places
  <1>5. LinesInv
    <2>1. \A w \in Workers : M!IsInjective(turns[w]) /\ M!ToSet(turns[w]) = {}
      BY <1>1, <1>3
    <2>2. \A j \in Jobs : task[j] = "none"
      BY <1>3
    <2>3. \A j \in Bridged : j \in Jobs
      BY DEF M!MediaAssumption
    <2> QED BY <1>2, <1>4, <2>1, <2>2, <2>3 DEF LinesInv
  <1>6. row \in [Jobs -> Rows]
    BY DEF Rows, M!States, M!Active, M!Init
  <1>7. RowsInv
    <2>1. /\ made = [j \in Jobs |-> 0] /\ fresh = [j \in Jobs |-> FALSE]
          /\ row = [j \in Jobs |-> [state |-> "none", files |-> 0, why |-> ""]]
      BY DEF M!Init
    <2>2. \A j \in Jobs : Count[j] \in Nat
      BY DEF M!MediaAssumption
    <2>3. made \in [Jobs -> Nat] /\ \A j \in Jobs : made[j] <= Count[j]
      <3>1. made \in [Jobs -> Nat]
        BY <2>1
      <3>2. \A j \in Jobs : made[j] = 0
        BY <2>1
      <3> QED BY <3>1, <3>2, <2>2
    <2>4. fresh \in [Jobs -> BOOLEAN]
      BY <2>1
    <2>5. \A j \in Jobs : /\ task[j] = "none" /\ made[j] = 0
                          /\ row[j].state = "none" /\ row[j].why = "" /\ row[j].files = 0
      BY <1>3, <2>1
    <2> QED BY <1>6, <2>3, <2>4, <2>5 DEF RowsInv, M!Beats, M!AliveIsNotReaped, M!MadeIsListed
  <1>8. BoundsInv
    <2>1. Stops \in Nat /\ MAX_CRASHES \in Nat
      BY DEF M!MediaAssumption
    <2>2. presses = 0 /\ crashes = 0
      BY DEF M!Init
    <2> QED BY <2>1, <2>2 DEF BoundsInv
  <1> QED BY <1>5, <1>7, <1>8 DEF IInv

\* A job leaves the line of its worker; whoever else was first stays first.
LEMMA LeaveShape ==
    ASSUME LinesInv, NEW w \in Workers, NEW j \in Jobs
    PROVE  /\ M!Leave(w, j) \in Seq(Bridged) /\ M!IsInjective(M!Leave(w, j))
           /\ M!ToSet(M!Leave(w, j)) = M!ToSet(turns[w]) \ {j}
           /\ \A k \in M!ToSet(turns[w]) \ {j} : Head(turns[w]) = k => Head(M!Leave(w, j)) = k
  <1>0. turns[w] \in Seq(Bridged) /\ M!IsInjective(turns[w])
    BY DEF LinesInv
  <1>1. CASE j \notin M!ToSet(turns[w])
    BY <1>0, <1>1 DEF M!Leave
  <1>2. CASE j \in M!ToSet(turns[w])
    <2> DEFINE s == turns[w]
               i == M!PlaceOf(s, j)
    <2>1. \E x \in 1..Len(s) : s[x] = j
      BY <1>0, <1>2 DEF M!ToSet
    <2>2. i \in 1..Len(s) /\ s[i] = j
      BY <2>1 DEF M!PlaceOf
    <2>3. M!Leave(w, j) = M!RemoveAt(s, i)
      BY <1>2 DEF M!Leave
    <2> HIDE DEF s, i
    <2>4. s \in Seq(Bridged) /\ M!IsInjective(s)
      BY <1>0 DEF s
    <2>5. /\ M!RemoveAt(s, i) \in Seq(Bridged) /\ M!IsInjective(M!RemoveAt(s, i))
          /\ M!ToSet(M!RemoveAt(s, i)) = M!ToSet(s) \ {s[i]}
          /\ i # 1 => Head(M!RemoveAt(s, i)) = Head(s)
      BY <2>2, <2>4, MediaGone
    <2>6. Head(s) = s[1]
      BY <2>2, <2>4
    <2>7. \A k \in M!ToSet(s) \ {j} : Head(s) = k => i # 1
      BY <2>2, <2>6
    <2> QED BY <2>2, <2>3, <2>5, <2>7 DEF s
  <1> QED BY <1>1, <1>2

LEMMA CreateLines ==
    ASSUME M!MediaAssumption, IInv, NEW w \in Workers, NEW j \in Jobs, M!Create(w, j)
    PROVE  LinesInv'
  <1> USE DEF M!Create
  <1>0. task[j] = "none" /\ LinesInv
    BY DEF IInv, RowsInv
  <1>1. task' = [task EXCEPT ![j] = M!Start(j)] /\ home' = [home EXCEPT ![j] = w]
        /\ M!Start(j) = (IF j \in Bridged THEN "line" ELSE "go")
    BY DEF M!Start
  <1>2. task' \in [Jobs -> M!Places] /\ home' \in [Jobs -> Workers]
    BY <1>0, <1>1 DEF LinesInv, M!Places
  <1>3. CASE j \notin Bridged
    <2>1. \A k \in Bridged : task'[k] = task[k] /\ home'[k] = home[k]
      BY <1>0, <1>1, <1>3 DEF LinesInv
    <2>2. turns' = turns
      BY <1>3
    <2>3. \A k \in Jobs : task'[k] \in {"line", "turn"} => k \in Bridged
      BY <1>0, <1>1, <1>3 DEF LinesInv
    <2> QED BY <1>0, <1>2, <2>1, <2>2, <2>3 DEF LinesInv
  <1>4. CASE j \in Bridged
    <2> DEFINE s == turns[w]
               t == Append(s, j)
    <2>1. s \in Seq(Bridged) /\ M!IsInjective(s) /\ j \notin M!ToSet(s)
      BY <1>0 DEF LinesInv
    <2>2. /\ t \in Seq(Bridged) /\ M!IsInjective(t) /\ M!ToSet(t) = M!ToSet(s) \cup {j}
          /\ \A k \in M!ToSet(s) : Head(s) = k => Head(t) = k
      BY <1>4, <2>1, MediaJoined
    <2>3. turns' = [turns EXCEPT ![w] = t]
      BY <1>4
    <2> HIDE DEF t
    <2>4. turns' \in [Workers -> Seq(Bridged)] /\ turns'[w] = t
          /\ \A v \in Workers : v # w => turns'[v] = turns[v]
      BY <1>0, <2>2, <2>3 DEF LinesInv
    <2>5. \A k \in Jobs : k # j => task'[k] = task[k] /\ home'[k] = home[k]
      BY <1>0, <1>1 DEF LinesInv
    <2>6. task'[j] = "line" /\ home'[j] = w
      BY <1>0, <1>1, <1>4 DEF LinesInv
    <2>7. ASSUME NEW v \in Workers
          PROVE  /\ M!IsInjective(turns'[v])
                 /\ M!ToSet(turns'[v]) = {k \in Bridged : home'[k] = v /\ task'[k] # "none"}
      <3>1. CASE v = w
        <4>1. M!ToSet(s) = {k \in Bridged : home[k] = w /\ task[k] # "none"}
          BY <1>0 DEF LinesInv
        <4>2. M!ToSet(t) = {k \in Bridged : home'[k] = w /\ task'[k] # "none"}
          BY <4>1, <1>0, <1>4, <2>2, <2>5, <2>6 DEF M!MediaAssumption
        <4> QED BY <3>1, <4>2, <2>2, <2>4
      <3>2. CASE v # w
        BY <3>2, <1>0, <1>4, <2>4, <2>5, <2>6 DEF LinesInv, M!MediaAssumption
      <3> QED BY <3>1, <3>2
    <2>8. \A k \in Jobs : task'[k] \in {"line", "turn"} => k \in Bridged
      BY <1>0, <1>4, <2>5, <2>6 DEF LinesInv
    <2>9. ASSUME NEW k \in Bridged, task'[k] \in {"turn", "go", "call"}
          PROVE  Head(turns'[home'[k]]) = k
      <3>1. k # j
        BY <2>6, <2>9
      <3> QED BY <3>1, <1>0, <2>2, <2>4, <2>5, <2>9 DEF LinesInv
    <2> QED BY <1>2, <2>4, <2>7, <2>8, <2>9 DEF LinesInv
  <1> QED BY <1>3, <1>4

\* A task goes on in its place: whoever holds the semaphore is first in its line.
LEMMA MoveLines ==
    ASSUME M!MediaAssumption, LinesInv, NEW j \in Jobs, NEW p \in M!Places \ {"none"},
           task[j] # "none",
           p \in {"line", "turn"} => j \in Bridged,
           j \in Bridged => Head(turns[home[j]]) = j,
           task' = [task EXCEPT ![j] = p], UNCHANGED <<home, turns>>
    PROVE  LinesInv'
  <1>1. /\ \A k \in Jobs : k # j => task'[k] = task[k]
        /\ task'[j] = p /\ task' \in [Jobs -> M!Places]
    BY DEF LinesInv
  <1>2. \A w \in Workers : M!ToSet(turns'[w]) = {k \in Bridged : home'[k] = w /\ task'[k] # "none"}
    <2>1. \A k \in Bridged : task'[k] # "none" <=> task[k] # "none"
      BY <1>1 DEF M!MediaAssumption
    <2> QED BY <2>1 DEF LinesInv
  <1> QED BY <1>1, <1>2 DEF LinesInv, M!MediaAssumption

\* A task ends: its place in the line goes.
LEMMA EndLines ==
    ASSUME M!MediaAssumption, LinesInv, NEW j \in Jobs, M!End(j), UNCHANGED home
    PROVE  LinesInv'
  <1> DEFINE w == home[j]
             t == M!Leave(w, j)
  <1>1. w \in Workers
    BY DEF LinesInv
  <1>2. /\ t \in Seq(Bridged) /\ M!IsInjective(t)
        /\ M!ToSet(t) = M!ToSet(turns[w]) \ {j}
        /\ \A k \in M!ToSet(turns[w]) \ {j} : Head(turns[w]) = k => Head(t) = k
    BY <1>1, LeaveShape
  <1>3. turns' = [turns EXCEPT ![w] = t] /\ task' = [task EXCEPT ![j] = "none"]
    BY DEF M!End
  <1> HIDE DEF t, w
  <1>4. /\ turns' \in [Workers -> Seq(Bridged)] /\ turns'[w] = t
        /\ \A v \in Workers : v # w => turns'[v] = turns[v]
    BY <1>1, <1>2, <1>3 DEF LinesInv
  <1>5. /\ task' \in [Jobs -> M!Places] /\ task'[j] = "none"
        /\ \A k \in Jobs : k # j => task'[k] = task[k]
    BY <1>3 DEF LinesInv, M!Places
  <1>6. ASSUME NEW v \in Workers
        PROVE  /\ M!IsInjective(turns'[v])
               /\ M!ToSet(turns'[v]) = {k \in Bridged : home'[k] = v /\ task'[k] # "none"}
    <2>1. M!ToSet(turns[v]) = {k \in Bridged : home[k] = v /\ task[k] # "none"}
      BY DEF LinesInv
    <2>2. CASE v = w
      <3>1. \A k \in Bridged : home'[k] = home[k] /\ (task'[k] # "none" <=> task[k] # "none" /\ k # j)
        BY <1>5 DEF M!MediaAssumption
      <3>2. M!ToSet(t) = {k \in Bridged : home'[k] = v /\ task'[k] # "none"}
        BY <2>1, <2>2, <3>1, <1>2
      <3> QED BY <2>2, <3>2, <1>2, <1>4
    <2>3. CASE v # w
      <3>1. home[j] # v
        BY <2>3 DEF w
      <3> QED BY <2>1, <2>3, <3>1, <1>4, <1>5 DEF LinesInv, M!MediaAssumption
    <2> QED BY <2>2, <2>3
  <1>7. ASSUME NEW k \in Bridged, task'[k] \in {"turn", "go", "call"}
        PROVE  Head(turns'[home'[k]]) = k
    <2>1. k # j /\ task[k] = task'[k] /\ Head(turns[home[k]]) = k /\ home[k] \in Workers
      BY <1>5, <1>7 DEF LinesInv, M!MediaAssumption
    <2>2. CASE home[k] = w
      <3>1. k \in M!ToSet(turns[w]) \ {j}
        BY <1>7, <2>1, <2>2 DEF LinesInv
      <3> QED BY <2>1, <2>2, <3>1, <1>2, <1>4
    <2>3. CASE home[k] # w
      BY <2>1, <2>3, <1>4
    <2> QED BY <2>2, <2>3
  <1> QED BY <1>4, <1>5, <1>6, <1>7 DEF LinesInv

\* A job that goes on to its next picture goes to the end of the line.
LEMMA AgainLines ==
    ASSUME M!MediaAssumption, LinesInv, NEW j \in Bridged, task[j] # "none",
           task' = [task EXCEPT ![j] = "line"],
           turns' = [turns EXCEPT ![home[j]] = Append(M!Leave(home[j], j), j)],
           UNCHANGED home
    PROVE  LinesInv'
  <1> DEFINE w == home[j]
             s == M!Leave(w, j)
             t == Append(s, j)
  <1>1. w \in Workers /\ j \in Jobs
    BY DEF LinesInv, M!MediaAssumption
  <1>2. /\ s \in Seq(Bridged) /\ M!IsInjective(s)
        /\ M!ToSet(s) = M!ToSet(turns[w]) \ {j}
        /\ \A k \in M!ToSet(turns[w]) \ {j} : Head(turns[w]) = k => Head(s) = k
    BY <1>1, LeaveShape
  <1> HIDE DEF s
  <1>3. /\ t \in Seq(Bridged) /\ M!IsInjective(t)
        /\ M!ToSet(t) = M!ToSet(s) \cup {j}
        /\ \A k \in M!ToSet(s) : Head(s) = k => Head(t) = k
    BY <1>2, MediaJoined
  <1>4. turns' = [turns EXCEPT ![w] = t]
    BY DEF s
  <1> HIDE DEF t, w
  <1>5. /\ turns' \in [Workers -> Seq(Bridged)] /\ turns'[w] = t
        /\ \A v \in Workers : v # w => turns'[v] = turns[v]
    <2>1. w \in Workers /\ t \in Seq(Bridged) /\ turns \in [Workers -> Seq(Bridged)]
      BY <1>1, <1>3 DEF LinesInv
    <2> QED BY <2>1, <1>4
  <1>6. /\ task' \in [Jobs -> M!Places] /\ task'[j] = "line"
        /\ \A k \in Jobs : k # j => task'[k] = task[k]
    BY <1>1 DEF LinesInv, M!Places
  <1>7. ASSUME NEW v \in Workers
        PROVE  /\ M!IsInjective(turns'[v])
               /\ M!ToSet(turns'[v]) = {k \in Bridged : home'[k] = v /\ task'[k] # "none"}
    <2>1. M!ToSet(turns[v]) = {k \in Bridged : home[k] = v /\ task[k] # "none"}
      BY DEF LinesInv
    <2>2. \A k \in Bridged : task'[k] # "none" <=> task[k] # "none"
      BY <1>6 DEF M!MediaAssumption
    <2>3. CASE v = w
      <3>1. j \in M!ToSet(turns[v])
        BY <2>1, <2>3 DEF w
      <3>2. M!ToSet(t) = M!ToSet(turns[v])
        BY <1>2, <1>3, <2>3, <3>1
      <3> QED BY <2>1, <2>2, <2>3, <3>2, <1>3, <1>5
    <2>4. CASE v # w
      BY <2>1, <2>2, <2>4, <1>5 DEF LinesInv
    <2> QED BY <2>3, <2>4
  <1>8. ASSUME NEW k \in Bridged, task'[k] \in {"turn", "go", "call"}
        PROVE  Head(turns'[home'[k]]) = k
    <2>1. k # j /\ task[k] = task'[k] /\ Head(turns[home[k]]) = k /\ home[k] \in Workers
      BY <1>6, <1>8 DEF LinesInv, M!MediaAssumption
    <2>2. CASE home[k] = w
      <3>1. k \in M!ToSet(turns[w]) \ {j}
        BY <1>8, <2>1, <2>2 DEF LinesInv
      <3> QED BY <2>1, <2>2, <3>1, <1>2, <1>3, <1>5
    <2>3. CASE home[k] # w
      BY <2>1, <2>3, <1>5
    <2> QED BY <2>2, <2>3
  <1>9. \A k \in Jobs : task'[k] \in {"line", "turn"} => k \in Bridged
    BY <1>6 DEF LinesInv
  <1> QED BY <1>5, <1>6, <1>7, <1>8, <1>9 DEF LinesInv

LEMMA CrashLines ==
    ASSUME M!MediaAssumption, LinesInv, NEW w \in Workers, M!Crash(w)
    PROVE  LinesInv'
  <1>1. /\ turns' = [turns EXCEPT ![w] = <<>>] /\ home' = home
        /\ task' = [j \in Jobs |-> IF home[j] = w THEN "none" ELSE task[j]]
    BY DEF M!Crash
  <1>2. <<>> \in Seq(Bridged) /\ M!IsInjective(<<>>) /\ M!ToSet(<<>>) = {}
    BY DEF M!IsInjective, M!ToSet
  <1>3. turns' \in [Workers -> Seq(Bridged)] /\ task' \in [Jobs -> M!Places]
    BY <1>1, <1>2 DEF LinesInv, M!Places
  <1>4. ASSUME NEW v \in Workers
        PROVE  /\ M!IsInjective(turns'[v])
               /\ M!ToSet(turns'[v]) = {k \in Bridged : home'[k] = v /\ task'[k] # "none"}
    BY <1>1, <1>2 DEF LinesInv, M!MediaAssumption
  <1>5. ASSUME NEW k \in Bridged, task'[k] \in {"turn", "go", "call"}
        PROVE  Head(turns'[home'[k]]) = k
    <2>1. home[k] # w /\ task[k] = task'[k] /\ home[k] \in Workers
      BY <1>1, <1>5 DEF LinesInv, M!MediaAssumption
    <2> QED BY <2>1, <1>1, <1>5 DEF LinesInv
  <1> QED BY <1>1, <1>3, <1>4, <1>5 DEF LinesInv

-----------------------------------------------------------------------------
\* The rows.

\* One job's row is written, and its coroutine may go on or end.
LEMMA WriteRows ==
    ASSUME M!MediaAssumption, RowsInv, NEW j \in Jobs, NEW r \in Rows, M!Update(j, r),
           made' \in [Jobs -> Nat],
           \A k \in Jobs \ {j} : task'[k] = task[k] /\ made'[k] = made[k],
           r.files = made'[j], r.state # "none", made'[j] <= Count[j],
           task'[j] # "none" => made'[j] < Count[j],
           Kind[j] = "picture" /\ r.why = "stale" => task'[j] = "none"
    PROVE  RowsInv'
  <1>1. /\ row' \in [Jobs -> Rows] /\ row'[j] = r
        /\ \A k \in Jobs \ {j} : row'[k] = row[k]
    BY DEF M!Update, RowsInv
  <1>2. fresh' \in [Jobs -> BOOLEAN]
    BY DEF M!Update, RowsInv
  <1>3. fresh'[j] /\ \A k \in Jobs \ {j} : fresh'[k] = fresh[k]
    BY DEF M!Update, RowsInv
  <1>4. \A k \in Jobs : /\ made'[k] <= Count[k]
                        /\ task'[k] # "none" => made'[k] < Count[k]
                        /\ row'[k].state = "none"
                              => made'[k] = 0 /\ task'[k] = "none" /\ row'[k].why = ""
                        /\ row'[k].files = made'[k]
                        /\ Kind[k] = "picture" /\ row'[k].why = "stale" => task'[k] = "none"
    BY ZenonT(30), <1>1 DEF RowsInv, M!AliveIsNotReaped, M!MadeIsListed
  <1>5. \A k \in Jobs : M!Beats(k)' => fresh'[k]
    BY <1>3 DEF RowsInv, M!Beats
  <1> QED BY <1>1, <1>2, <1>4, <1>5 DEF RowsInv, M!AliveIsNotReaped, M!MadeIsListed

\* Nothing is written; a coroutine may go on or end, a row may grow old.
LEMMA KeepRows ==
    ASSUME RowsInv, UNCHANGED <<row, made>>, fresh' \in [Jobs -> BOOLEAN],
           \A k \in Jobs : task'[k] # "none" => task[k] # "none",
           \A k \in Jobs : M!Beats(k) => fresh'[k] = fresh[k]
    PROVE  RowsInv'
  BY DEF RowsInv, M!Beats, M!AliveIsNotReaped, M!MadeIsListed

LEMMA NextInv ==
    ASSUME M!MediaAssumption, IInv, [M!Next]_M!vars
    PROVE  IInv'
  <1>0. /\ LinesInv /\ RowsInv /\ BoundsInv
        /\ row \in [Jobs -> Rows] /\ task \in [Jobs -> M!Places] /\ made \in [Jobs -> Nat]
        /\ Stops \in Nat /\ MAX_CRASHES \in Nat /\ Bridged \subseteq Jobs
    BY DEF IInv, LinesInv, RowsInv, M!MediaAssumption
  <1>1. ASSUME NEW w \in Workers, NEW j \in Jobs, M!Create(w, j)
        PROVE  IInv'
    <2> DEFINE r == [row[j] EXCEPT !.state = "queued"]
    <2>1. row[j].state = "none" /\ made[j] = 0 /\ row[j].files = 0 /\ row[j].why = ""
      BY <1>0, <1>1 DEF M!Create, RowsInv, M!MadeIsListed
    <2>2. r \in Rows /\ r.files = 0 /\ r.why = "" /\ r.state = "queued"
      BY <1>0, <2>1 DEF Rows, M!States, M!Active
    <2>3. /\ M!Update(j, r) /\ made' = made
          /\ \A k \in Jobs \ {j} : task'[k] = task[k]
      BY <1>0, <1>1 DEF M!Create
    <2> HIDE DEF r
    <2>4. 0 <= Count[j] /\ 0 < Count[j]
      <3>1. Count[j] \in Nat \ {0}
        BY DEF M!MediaAssumption
      <3> QED BY <3>1
    <2>5. RowsInv'
      BY <1>0, <2>1, <2>2, <2>3, <2>4, WriteRows
    <2>6. LinesInv'
      BY <1>1, CreateLines
    <2> QED BY <1>0, <1>1, <2>5, <2>6 DEF M!Create, IInv, BoundsInv
  <1>2. ASSUME NEW j \in Jobs, M!Take(j) \/ M!SeesNobody(j)
        PROVE  IInv'
    <2>1. PICK p \in {"turn", "go"} :
             /\ task' = [task EXCEPT ![j] = p]
             /\ p = "turn" => task[j] = "line"
      BY <1>2 DEF M!Take, M!SeesNobody
    <2>2. task[j] \in {"line", "turn"} /\ j \in Bridged /\ Head(turns[home[j]]) = j
      BY <1>0, <1>2 DEF M!Take, M!SeesNobody, LinesInv
    <2>3. LinesInv'
      BY <1>0, <1>2, <2>1, <2>2, MoveLines DEF M!Take, M!SeesNobody, M!Places
    <2>4. RowsInv'
      BY <1>0, <1>2, <2>1, <2>2, KeepRows DEF M!Take, M!SeesNobody, RowsInv
    <2> QED BY <1>0, <1>2, <2>3, <2>4 DEF M!Take, M!SeesNobody, IInv, BoundsInv
  <1>3. ASSUME NEW j \in Jobs, M!Begin(j)
        PROVE  IInv'
    <2> DEFINE r == [row[j] EXCEPT !.state = "running"]
    <2>1. task[j] = "go" /\ task' = [task EXCEPT ![j] = "call"] /\ made' = made
      BY <1>3 DEF M!Begin
    <2>2. LinesInv'
      BY <1>0, <1>3, <2>1, MoveLines DEF M!Begin, M!Places, LinesInv
    <2>3. r \in Rows /\ r.files = made[j] /\ r.why = row[j].why /\ r.state = "running"
      BY ZenonT(30), <1>0 DEF Rows, M!States, M!Active, RowsInv, M!MadeIsListed
    <2>4. M!Update(j, r)
      BY <1>3 DEF M!Begin
    <2> HIDE DEF r
    <2>5. /\ made[j] < Count[j] /\ made[j] <= Count[j]
          /\ Kind[j] = "picture" => row[j].why # "stale"
      BY <1>0, <2>1 DEF RowsInv, M!AliveIsNotReaped
    <2>6. RowsInv'
      BY <1>0, <2>1, <2>3, <2>4, <2>5, WriteRows
    <2> QED BY <1>0, <1>3, <2>2, <2>6 DEF M!Begin, IInv, BoundsInv
  <1>4. ASSUME NEW j \in Jobs, M!Made(j)
        PROVE  IInv'
    <2> DEFINE n == made[j] + 1
               more == n < Count[j]
               r == [row[j] EXCEPT !.files = n, !.state = IF more THEN @ ELSE "done"]
    <2>1. /\ task[j] = "call" /\ made[j] < Count[j] /\ made[j] \in Nat /\ Count[j] \in Nat
          /\ row[j].state # "none"
          /\ Kind[j] = "picture" => row[j].why # "stale"
      BY <1>0, <1>4 DEF M!Made, RowsInv, M!AliveIsNotReaped, M!MediaAssumption
    <2>2. r \in Rows /\ r.files = n /\ r.why = row[j].why /\ r.state # "none"
      <3>1. row[j] \in Rows /\ n \in Nat
        BY <1>0, <2>1
      <3>2. (IF more THEN row[j].state ELSE "done") \in M!States \ {"none"}
        BY <2>1, <3>1 DEF Rows, M!States, M!Active
      <3> HIDE DEF n, more
      <3> QED BY <3>1, <3>2 DEF Rows
    <2>3. M!Update(j, r) /\ made' = [made EXCEPT ![j] = n] /\ home' = home
      BY <1>4 DEF M!Made
    <2>4. task' = [task EXCEPT ![j] = IF more THEN M!Start(j) ELSE "none"]
      BY <1>4 DEF M!Made
    <2>5. turns' = [turns EXCEPT ![home[j]] =
                      IF more /\ j \in Bridged THEN Append(M!Leave(home[j], j), j)
                      ELSE M!Leave(home[j], j)]
      BY <1>4 DEF M!Made
    <2>6. LinesInv'
      <3>1. CASE ~more
        BY <1>0, <2>3, <2>4, <2>5, <3>1, EndLines DEF M!End
      <3>2. CASE more /\ j \in Bridged
        BY <1>0, <2>1, <2>3, <2>4, <2>5, <3>2, AgainLines DEF M!Start
      <3>3. CASE more /\ j \notin Bridged
        <4>1. j \notin M!ToSet(turns[home[j]])
          BY <1>0, <3>3 DEF LinesInv
        <4>2. turns' = turns
          BY <1>0, <2>5, <3>3, <4>1 DEF M!Leave, LinesInv
        <4> QED BY <1>0, <2>1, <2>3, <2>4, <3>3, <4>2, MoveLines DEF M!Start, M!Places
      <3> QED BY <3>1, <3>2, <3>3
    <2>7. /\ made' \in [Jobs -> Nat] /\ made'[j] = n /\ n <= Count[j]
          /\ \A k \in Jobs \ {j} : made'[k] = made[k] /\ task'[k] = task[k]
          /\ task'[j] # "none" => n < Count[j]
      BY <1>0, <2>1, <2>3, <2>4
    <2> HIDE DEF n, more, r
    <2>8. RowsInv'
      BY <1>0, <2>1, <2>2, <2>3, <2>7, WriteRows
    <2> QED BY <1>0, <1>4, <2>6, <2>8 DEF M!Made, IInv, BoundsInv
  <1>5. ASSUME NEW j \in Jobs, NEW why \in {"stopped", "error"},
               M!Update(j, M!Broken(j, why)), M!End(j), UNCHANGED <<home, made>>
        PROVE  LinesInv' /\ RowsInv'
    <2>1. M!Broken(j, why) \in Rows /\ M!Broken(j, why).files = made[j]
          /\ M!Broken(j, why).why # "stale" /\ M!Broken(j, why).state # "none"
      BY <1>0 DEF M!Broken, Rows, M!States, M!Active
    <2>2. \A k \in Jobs \ {j} : task'[k] = task[k]
      BY <1>0, <1>5 DEF M!End
    <2>3. made[j] <= Count[j] /\ task'[j] = "none"
      BY <1>0, <1>5 DEF M!End, RowsInv
    <2>4. RowsInv'
      BY <1>0, <1>5, <2>1, <2>2, <2>3, WriteRows
    <2> QED BY <1>0, <1>5, <2>4, EndLines
  <1>6. ASSUME NEW j \in Jobs, M!Fail(j)
        PROVE  IInv'
    BY <1>0, <1>5, <1>6 DEF M!Fail, IInv, BoundsInv
  <1>7. CASE M!Look
    <2>1. /\ row' = [j \in Jobs |-> M!ReapedRow(j)] /\ task' = task /\ made' = made
          /\ fresh' = [j \in Jobs |-> fresh[j] \/ M!Reaped(j)]
      BY <1>7 DEF M!Look
    <2>2. fresh' \in [Jobs -> BOOLEAN]
      BY <2>1, <1>0 DEF RowsInv
    <2>3. \A j \in Jobs : /\ M!ReapedRow(j) \in Rows /\ M!ReapedRow(j).files = row[j].files
                          /\ M!ReapedRow(j).state = "none" => row[j].state = "none"
                          /\ M!ReapedRow(j).state = "none" => M!ReapedRow(j) = row[j]
                          /\ M!ReapedRow(j).why = "stale" => row[j].why = "stale" \/ ~fresh[j]
      BY <1>0 DEF M!ReapedRow, M!Reaped, Rows, M!States, M!Active
    <2>4. row' \in [Jobs -> Rows] /\ \A j \in Jobs : row'[j] = M!ReapedRow(j)
      BY <2>1, <2>3
    <2>5. M!AliveIsNotReaped' /\ M!MadeIsListed'
      BY <1>0, <2>1, <2>3, <2>4, Zenon DEF RowsInv, M!AliveIsNotReaped, M!MadeIsListed, M!Beats
    <2>6. \A j \in Jobs : M!Beats(j)' => fresh'[j]
      BY <1>0, <2>1 DEF RowsInv, M!Beats
    <2>7. RowsInv'
      BY <1>0, <2>1, <2>2, <2>3, <2>4, <2>5, <2>6 DEF RowsInv
    <2>8. LinesInv'
      BY <1>0, <1>7 DEF M!Look, LinesInv
    <2> QED BY <1>0, <1>7, <2>7, <2>8 DEF M!Look, IInv, BoundsInv
  <1>8. ASSUME NEW j \in Jobs, M!Quiet(j)
        PROVE  IInv'
    <2>1. fresh' = [fresh EXCEPT ![j] = FALSE] /\ ~M!Beats(j) /\ UNCHANGED <<row, task, made>>
      BY <1>8 DEF M!Quiet
    <2>2. fresh' \in [Jobs -> BOOLEAN] /\ \A k \in Jobs : M!Beats(k) => fresh'[k] = fresh[k]
      BY <1>0, <2>1 DEF RowsInv
    <2>3. RowsInv'
      BY <1>0, <2>1, <2>2, KeepRows
    <2>4. LinesInv'
      BY <1>0, <1>8 DEF M!Quiet, LinesInv
    <2> QED BY <1>0, <1>8, <2>3, <2>4 DEF M!Quiet, IInv, BoundsInv
  <1>9. ASSUME NEW w \in Workers, NEW j \in Jobs, M!Cancel(w, j)
        PROVE  IInv'
    <2>1. BoundsInv' /\ UNCHANGED <<home, made>> /\ row[j].state \in M!Active
      BY <1>0, <1>9 DEF M!Cancel, BoundsInv
    <2>2. CASE M!CancelHere(j)
      <3>1. CASE Kind[j] = "picture" \/ task[j] = "call"
        BY <1>5, <2>1, <2>2, <3>1 DEF M!CancelHere, IInv
      <3>2. CASE ~(Kind[j] = "picture" \/ task[j] = "call")
        <4>1. UNCHANGED <<row, fresh>> /\ M!End(j)
          BY <2>2, <3>2 DEF M!CancelHere
        <4>2. \A k \in Jobs : task'[k] # "none" => task[k] # "none"
          BY <1>0, <4>1 DEF M!End
        <4>3. RowsInv'
          BY <1>0, <2>1, <4>1, <4>2, KeepRows DEF RowsInv
        <4> QED BY <1>0, <2>1, <4>1, <4>3, EndLines DEF IInv
      <3> QED BY <3>1, <3>2
    <2>3. CASE M!CancelElsewhere(j)
      <3> DEFINE r == [row[j] EXCEPT !.state = "failed", !.why = "stopped"]
      <3>1. r \in Rows /\ r.files = made[j] /\ r.why = "stopped" /\ r.state = "failed"
        <4>1. row[j] \in Rows /\ row[j].files = made[j]
          BY <1>0 DEF RowsInv, M!MadeIsListed
        <4> QED BY <4>1 DEF Rows, M!States
      <3>2. M!Update(j, r) /\ UNCHANGED <<task, turns>>
        BY <2>3 DEF M!CancelElsewhere
      <3> HIDE DEF r
      <3>3. made[j] <= Count[j] /\ (task[j] # "none" => made[j] < Count[j])
        BY <1>0 DEF RowsInv
      <3>4. RowsInv'
        BY <1>0, <2>1, <3>1, <3>2, <3>3, WriteRows
      <3>5. LinesInv'
        BY <1>0, <2>1, <3>2 DEF LinesInv
      <3> QED BY <2>1, <3>4, <3>5 DEF IInv
    <2> QED BY <1>9, <2>2, <2>3 DEF M!Cancel
  <1>10. ASSUME NEW w \in Workers, M!Crash(w)
         PROVE  IInv'
    <2>1. /\ \A k \in Jobs : task'[k] # "none" => task[k] # "none"
          /\ UNCHANGED <<row, fresh, made>> /\ fresh \in [Jobs -> BOOLEAN]
      BY <1>0, <1>10 DEF M!Crash, RowsInv
    <2>2. RowsInv'
      BY <1>0, <2>1, KeepRows
    <2>3. LinesInv'
      BY <1>0, <1>10, CrashLines
    <2>4. BoundsInv'
      BY <1>0, <1>10 DEF M!Crash, BoundsInv
    <2> QED BY <2>2, <2>3, <2>4 DEF IInv
  <1>11. CASE UNCHANGED M!vars
    BY <1>0, <1>11
       DEF M!vars, IInv, LinesInv, RowsInv, BoundsInv, M!Beats, M!AliveIsNotReaped, M!MadeIsListed
  <1> QED BY <1>1, <1>2, <1>3, <1>4, <1>6, <1>7, <1>8, <1>9, <1>10, <1>11 DEF M!Next, M!Work

-----------------------------------------------------------------------------

LEMMA InvImplies ==
    ASSUME M!MediaAssumption, IInv
    PROVE  M!TypeOK /\ M!JobRowIsTrue
  <1>1. M!TypeOK
    BY DEF IInv, LinesInv, RowsInv, BoundsInv, Rows, M!MadeIsListed, M!TypeOK
  <1>2. ASSUME NEW w \in Workers
        PROVE  M!Cardinality({j \in Bridged : home[j] = w /\ task[j] \in {"go", "call"}}) <= 1
    <2> DEFINE S == {j \in Bridged : home[j] = w /\ task[j] \in {"go", "call"}}
    <2>1. \A j \in S : Head(turns[w]) = j
      BY DEF IInv, LinesInv
    <2>2. \A j, k \in S : j = k
      BY <2>1
    <2> HIDE DEF S
    <2>3. M!Cardinality(S) <= 1
      BY <2>2, MediaOne
    <2> QED BY <2>3 DEF S
  <1> QED BY <1>1, <1>2 DEF M!JobRowIsTrue, M!OneCallPerWorker, IInv, RowsInv

LEMMA SpecInv == ASSUME M!MediaAssumption PROVE M!Spec => []IInv
  <1>1. M!Init => IInv
    BY InitInv
  <1>2. IInv /\ [M!Next]_M!vars => IInv'
    BY NextInv
  <1> QED BY <1>1, <1>2, PTL DEF M!Spec

\* Types, and the lines: each worker's semaphore lists its living tasks, once each.
THEOREM MediaTyped == ASSUME M!MediaAssumption PROVE M!Spec => []M!TypeOK
  <1>1. IInv => M!TypeOK
    BY InvImplies
  <1> QED BY <1>1, SpecInv, PTL

\* However many jobs, pictures, workers, stops and restarts: a worker has one call to a
\* bridged backend out at most, a picture job that lives is never closed as abandoned,
\* and what was made stays listed in its row (src/app/media.py, _slot, _heartbeat,
\* _reap_stale, cancel_job).
THEOREM JobRowsAreTrue == ASSUME M!MediaAssumption PROVE M!Spec => []M!JobRowIsTrue
  <1>1. IInv => M!JobRowIsTrue
    BY InvImplies
  <1> QED BY <1>1, SpecInv, PTL

\* What a job has made is never taken back: its row's count of files never falls,
\* whoever writes the row last (_update has no condition on the state, media.py:389-395).
THEOREM FilesOnlyGrow ==
    ASSUME M!MediaAssumption
    PROVE  M!Spec => [][\A j \in Jobs : row[j].files <= row'[j].files]_row
  <1> DEFINE Grow == \A j \in Jobs : row[j].files <= row'[j].files
  <1>1. IInv /\ IInv' /\ [M!Next]_M!vars => [Grow]_row
    <2> SUFFICES ASSUME IInv, IInv', [M!Next]_M!vars PROVE Grow
      OBVIOUS
    <2>1. \A j \in Jobs : row[j].files = made[j] /\ row'[j].files = made'[j]
      BY DEF IInv, RowsInv, M!MadeIsListed
    <2>2. made \in [Jobs -> Nat]
      BY DEF IInv, RowsInv
    <2>3. \A j \in Jobs : made[j] <= made'[j]
      <3>1. ASSUME NEW j \in Jobs, M!Made(j)
            PROVE  \A k \in Jobs : made[k] <= made'[k]
        BY <2>2, <3>1 DEF M!Made
      <3>2. made' = made => \A k \in Jobs : made[k] <= made'[k]
        BY <2>2
      <3>3. UNCHANGED made \/ \E j \in Jobs : M!Made(j)
        BY DEF M!Next, M!Work, M!Take, M!SeesNobody, M!Begin, M!Fail, M!Quiet, M!Look,
             M!Create, M!Cancel, M!Crash, M!vars
      <3> QED BY <3>1, <3>2, <3>3
    <2> QED BY <2>1, <2>3
  <1> QED BY <1>1, SpecInv, PTL DEF M!Spec

-----------------------------------------------------------------------------
\* The three machines side by side.

LEMMA GatherSteps == MCSpec => G!Spec
  <1>1. MCInit => G!Init
    BY DEF MCInit
  <1>2. [MCNext]_<<machine, gVars, bVars, mVars>> => [G!Next]_G!vars
    BY DEF MCNext, gVars, G!vars
  <1> QED BY <1>1, <1>2, PTL DEF MCSpec, G!Spec

LEMMA BridgeSteps == MCSpec => B!Spec
  <1>1. MCInit => B!Init
    BY DEF MCInit
  <1>2. [MCNext]_<<machine, gVars, bVars, mVars>> => [B!Next]_B!vars
    BY DEF MCNext, bVars, B!vars
  <1> QED BY <1>1, <1>2, PTL DEF MCSpec, B!Spec

LEMMA MediaSteps == MCSpec => M!Spec
  <1>1. MCInit => M!Init
    BY DEF MCInit
  <1>2. [MCNext]_<<machine, gVars, bVars, mVars>> => [M!Next]_M!vars
    BY DEF MCNext, mVars, M!vars
  <1> QED BY <1>1, <1>2, PTL DEF MCSpec, M!Spec

-----------------------------------------------------------------------------

\* The state of every machine has its types, whichever of them moves.
THEOREM CallsTyped == MCSpec => []TypeOK
  <1>1. G!Spec => []G!TypeOK
    BY G!GatheringTyped, CallsAssumption
  <1>2. B!Spec => []B!TypeOK
    <2>1. B!BridgeAssumption
      BY CallsAssumption
    <2> QED BY <2>1, SlotHolds, PTL
  <1>3. M!Spec => []M!TypeOK
    BY MediaTyped, CallsAssumption
  <1>4. G!TypeOK /\ B!TypeOK /\ M!TypeOK => TypeOK
    BY DEF TypeOK
  <1> QED BY <1>1, <1>2, <1>3, <1>4, GatherSteps, BridgeSteps, MediaSteps, PTL

\* A run of a collection keeps what it collected and crosses off only what was read
\* (src/app/main.py, _collect_items).
THEOREM CallsKeepHarvest == MCSpec => []HarvestIsKept
  <1>1. G!Spec => []G!HarvestIsKept
    BY G!HarvestKept, CallsAssumption
  <1>2. G!HarvestIsKept => HarvestIsKept
    BY DEF HarvestIsKept
  <1> QED BY <1>1, <1>2, GatherSteps, PTL

\* A call can be seen and stopped as long as it runs (src/app/ai_inflight.py), and a
\* stopped collection calls for nothing more.
THEOREM CallsStop == MCSpec => StopReachesTheCall
  <1>1. G!Spec => G!StopReachesTheCall
    BY G!StopReachesCall, CallsAssumption
  <1> QED BY <1>1, GatherSteps, PTL DEF StopReachesTheCall

\* The CLI of the bridge runs alone (src/bridge/cli_bridge.py, cli_slot).
THEOREM CallsRunCliAlone == MCSpec => []CliIsAlone
  <1>1. B!Spec => []B!CliIsAlone
    BY CliRunsAlone, CallsAssumption
  <1>2. B!CliIsAlone => CliIsAlone
    BY DEF CliIsAlone
  <1> QED BY <1>1, <1>2, BridgeSteps, PTL

\* The row of a media job says what became of it (src/app/media.py).
THEOREM CallsKeepRowsTrue == MCSpec => []JobRowIsTrue
  <1>1. M!Spec => []M!JobRowIsTrue
    BY JobRowsAreTrue, CallsAssumption
  <1>2. M!JobRowIsTrue => JobRowIsTrue
    BY DEF JobRowIsTrue
  <1> QED BY <1>1, <1>2, MediaSteps, PTL

================================================================================
