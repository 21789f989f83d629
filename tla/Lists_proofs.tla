------------------------------ MODULE Lists_proofs -----------------------------
(***************************************************************************)
(* Facts about lists and about filtering one, whatever it holds.            *)
(***************************************************************************)
EXTENDS Lists, SequenceTheorems, WellFoundedInduction, TLAPS

\* A set of natural numbers that is not empty has a least one: what stands here for
\* induction, whose theorems take an operator.
LEMMA LeastOf ==
    ASSUME NEW T \in SUBSET Nat, T # {}
    PROVE  \E n \in T : \A m \in T : n <= m
  <1>1. \E R : IsWellFoundedOn(R, Nat) /\ \A a, b \in Nat : a < b => <<a, b>> \in R
    <2>1. \A a, b \in Nat : a < b => <<a, b>> \in OpToRel(<, Nat)
      BY DEF OpToRel
    <2> QED BY <2>1, NatLessThanWellFounded
  <1>2. PICK R : IsWellFoundedOn(R, Nat) /\ \A a, b \in Nat : a < b => <<a, b>> \in R
    BY <1>1
  <1>3. \E n \in T : \A m \in T : ~(<<m, n>> \in R)
    <2>1. IsWellFoundedOn(R, Nat) /\ T \subseteq Nat
      BY <1>2
    <2> QED BY <2>1, WFMin
  <1>4. \A m, n \in Nat : ~(m < n) => n <= m
    OBVIOUS
  <1> QED BY <1>2, <1>3, <1>4

\* A set that holds 0 and with each number the next one up to n holds n.
LEMMA UpTo ==
    ASSUME NEW n \in Nat, NEW P \in SUBSET Nat, 0 \in P,
           \A i \in 1..n : i - 1 \in P => i \in P
    PROVE  \A i \in 0..n : i \in P
  <1> SUFFICES ASSUME NEW i \in 0..n, i \notin P PROVE FALSE
    OBVIOUS
  <1> DEFINE T == {j \in 0..n : j \notin P}
  <1>1. T \in SUBSET Nat /\ T # {}
    OBVIOUS
  <1>2. PICK m \in T : \A j \in T : m <= j
    BY <1>1, LeastOf
  <1>3. m \in 1..n /\ m - 1 \notin T /\ m - 1 \in 0..n
    BY <1>2
  <1> QED BY <1>2, <1>3

\* The steps of Kept, as a function that exists.
KeepNext(q, S, f, i) ==
    IF i = 0 THEN <<>> ELSE IF q[i] \in S THEN Append(f[i - 1], q[i]) ELSE f[i - 1]

LEMMA StepsExist ==
    ASSUME NEW q, NEW S, Len(q) \in Nat
    PROVE  \E f : f = [i \in 0..Len(q) |-> KeepNext(q, S, f, i)]
  <1> DEFINE Goes(n, f) == DOMAIN f = 0..n /\ \A i \in 0..n : f[i] = KeepNext(q, S, f, i)
             P == {n \in Nat : \E f : Goes(n, f)}
  <1>1. 0 \in P
    <2> DEFINE f == [i \in 0..0 |-> <<>>]
    <2>1. Goes(0, f)
      BY DEF KeepNext
    <2> QED BY <2>1
  <1>2. ASSUME NEW n \in 1..Len(q), n - 1 \in P PROVE n \in P
    <2>1. PICK f : Goes(n - 1, f)
      BY <1>2
    <2> DEFINE last == KeepNext(q, S, f, n)
               g == [i \in 0..n |-> IF i = n THEN last ELSE f[i]]
    <2>2. \A i \in 0..(n - 1) : g[i] = f[i]
      OBVIOUS
    <2>3. g[n] = last
      OBVIOUS
    <2>4. KeepNext(q, S, g, n) = last
      BY <2>2 DEF KeepNext
    <2>5. ASSUME NEW i \in 0..(n - 1) PROVE g[i] = KeepNext(q, S, g, i)
      <3>1. f[i] = KeepNext(q, S, f, i)
        BY <2>1
      <3>2. i # 0 => i - 1 \in 0..(n - 1)
        OBVIOUS
      <3> HIDE DEF g
      <3> QED BY <2>2, <3>1, <3>2 DEF KeepNext
    <2>6. DOMAIN g = 0..n /\ \A i \in 0..n : i = n \/ i \in 0..(n - 1)
      OBVIOUS
    <2> HIDE DEF g, last
    <2>7. Goes(n, g)
      BY <2>3, <2>4, <2>5, <2>6
    <2> QED BY <2>7
  <1> HIDE DEF P
  <1>3. Len(q) \in P
    <2>1. P \in SUBSET Nat
      BY DEF P
    <2>2. \A n \in 1..Len(q) : n - 1 \in P => n \in P
      BY <1>2
    <2>3. \A n \in 0..Len(q) : n \in P
      BY <1>1, <2>1, <2>2, UpTo
    <2> QED BY <2>3
  <1>4. PICK f : Goes(Len(q), f)
    BY <1>3 DEF P
  <1> QED BY <1>4

\* The steps of Kept, one by one.
LEMMA KeptSteps ==
    ASSUME NEW A, NEW q \in Seq(A), NEW S
    PROVE  \E f : /\ Kept(q, S) = f[Len(q)]
                  /\ \A i \in 0..Len(q) : f[i] = KeepNext(q, S, f, i)
  <1> DEFINE f == CHOOSE f : f = [i \in 0..Len(q) |-> KeepNext(q, S, f, i)]
  <1>1. f = [i \in 0..Len(q) |-> KeepNext(q, S, f, i)]
    <2>1. Len(q) \in Nat
      OBVIOUS
    <2> QED BY <2>1, StepsExist
  <1>2. Kept(q, S) = f[Len(q)]
    BY DEF Kept, KeepNext
  <1> HIDE DEF f
  <1>3. \A i \in 0..Len(q) : f[i] = KeepNext(q, S, f, i)
    BY <1>1
  <1> QED BY <1>2, <1>3

Members(q) == {q[i] : i \in 1..Len(q)}

Distinct(q) == \A i, j \in 1..Len(q) : q[i] = q[j] => i = j

\* What is kept is what there was of S, and nothing twice that was not there twice.
LEMMA KeptShape ==
    ASSUME NEW A, NEW q \in Seq(A), NEW S
    PROVE  /\ Kept(q, S) \in Seq(A)
           /\ Members(Kept(q, S)) = Members(q) \cap S
           /\ Distinct(q) => Distinct(Kept(q, S))
           /\ Len(Kept(q, S)) <= Len(q)
  <1>1. PICK f : /\ Kept(q, S) = f[Len(q)]
                 /\ \A i \in 0..Len(q) : f[i] = KeepNext(q, S, f, i)
    BY KeptSteps
  <1> DEFINE First(i) == {q[j] : j \in 1..i}
             P == {i \in 0..Len(q) : /\ f[i] \in Seq(A)
                                     /\ Members(f[i]) = First(i) \cap S
                                     /\ Distinct(q) => Distinct(f[i])
                                     /\ Len(f[i]) <= i}
  <1>l. Len(q) \in Nat /\ \A i \in 1..Len(q) : q[i] \in A
    OBVIOUS
  <1>2. 0 \in P
    <2>1. f[0] = <<>>
      BY <1>1, <1>l DEF KeepNext
    <2>2. First(0) = {} /\ Members(<<>>) = {} /\ Distinct(<<>>)
      BY DEF Members, Distinct
    <2>3. <<>> \in Seq(A) /\ Len(<<>>) <= 0 /\ 0 \in 0..Len(q)
      BY <1>l
    <2> HIDE DEF First
    <2> QED BY <2>1, <2>2, <2>3
  <1>3. ASSUME NEW i \in 1..Len(q), i - 1 \in P PROVE i \in P
    <2> DEFINE g == f[i - 1]
    <2>1. /\ g \in Seq(A) /\ Members(g) = First(i - 1) \cap S
          /\ Distinct(q) => Distinct(g)
          /\ Len(g) <= i - 1
      BY <1>3
    <2>2. First(i) = First(i - 1) \cup {q[i]}
      <3>1. 1..i = 1..(i - 1) \cup {i}
        OBVIOUS
      <3> QED BY <3>1
    <2>3. f[i] = IF q[i] \in S THEN Append(g, q[i]) ELSE g
      BY <1>1 DEF KeepNext
    <2>4. CASE q[i] \notin S
      <3>1. First(i) \cap S = First(i - 1) \cap S
        BY <2>2, <2>4
      <3>2. f[i] = g
        BY <2>3, <2>4
      <3> HIDE DEF g
      <3> QED BY <2>1, <3>1, <3>2
    <2>5. CASE q[i] \in S
      <3>1. f[i] = Append(g, q[i])
        BY <2>3, <2>5
      <3> HIDE DEF g
      <3>2. /\ Append(g, q[i]) \in Seq(A) /\ Len(Append(g, q[i])) = Len(g) + 1
            /\ Append(g, q[i])[Len(g) + 1] = q[i]
            /\ \A j \in 1..Len(g) : Append(g, q[i])[j] = g[j]
        BY <1>l, <2>1
      <3>3. Members(Append(g, q[i])) = Members(g) \cup {q[i]}
        <4>1. 1..(Len(g) + 1) = 1..Len(g) \cup {Len(g) + 1}
          BY <2>1
        <4> QED BY <3>2, <4>1 DEF Members
      <3>4. First(i) \cap S = (First(i - 1) \cap S) \cup {q[i]}
        BY <2>2, <2>5
      <3>5. Distinct(q) => Distinct(Append(g, q[i]))
        <4> SUFFICES ASSUME Distinct(q) PROVE Distinct(Append(g, q[i]))
          OBVIOUS
        <4>1. \A j \in 1..(i - 1) : q[j] # q[i]
          BY DEF Distinct
        <4>2. q[i] \notin Members(g)
          BY <2>1, <4>1
        <4>3. Distinct(g)
          BY <2>1
        <4>4. \A j \in 1..Len(g) : g[j] # q[i]
          BY <4>2 DEF Members
        <4>5. Len(g) \in Nat
          BY <2>1
        <4> HIDE DEF First
        <4> QED BY <3>2, <4>3, <4>4, <4>5 DEF Distinct
      <3>6. Len(f[i]) <= i
        BY <2>1, <3>1, <3>2
      <3>7. i \in 0..Len(q) /\ Members(f[i]) = First(i) \cap S
        BY <2>1, <3>1, <3>3, <3>4
      <3> HIDE DEF First
      <3> QED BY <3>1, <3>2, <3>5, <3>6, <3>7
    <2> QED BY <2>4, <2>5
  <1>4. Len(q) \in P
    <2>1. P \in SUBSET Nat /\ Len(q) \in 0..Len(q)
      OBVIOUS
    <2> HIDE DEF P
    <2>2. \A i \in 1..Len(q) : i - 1 \in P => i \in P
      BY <1>3
    <2> QED BY <1>l, <1>2, <2>1, <2>2, UpTo
  <1>5. First(Len(q)) = Members(q)
    BY DEF Members
  <1> QED BY <1>1, <1>4, <1>5

-----------------------------------------------------------------------------
\* The same facts of a list with one more element, and of two lists joined.

LEMMA Appended ==
    ASSUME NEW A, NEW q \in Seq(A), NEW e \in A
    PROVE  /\ Append(q, e) \in Seq(A) /\ Len(Append(q, e)) = Len(q) + 1
           /\ Members(Append(q, e)) = Members(q) \cup {e}
           /\ Distinct(q) /\ e \notin Members(q) => Distinct(Append(q, e))
  <1>1. /\ Append(q, e) \in Seq(A) /\ Len(Append(q, e)) = Len(q) + 1
        /\ Append(q, e)[Len(q) + 1] = e
        /\ \A i \in 1..Len(q) : Append(q, e)[i] = q[i]
    OBVIOUS
  <1> DEFINE n == Len(q)
             a == Append(q, e)
  <1>2. n \in Nat /\ 1..(n + 1) = 1..n \cup {n + 1} /\ n + 1 \notin 1..n
    OBVIOUS
  <1>3. Len(a) = n + 1 /\ a[n + 1] = e /\ \A i \in 1..n : a[i] = q[i]
    BY <1>1
  <1> HIDE DEF a
  <1>4. Members(a) = Members(q) \cup {e}
    BY <1>2, <1>3 DEF Members
  <1>5. ASSUME Distinct(q), e \notin Members(q) PROVE Distinct(a)
    <2>1. \A i \in 1..n : q[i] # e
      BY <1>5 DEF Members
    <2>2. \A i, j \in 1..n : q[i] = q[j] => i = j
      BY <1>5 DEF Distinct
    <2>3. \A i, j \in 1..(n + 1) : a[i] = a[j] => i = j
      BY <1>2, <1>3, <2>1, <2>2
    <2> QED BY <1>3, <2>3 DEF Distinct
  <1> QED BY <1>1, <1>4, <1>5 DEF a

LEMMA Joined ==
    ASSUME NEW A, NEW b \in Seq(A), NEW l \in Seq(A)
    PROVE  /\ b \o l \in Seq(A)
           /\ Members(b \o l) = Members(b) \cup Members(l)
           /\ Distinct(b) /\ Distinct(l) /\ Members(b) \cap Members(l) = {}
                 => Distinct(b \o l)
  <1> DEFINE a == b \o l
             m == Len(b)
             n == Len(l)
  <1>1. /\ a \in Seq(A) /\ Len(a) = m + n
        /\ \A i \in 1..(m + n) : a[i] = IF i <= m THEN b[i] ELSE l[i - m]
    BY ConcatProperties
  <1>2. m \in Nat /\ n \in Nat
    OBVIOUS
  <1> HIDE DEF a, m, n
  <1>3. \A i \in 1..m : i \in 1..(m + n) /\ a[i] = b[i]
    BY <1>1, <1>2
  <1>4. \A i \in 1..n : m + i \in 1..(m + n) /\ a[m + i] = l[i]
    BY <1>1, <1>2
  <1>5. \A i \in 1..(m + n) : (i \in 1..m \/ i - m \in 1..n) /\ i = m + (i - m)
    BY <1>2
  <1>6. Members(a) = Members(b) \cup Members(l)
    <2>1. Members(a) = {a[i] : i \in 1..(m + n)}
      BY <1>1 DEF Members
    <2>2. Members(b) = {b[i] : i \in 1..m} /\ Members(l) = {l[i] : i \in 1..n}
      BY DEF Members, m, n
    <2>3. \A i \in 1..(m + n) : a[i] \in Members(b) \cup Members(l)
      BY <1>3, <1>4, <1>5, <2>2
    <2>4. \A i \in 1..m : b[i] \in Members(a)
      BY <1>3, <2>1
    <2>5. \A i \in 1..n : l[i] \in Members(a)
      BY <1>4, <2>1
    <2> QED BY <2>1, <2>2, <2>3, <2>4, <2>5
  <1>7. ASSUME Distinct(b), Distinct(l), Members(b) \cap Members(l) = {}
        PROVE  Distinct(a)
    <2>1. \A i \in 1..m : \A j \in 1..n : b[i] # l[j]
      BY <1>7 DEF Members, m, n
    <2>2. \A i, j \in 1..m : b[i] = b[j] => i = j
      BY <1>7 DEF Distinct, m
    <2>3. \A i, j \in 1..n : l[i] = l[j] => i = j
      BY <1>7 DEF Distinct, n
    <2> SUFFICES ASSUME NEW i \in 1..(m + n), NEW j \in 1..(m + n), a[i] = a[j] PROVE i = j
      BY <1>1 DEF Distinct
    <2>4. CASE i \in 1..m /\ j \in 1..m
      BY <1>3, <2>2, <2>4
    <2>5. CASE i \in 1..m /\ j - m \in 1..n
      BY <1>3, <1>4, <1>5, <2>1, <2>5
    <2>6. CASE i - m \in 1..n /\ j \in 1..m
      BY <1>3, <1>4, <1>5, <2>1, <2>6
    <2>7. CASE i - m \in 1..n /\ j - m \in 1..n
      <3>1. a[i] = l[i - m] /\ a[j] = l[j - m]
        <4>1. m + (i - m) = i /\ m + (j - m) = j
          BY <1>2
        <4> QED BY <1>4, <2>7, <4>1
      <3>2. i - m = j - m
        BY <2>3, <2>7, <3>1
      <3> QED BY <1>2, <3>2
    <2> QED BY <1>5, <2>4, <2>5, <2>6, <2>7
  <1> QED BY <1>1, <1>6, <1>7 DEF a

====
