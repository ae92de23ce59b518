----------------------------- MODULE DataLemmas -----------------------------
(***************************************************************************)
(* Lemmas about the data of the other modules: induction on numbers, with  *)
(* a set in the place of a predicate; functions defined by recursion, and  *)
(* with them FlattenSeq; Min and Max; concatenation.                       *)
(***************************************************************************)
EXTENDS Integers, Sequences, SequencesExt, SequenceTheorems, WellFoundedInduction, TLAPS

(* A set of numbers has a least one, ...                                   *)
LEMMA LeastNumber ==
  ASSUME NEW S \in SUBSET Nat, S # {}
  PROVE  \E m \in S : \A k \in S : m <= k
<1> DEFINE Less == OpToRel(<, Nat)
<1>1. IsWellFoundedOn(Less, Nat)
  BY NatLessThanWellFounded
<1>2. PICK m \in S : \A k \in S : ~(<<k, m>> \in Less)
  <2>1. S \subseteq Nat
    OBVIOUS
  <2> HIDE DEF Less
  <2> QED
    BY <1>1, <2>1, WFMin
<1>3. \A k \in S : k < m => <<k, m>> \in Less
  BY <1>2 DEF OpToRel
<1> HIDE DEF Less
<1>4. \A k \in S : ~(k < m) /\ k \in Nat /\ m \in Nat
  BY <1>2, <1>3
<1> QED
  BY <1>4

(* ... so that one that has 0 and with every number the next has all.      *)
LEMMA Induction ==
  ASSUME NEW T, 0 \in T, \A n \in Nat : n \in T => n + 1 \in T
  PROVE  \A n \in Nat : n \in T
<1> DEFINE Others == {n \in Nat : n \notin T}
<1> SUFFICES ASSUME Others # {} PROVE FALSE
  OBVIOUS
<1>1. PICK m \in Others : \A k \in Others : m <= k
  BY LeastNumber
<1>2. m \in Nat /\ m \notin T /\ m # 0
  BY <1>1
<1>3. m - 1 \in Nat /\ (m - 1) + 1 = m /\ ~(m <= m - 1)
  BY <1>2
<1>4. m - 1 \notin T
  BY <1>2, <1>3
<1> QED
  BY <1>1, <1>3, <1>4

(* The same from 1 up to a bound.                                          *)
LEMMA InductionUpTo ==
  ASSUME NEW n \in Nat, NEW T, 1 \in T, \A i \in 1..(n - 1) : i \in T => i + 1 \in T
  PROVE  \A i \in 1..n : i \in T
<1> DEFINE U == {m \in Nat : m + 1 \in T \/ m + 1 > n}
<1>1. 0 \in U
  OBVIOUS
<1>2. \A m \in Nat : m \in U => m + 1 \in U
  <2> SUFFICES ASSUME NEW m \in Nat, m \in U, ~(m + 2 > n) PROVE m + 2 \in T
    OBVIOUS
  <2>1. m + 1 \in 1..(n - 1) /\ m + 1 \in T /\ (m + 1) + 1 = m + 2
    OBVIOUS
  <2> QED
    BY <2>1
<1>3. \A m \in Nat : m \in U
  <2> HIDE DEF U
  <2> QED
    BY <1>1, <1>2, Induction
<1>4. \A i \in 1..n : i - 1 \in Nat /\ (i - 1) + 1 = i /\ ~((i - 1) + 1 > n)
  OBVIOUS
<1> QED
  BY <1>3, <1>4

LEMMA MinIsLeast ==
  ASSUME NEW S \in SUBSET Nat, S # {}
  PROVE  Min(S) \in S /\ \A k \in S : Min(S) <= k
BY LeastNumber DEF Min

LEMMA MaxIsGreatest ==
  ASSUME NEW n \in Nat, NEW S \in SUBSET (0..n), S # {}
  PROVE  Max(S) \in S /\ \A k \in S : k <= Max(S)
<1> DEFINE Above == {m \in Nat : \A k \in S : k <= m}
<1>1. n \in Above
  OBVIOUS
<1>2. PICK m \in Above : \A k \in Above : m <= k
  BY <1>1, LeastNumber
<1>3. m \in S
  <2> SUFFICES ASSUME m \notin S PROVE FALSE
    OBVIOUS
  <2>1. PICK k \in S : TRUE
    OBVIOUS
  <2>2. k \in Nat /\ k <= m /\ k # m
    BY <2>1, <1>2
  <2>3. m - 1 \in Nat
    BY <2>2, <1>2
  <2>4. m - 1 \in Above
    BY <2>3, <1>2
  <2> QED
    BY <2>4, <1>2
<1>4. \A k \in S : m >= k
  BY <1>2
<1> QED
  BY <1>3, <1>4 DEF Max

(* The greatest is the one that is in the set and has none above.          *)
LEMMA MaxIsThat ==
  ASSUME NEW n \in Nat, NEW S \in SUBSET (0..n), NEW m \in S, \A k \in S : k <= m
  PROVE  Max(S) = m
<1>1. Max(S) \in S /\ \A k \in S : k <= Max(S)
  BY MaxIsGreatest
<1>2. m <= Max(S) /\ Max(S) <= m
  BY <1>1
<1>3. S \subseteq Int
  OBVIOUS
<1>4. m \in Int /\ Max(S) \in Int
  BY <1>1, <1>3
<1> QED
  BY <1>2, <1>4

LEMMA MinIsThat ==
  ASSUME NEW S \in SUBSET Nat, NEW m \in S, \A k \in S : m <= k
  PROVE  Min(S) = m
<1>1. Min(S) \in S /\ \A k \in S : Min(S) <= k
  BY MinIsLeast
<1>2. m <= Min(S) /\ Min(S) <= m
  BY <1>1
<1>3. m \in Nat /\ Min(S) \in Nat
  BY <1>1
<1> QED
  BY <1>2, <1>3

-----------------------------------------------------------------------------
(* FlattenSeq, step by step.                                               *)
Joins(g, seqs, n) == g = [i \in 1..n |-> IF i = 1 THEN seqs[i] ELSE g[i - 1] \o seqs[i]]

LEMMA JoinsExist ==
  ASSUME NEW seqs, NEW n \in Nat
  PROVE  \E g : Joins(g, seqs, n)
<1> DEFINE T == {m \in Nat : \E g : Joins(g, seqs, m)}
<1>1. 0 \in T
  <2>1. Joins([i \in 1..0 |-> 0], seqs, 0)
    BY DEF Joins
  <2> QED
    BY <2>1
<1>2. ASSUME NEW m \in Nat, NEW g, Joins(g, seqs, m)
      PROVE  \E h : Joins(h, seqs, m + 1)
  <2> DEFINE Value(i) == IF i = 1 THEN seqs[i] ELSE g[i - 1] \o seqs[i]
             h == [i \in 1..(m + 1) |-> Value(i)]
  <2>1. \A i \in 1..m : g[i] = IF i = 1 THEN seqs[i] ELSE g[i - 1] \o seqs[i]
    BY <1>2 DEF Joins
  <2>2. \A i \in 1..m : h[i] = g[i]
    BY <2>1
  <2>3. \A i \in 1..(m + 1) : i # 1 => i - 1 \in 1..m
    OBVIOUS
  <2>4. \A i \in 1..(m + 1) : Value(i) = IF i = 1 THEN seqs[i] ELSE h[i - 1] \o seqs[i]
    BY <2>2, <2>3
  <2>5. h = [i \in 1..(m + 1) |-> IF i = 1 THEN seqs[i] ELSE h[i - 1] \o seqs[i]]
    <3> HIDE DEF Value
    <3> SUFFICES h = [i \in 1..(m + 1) |-> Value(i)]
      BY <2>4
    <3> QED
      OBVIOUS
  <2> HIDE DEF h
  <2> QED
    BY <2>5 DEF Joins
<1>3. \A m \in Nat : m \in T => m + 1 \in T
  BY <1>2
<1> HIDE DEF T
<1>4. n \in T
  BY <1>1, <1>3, Induction
<1> QED
  BY <1>4 DEF T

(* Joined(seqs)[i] is the first i of the sequences in one.                 *)
Joined(seqs) == CHOOSE g : Joins(g, seqs, Len(seqs))

LEMMA JoinedSteps ==
  ASSUME NEW S, NEW seqs \in Seq(S)
  PROVE  /\ DOMAIN Joined(seqs) = 1..Len(seqs)
         /\ Len(seqs) > 0 => Joined(seqs)[1] = seqs[1]
         /\ \A i \in 1..(Len(seqs) - 1) : Joined(seqs)[i + 1] = Joined(seqs)[i] \o seqs[i + 1]
         /\ FlattenSeq(seqs) = IF Len(seqs) = 0 THEN <<>> ELSE Joined(seqs)[Len(seqs)]
<1> DEFINE g == Joined(seqs)
           n == Len(seqs)
<1>1. n \in Nat
  BY LenProperties
<1>2. Joins(g, seqs, n)
  BY <1>1, JoinsExist DEF Joined
<1>3. FlattenSeq(seqs) = IF n = 0 THEN seqs ELSE g[n]
  BY DEF FlattenSeq, Joined, Joins
<1>4. n = 0 => seqs = <<>>
  BY EmptySeq
<1> HIDE DEF g
<1>5. g = [i \in 1..n |-> IF i = 1 THEN seqs[i] ELSE g[i - 1] \o seqs[i]]
  BY <1>2 DEF Joins
<1>6. DOMAIN g = 1..n
  BY <1>5
<1>7. \A i \in 1..n : g[i] = IF i = 1 THEN seqs[i] ELSE g[i - 1] \o seqs[i]
  BY <1>5
<1>8. n > 0 => 1 \in 1..n
  BY <1>1
<1>9. \A i \in 1..(n - 1) : i + 1 \in 1..n /\ i + 1 # 1 /\ (i + 1) - 1 = i
  BY <1>1
<1> HIDE DEF n
<1>10. \A i \in 1..(n - 1) : g[i + 1] = g[i] \o seqs[i + 1]
  BY <1>7, <1>9
<1>11. n > 0 => g[1] = seqs[1]
  BY <1>7, <1>8
<1> QED
  BY <1>3, <1>4, <1>6, <1>10, <1>11 DEF g, n

(* What each of the parts is, and concatenation keeps, is the whole.       *)
LEMMA FlattenKeeps ==
  ASSUME NEW S, NEW seqs \in Seq(S), NEW T, <<>> \in T,
         \A i \in 1..Len(seqs) : seqs[i] \in T, \A s, t \in T : s \o t \in T
  PROVE  /\ \A i \in 1..Len(seqs) : Joined(seqs)[i] \in T
         /\ FlattenSeq(seqs) \in T
<1> DEFINE n == Len(seqs)
           g == Joined(seqs)
           U == {i \in Nat : i > n \/ g[i] \in T}
<1>1. /\ n \in Nat
      /\ n > 0 => g[1] = seqs[1]
      /\ \A i \in 1..(n - 1) : g[i + 1] = g[i] \o seqs[i + 1]
      /\ FlattenSeq(seqs) = IF n = 0 THEN <<>> ELSE g[n]
      /\ \A i \in 1..n : seqs[i] \in T
  BY JoinedSteps, LenProperties
<1> HIDE DEF n, g
<1>2. 1 \in U
  BY <1>1
<1>3. \A i \in 1..(n - 1) : i \in U => i + 1 \in U
  <2> SUFFICES ASSUME NEW i \in 1..(n - 1), g[i] \in T PROVE g[i + 1] \in T
    BY <1>1
  <2>1. i + 1 \in 1..n
    BY <1>1
  <2> QED
    BY <2>1, <1>1
<1>4. \A i \in 1..n : i \in U
  <2> HIDE DEF U
  <2> QED
    BY <1>1, <1>2, <1>3, InductionUpTo
<1>5. \A i \in 1..n : g[i] \in T
  BY <1>1, <1>4
<1>6. n # 0 => n \in 1..n
  BY <1>1
<1> QED
  BY <1>1, <1>5, <1>6 DEF n, g

LEMMA FlattenTyped ==
  ASSUME NEW S, NEW seqs \in Seq(Seq(S))
  PROVE  /\ FlattenSeq(seqs) \in Seq(S)
         /\ \A i \in 1..Len(seqs) : Joined(seqs)[i] \in Seq(S)
<1> DEFINE T == Seq(S)
<1>1. <<>> \in T /\ \A s, t \in T : s \o t \in T
  BY EmptySeq, ConcatProperties
<1>2. \A i \in 1..Len(seqs) : seqs[i] \in T
  BY ElementOfSeq
<1> HIDE DEF T
<1>3. seqs \in Seq(T)
  BY DEF T
<1> QED
  BY <1>1, <1>2, <1>3, FlattenKeeps DEF T

LEMMA FlattenOneMore ==
  ASSUME NEW S, NEW seqs \in Seq(Seq(S)), NEW part \in Seq(S)
  PROVE  FlattenSeq(Append(seqs, part)) = FlattenSeq(seqs) \o part
<1> DEFINE T == Seq(S)
           more == Append(seqs, part)
           n == Len(seqs)
           g == Joined(seqs)
           h == Joined(more)
           U == {i \in Nat : i > n \/ h[i] = g[i]}
<1>1. /\ n \in Nat /\ more \in Seq(T) /\ Len(more) = n + 1 /\ more[n + 1] = part
      /\ \A i \in 1..n : more[i] = seqs[i]
  BY AppendProperties, LenProperties
<1>2. /\ n > 0 => g[1] = seqs[1]
      /\ \A i \in 1..(n - 1) : g[i + 1] = g[i] \o seqs[i + 1]
      /\ FlattenSeq(seqs) = IF n = 0 THEN <<>> ELSE g[n]
  BY JoinedSteps
<1> HIDE DEF more, T, n
<1>3. /\ Len(more) > 0 => h[1] = more[1]
      /\ \A i \in 1..(Len(more) - 1) : h[i + 1] = h[i] \o more[i + 1]
      /\ FlattenSeq(more) = IF Len(more) = 0 THEN <<>> ELSE h[Len(more)]
  BY <1>1, JoinedSteps
<1> HIDE DEF g, h
<1>4. n + 1 > 0 /\ n + 1 # 0 /\ (n + 1) - 1 = n
  BY <1>1
<1>5. /\ h[1] = more[1] /\ FlattenSeq(more) = h[n + 1]
      /\ \A i \in 1..n : h[i + 1] = h[i] \o more[i + 1]
  BY <1>1, <1>3, <1>4
<1>6. CASE n = 0
  <2>1. FlattenSeq(more) = part /\ FlattenSeq(seqs) = <<>>
    BY <1>1, <1>2, <1>5, <1>6
  <2>2. <<>> \o part = part
    BY ConcatEmptySeq
  <2> QED
    BY <2>1, <2>2 DEF more
<1>7. CASE n > 0
  <2>1. 1 \in 1..n /\ n \in 1..n /\ \A i \in 1..(n - 1) : i \in 1..n /\ i + 1 \in 1..n
    BY <1>1, <1>7
  <2>2. 1 \in U
    BY <1>1, <1>2, <1>5, <1>7, <2>1
  <2>3. \A i \in 1..(n - 1) : i \in U => i + 1 \in U
    <3> SUFFICES ASSUME NEW i \in 1..(n - 1), h[i] = g[i] PROVE h[i + 1] = g[i + 1]
      BY <1>1
    <3> QED
      BY <1>1, <1>2, <1>5, <2>1
  <2>4. \A i \in 1..n : i \in U
    <3> HIDE DEF U
    <3> QED
      BY <1>1, <2>2, <2>3, InductionUpTo
  <2>5. h[n] = g[n]
    BY <1>1, <2>1, <2>4
  <2>6. FlattenSeq(seqs) = g[n]
    BY <1>1, <1>2, <1>7
  <2>7. FlattenSeq(more) = h[n] \o more[n + 1]
    BY <1>5, <2>1
  <2> QED
    BY <1>1, <2>5, <2>6, <2>7 DEF more
<1>8. n = 0 \/ n > 0
  BY <1>1
<1> QED
  BY <1>6, <1>7, <1>8 DEF more

(* The same of a list that is read up to some place.                       *)
LEMMA FlattenUpTo ==
  ASSUME NEW S, NEW n \in Nat, NEW list, \A i \in 1..(n + 1) : list[i] \in Seq(S)
  PROVE  /\ FlattenSeq([i \in 1..n |-> list[i]]) \in Seq(S)
         /\ FlattenSeq([i \in 1..(n + 1) |-> list[i]])
              = FlattenSeq([i \in 1..n |-> list[i]]) \o list[n + 1]
<1> DEFINE T == Seq(S)
           short == [i \in 1..n |-> list[i]]
           long  == [i \in 1..(n + 1) |-> list[i]]
<1>1. \A i \in 1..(n + 1) : list[i] \in T
  OBVIOUS
<1>2. n + 1 \in 1..(n + 1) /\ \A i \in 1..n : i \in 1..(n + 1)
  OBVIOUS
<1> HIDE DEF T
<1>3. short \in Seq(T) /\ Len(short) = n /\ long \in Seq(T) /\ Len(long) = n + 1
  BY <1>1, <1>2
<1>4. list[n + 1] \in T
  BY <1>1, <1>2
<1>5. long = Append(short, list[n + 1])
  <2> DEFINE more == Append(short, list[n + 1])
  <2>1. /\ more \in Seq(T) /\ Len(more) = n + 1
        /\ \A i \in 1..n : more[i] = short[i]
        /\ more[n + 1] = list[n + 1]
    BY <1>3, <1>4, AppendProperties
  <2> HIDE DEF more
  <2>2. \A i \in 1..(n + 1) : long[i] = more[i]
    BY <2>1
  <2> HIDE DEF long
  <2>3. long = more
    BY <1>3, <2>1, <2>2, SeqEqual
  <2> QED
    BY <2>3 DEF more
<1> HIDE DEF short, long
<1>6. FlattenSeq(Append(short, list[n + 1])) = FlattenSeq(short) \o list[n + 1]
  BY <1>3, <1>4, FlattenOneMore DEF T
<1>7. FlattenSeq(short) \in Seq(S)
  BY <1>3, FlattenTyped DEF T
<1> QED
  BY <1>5, <1>6, <1>7 DEF short, long

LEMMA EmptyFlat ==
  ASSUME NEW list
  PROVE  FlattenSeq([i \in 1..0 |-> list[i]]) = <<>>
<1>1. [i \in 1..0 |-> list[i]] = <<>>
  OBVIOUS
<1>2. <<>> \in Seq({}) /\ Len(<<>>) = 0
  BY EmptySeq
<1>3. FlattenSeq(<<>>) = <<>>
  BY <1>2, JoinedSteps
<1> QED
  BY <1>1, <1>3

(* Two lists in a row flatten to two in a row.                             *)
LEMMA FlattenInARow ==
  ASSUME NEW S, NEW a \in Seq(Seq(S)), NEW b \in Seq(Seq(S))
  PROVE  FlattenSeq(a \o b) = FlattenSeq(a) \o FlattenSeq(b)
<1>0. \A x, y, z \in Seq(S) : (x \o y) \o z = x \o (y \o z)
  <2> SUFFICES ASSUME NEW x \in Seq(S), NEW y \in Seq(S), NEW z \in Seq(S)
               PROVE  (x \o y) \o z = x \o (y \o z)
    OBVIOUS
  <2> QED
    BY ConcatAssociative, SMTT(60)
<1> DEFINE T == Seq(S)
           m == Len(a)
           n == Len(b)
           list == a \o b
           F(k) == FlattenSeq([i \in 1..k |-> list[i]])
           G(k) == FlattenSeq([i \in 1..k |-> b[i]])
           U == {k \in Nat : k > n \/ F(m + k) = F(m) \o G(k)}
<1>1. m \in Nat /\ n \in Nat
  BY LenProperties
<1>2. /\ list \in Seq(T) /\ Len(list) = m + n
      /\ \A k \in 1..n : list[m + k] = b[k]
  BY ConcatProperties
<1>3. /\ \A i \in 1..(m + n) : list[i] \in T
      /\ \A i \in 1..n : b[i] \in T
  BY <1>1, <1>2, ElementOfSeq
<1>4. F(m) = FlattenSeq(a)
  <2>1. [i \in 1..m |-> list[i]] = a
    <3>1. \A i \in 1..m : list[i] = a[i]
      BY ConcatProperties
    <3>2. DOMAIN a = 1..m /\ a = [i \in DOMAIN a |-> a[i]]
      BY LenProperties
    <3> HIDE DEF list, m
    <3> QED
      BY <3>1, <3>2
  <2> HIDE DEF list, m
  <2> QED
    BY <2>1
<1>5. G(n) = FlattenSeq(b)
  <2>1. [i \in 1..n |-> b[i]] = b
    BY LenProperties
  <2> HIDE DEF n
  <2> QED
    BY <2>1
<1>6. F(m + n) = FlattenSeq(list)
  <2>1. [i \in 1..(m + n) |-> list[i]] = list
    <3> HIDE DEF list, m, n
    <3> QED
      BY <1>2, LenProperties
  <2> HIDE DEF list, m, n
  <2> QED
    BY <2>1
<1> HIDE DEF T, m, n, list
<1>7. \A k \in 0..(m + n) : F(k) \in T
  <2> SUFFICES ASSUME NEW k \in 0..(m + n) PROVE F(k) \in T
    OBVIOUS
  <2>1. CASE k = 0
    <3>1. F(0) = <<>>
      BY EmptyFlat
    <3>2. <<>> \in T
      BY EmptySeq DEF T
    <3> HIDE DEF F
    <3> QED
      BY <2>1, <3>1, <3>2
  <2>2. CASE k > 0
    <3>1. k \in Nat /\ k - 1 \in Nat /\ (k - 1) + 1 = k /\ 1..k \subseteq 1..(m + n)
      BY <1>1, <2>2
    <3>2. [i \in 1..k |-> list[i]] \in Seq(T)
      BY <1>3, <3>1
    <3> QED
      BY <3>2, FlattenTyped DEF T
  <2> QED
    BY <1>1, <2>1, <2>2
<1>8. \A k \in 0..n : G(k) \in T
  <2> SUFFICES ASSUME NEW k \in 0..n PROVE G(k) \in T
    OBVIOUS
  <2>1. k \in Nat /\ 1..k \subseteq 1..n
    BY <1>1
  <2>2. [i \in 1..k |-> b[i]] \in Seq(T)
    BY <1>3, <2>1
  <2> QED
    BY <2>2, FlattenTyped DEF T
<1>9. \A k \in 0..(m + n - 1) : F(k + 1) = F(k) \o list[k + 1]
  <2> SUFFICES ASSUME NEW k \in 0..(m + n - 1) PROVE F(k + 1) = F(k) \o list[k + 1]
    OBVIOUS
  <2>1. k \in Nat /\ \A i \in 1..(k + 1) : list[i] \in T
    BY <1>1, <1>3
  <2> QED
    BY <2>1, FlattenUpTo DEF T
<1>10. \A k \in 0..(n - 1) : G(k + 1) = G(k) \o b[k + 1]
  <2> SUFFICES ASSUME NEW k \in 0..(n - 1) PROVE G(k + 1) = G(k) \o b[k + 1]
    OBVIOUS
  <2>1. k \in Nat /\ \A i \in 1..(k + 1) : b[i] \in T
    BY <1>1, <1>3
  <2> QED
    BY <2>1, FlattenUpTo DEF T
<1>11. G(0) = <<>>
  BY EmptyFlat
<1> HIDE DEF F, G
<1>12. 0 \in U
  <2>1. F(m) \in T /\ F(m) \o <<>> = F(m)
    BY <1>1, <1>7, ConcatEmptySeq DEF T
  <2>2. m + 0 = m
    BY <1>1
  <2>3. F(m + 0) = F(m) \o G(0)
    BY <1>11, <2>1, <2>2
  <2> QED
    BY <2>3
<1>13. \A k \in Nat : k \in U => k + 1 \in U
  <2> SUFFICES ASSUME NEW k \in Nat, k \in U PROVE k + 1 \in U
    OBVIOUS
  <2>1. k + 1 \in Nat /\ (k + 1 > n \/ (k + 1 <= n /\ ~(k > n)))
    BY <1>1
  <2>2. CASE k + 1 > n
    BY <2>1, <2>2
  <2>3. CASE k + 1 <= n /\ ~(k > n)
    <3>1. F(m + k) = F(m) \o G(k)
      BY <2>3
    <3>2. /\ m + k \in 0..(m + n - 1) /\ k \in 0..(n - 1) /\ k + 1 \in 1..n /\ m \in 0..(m + n) /\ k \in 0..n
          /\ (m + k) + 1 = m + (k + 1)
      BY <1>1, <2>3
    <3>3. F(m + (k + 1)) = (F(m) \o G(k)) \o b[k + 1]
      BY <1>2, <1>9, <3>1, <3>2
    <3>4. F(m) \in T /\ G(k) \in T /\ b[k + 1] \in T
      BY <1>3, <1>7, <1>8, <3>2
    <3>5. (F(m) \o G(k)) \o b[k + 1] = F(m) \o (G(k) \o b[k + 1])
      BY <1>0, <3>4 DEF T
    <3>6. F(m + (k + 1)) = F(m) \o G(k + 1)
      BY <1>10, <3>2, <3>3, <3>5
    <3> QED
      BY <2>1, <3>6
  <2> QED
    BY <2>1, <2>2, <2>3
<1>14. n \in U
  <2> HIDE DEF U
  <2> QED
    BY <1>1, <1>12, <1>13, Induction
<1> QED
  BY <1>1, <1>4, <1>5, <1>6, <1>14 DEF list
-----------------------------------------------------------------------------
(* What the empty sequence is, and no element more takes away, all are.    *)
LEMMA SeqInduction ==
  ASSUME NEW S, NEW T, <<>> \in T,
         \A t \in Seq(S) : \A s \in S : t \in T => Append(t, s) \in T
  PROVE  \A t \in Seq(S) : t \in T
<1> DEFINE U == {n \in Nat : \A t \in Seq(S) : Len(t) = n => t \in T}
<1>1. 0 \in U
  BY EmptySeq
<1>2. \A n \in Nat : n \in U => n + 1 \in U
  <2> SUFFICES ASSUME NEW n \in Nat, \A t \in Seq(S) : Len(t) = n => t \in T,
                      NEW t \in Seq(S), Len(t) = n + 1
               PROVE  t \in T
    OBVIOUS
  <2> DEFINE front == SubSeq(t, 1, n)
             last  == t[n + 1]
  <2>1. front \in Seq(S) /\ Len(front) = n /\ \A i \in 1..n : front[i] = t[i]
    <3>1. 1 \in 1..(Len(t) + 1) /\ n \in 0..Len(t)
      OBVIOUS
    <3>2. front \in Seq(S) /\ Len(front) = n
      BY <3>1, SubSeqProperties
    <3>3. \A i \in 1..n : front[i] = t[i]
      BY <3>1, SubSeqProperties
    <3> QED
      BY <3>2, <3>3
  <2>2. last \in S
    BY ElementOfSeq
  <2> HIDE DEF front, last
  <2>3. Append(front, last) \in T
    BY <2>1, <2>2
  <2>4. Append(front, last) = t
    <3> DEFINE r == Append(front, last)
    <3>1. r \in Seq(S) /\ Len(r) = n + 1 /\ r[n + 1] = last /\ \A i \in 1..n : r[i] = front[i]
      BY <2>1, <2>2, AppendProperties
    <3> HIDE DEF r
    <3>2. \A i \in 1..Len(r) : r[i] = t[i]
      <4> SUFFICES ASSUME NEW i \in 1..(n + 1) PROVE r[i] = t[i]
        BY <3>1
      <4>1. i \in 1..n \/ i = n + 1
        OBVIOUS
      <4> QED
        BY <2>1, <3>1, <4>1 DEF last
    <3>3. r = t
      BY <3>1, <3>2, SeqEqual
    <3> QED
      BY <3>3 DEF r
  <2> QED
    BY <2>3, <2>4
<1>3. \A n \in Nat : n \in U
  <2> HIDE DEF U
  <2> QED
    BY <1>1, <1>2, Induction
<1> QED
  BY <1>3, LenProperties

(* Two sequences in a row, place by place.                                 *)
LEMMA InARow ==
  ASSUME NEW S, NEW a \in Seq(S), NEW b \in Seq(S)
  PROVE  /\ a \o b \in Seq(S) /\ Len(a) \in Nat /\ Len(b) \in Nat
         /\ Len(a \o b) = Len(a) + Len(b)
         /\ \A i \in 1..Len(a) : (a \o b)[i] = a[i]
         /\ \A i \in 1..Len(b) : (a \o b)[Len(a) + i] = b[i]
<1> DEFINE c == a \o b
           m == Len(a)
           n == Len(b)
<1>1. /\ c \in Seq(S) /\ m \in Nat /\ n \in Nat /\ Len(c) = m + n
      /\ \A i \in 1..(m + n) : c[i] = IF i <= m THEN a[i] ELSE b[i - m]
  BY ConcatProperties, LenProperties
<1> HIDE DEF c, m, n
<1>2. \A i \in 1..m : c[i] = a[i]
  BY <1>1
<1>3. \A i \in 1..n : c[m + i] = b[i]
  <2> SUFFICES ASSUME NEW i \in 1..n PROVE c[m + i] = b[i]
    OBVIOUS
  <2>1. m + i \in 1..(m + n) /\ ~(m + i <= m) /\ (m + i) - m = i
    BY <1>1
  <2> QED
    BY <1>1, <2>1
<1> QED
  BY <1>1, <1>2, <1>3 DEF c, m, n

(* A place in a row is one of the first or one of the second.              *)
LEMMA PlaceInARow ==
  ASSUME NEW S, NEW a \in Seq(S), NEW b \in Seq(S), NEW i \in 1..(Len(a) + Len(b))
  PROVE  i \in 1..Len(a) \/ \E j \in 1..Len(b) : i = Len(a) + j
<1>1. Len(a) \in Nat /\ Len(b) \in Nat
  OBVIOUS
<1>2. CASE i <= Len(a)
  BY <1>1, <1>2
<1>3. CASE i > Len(a)
  <2>1. i - Len(a) \in 1..Len(b) /\ i = Len(a) + (i - Len(a))
    BY <1>1, <1>3
  <2> QED
    BY <2>1
<1> QED
  BY <1>1, <1>2, <1>3

(* A sequence that has both, one after the other, is the row of them.      *)
LEMMA RowIs ==
  ASSUME NEW S, NEW a \in Seq(S), NEW b \in Seq(S), NEW c \in Seq(S),
         Len(c) = Len(a) + Len(b),
         \A i \in 1..Len(a) : c[i] = a[i],
         \A i \in 1..Len(b) : c[Len(a) + i] = b[i]
  PROVE  c = a \o b
<1> DEFINE r == a \o b
<1>1. /\ r \in Seq(S) /\ Len(r) = Len(a) + Len(b)
      /\ \A i \in 1..Len(a) : r[i] = a[i]
      /\ \A i \in 1..Len(b) : r[Len(a) + i] = b[i]
  BY InARow
<1> HIDE DEF r
<1>2. ASSUME NEW i \in 1..(Len(a) + Len(b)) PROVE c[i] = r[i]
  <2>1. i \in 1..Len(a) \/ \E j \in 1..Len(b) : i = Len(a) + j
    BY PlaceInARow
  <2> QED
    BY <1>1, <2>1
<1>3. c = r
  BY <1>1, <1>2, SeqEqual
<1> QED
  BY <1>3 DEF r

(* A sequence that is read element by element, each as f has it.           *)
Flat(f, t) == FlattenSeq([i \in DOMAIN t |-> f[t[i]]])

LEMMA FlatOfEmpty ==
  ASSUME NEW f
  PROVE  Flat(f, <<>>) = <<>>
<1> DEFINE list == [i \in 1..0 |-> f[<<>>[i]]]
<1>1. [i \in DOMAIN <<>> |-> f[<<>>[i]]] = [i \in 1..0 |-> list[i]]
  OBVIOUS
<1>2. FlattenSeq([i \in 1..0 |-> list[i]]) = <<>>
  <2> HIDE DEF list
  <2> QED
    BY EmptyFlat
<1> QED
  BY <1>1, <1>2 DEF Flat

LEMMA FlatTyped ==
  ASSUME NEW S, NEW A, NEW f \in [A -> Seq(S)], NEW t \in Seq(A)
  PROVE  Flat(f, t) \in Seq(S)
<1> DEFINE T == Seq(S)
<1>1. DOMAIN t = 1..Len(t) /\ Len(t) \in Nat /\ \A i \in 1..Len(t) : t[i] \in A
  BY LenProperties, ElementOfSeq
<1>2. \A i \in 1..Len(t) : f[t[i]] \in T
  BY <1>1
<1> HIDE DEF T
<1>3. [i \in DOMAIN t |-> f[t[i]]] \in Seq(T)
  BY <1>1, <1>2
<1> QED
  BY <1>3, FlattenTyped DEF T, Flat

LEMMA FlatOfAppend ==
  ASSUME NEW S, NEW A, NEW f \in [A -> Seq(S)], NEW t \in Seq(A), NEW s \in A
  PROVE  Flat(f, Append(t, s)) = Flat(f, t) \o f[s]
<1> DEFINE T == Seq(S)
           r == Append(t, s)
           n == Len(t)
           list == [i \in 1..(n + 1) |-> f[r[i]]]
<1>1. /\ n \in Nat /\ r \in Seq(A) /\ DOMAIN r = 1..(n + 1) /\ DOMAIN t = 1..n
      /\ r[n + 1] = s /\ \A i \in 1..n : r[i] = t[i]
  BY AppendProperties, LenProperties
<1>2. \A i \in 1..(n + 1) : r[i] \in A
  BY <1>1, ElementOfSeq, LenProperties
<1> HIDE DEF r, n
<1>3. \A i \in 1..(n + 1) : list[i] = f[r[i]] /\ list[i] \in T
  BY <1>2
<1>4. n + 1 \in 1..(n + 1) /\ 1..n \subseteq 1..(n + 1)
  BY <1>1
<1>5. [i \in 1..n |-> list[i]] = [i \in DOMAIN t |-> f[t[i]]]
  BY <1>1, <1>3, <1>4
<1>6. [i \in 1..(n + 1) |-> list[i]] = [i \in DOMAIN r |-> f[r[i]]]
  BY <1>1, <1>3
<1>7. list[n + 1] = f[s]
  BY <1>1, <1>3, <1>4
<1> HIDE DEF T, list
<1>8. FlattenSeq([i \in 1..(n + 1) |-> list[i]])
        = FlattenSeq([i \in 1..n |-> list[i]]) \o list[n + 1]
  BY <1>1, <1>3, FlattenUpTo DEF T
<1>9. FlattenSeq([i \in DOMAIN r |-> f[r[i]]]) = FlattenSeq([i \in DOMAIN t |-> f[t[i]]]) \o f[s]
  BY <1>5, <1>6, <1>7, <1>8
<1> QED
  BY <1>9 DEF r, Flat

LEMMA FlatInARow ==
  ASSUME NEW S, NEW A, NEW f \in [A -> Seq(S)], NEW a \in Seq(A), NEW b \in Seq(A)
  PROVE  Flat(f, a \o b) = Flat(f, a) \o Flat(f, b)
<1> DEFINE T == Seq(S)
           c == a \o b
           m == Len(a)
           n == Len(b)
           first == [i \in 1..m |-> f[a[i]]]
           next  == [i \in 1..n |-> f[b[i]]]
           list  == [i \in 1..(m + n) |-> f[c[i]]]
<1>1. /\ c \in Seq(A) /\ m \in Nat /\ n \in Nat /\ Len(c) = m + n
      /\ \A i \in 1..m : c[i] = a[i]
      /\ \A i \in 1..n : c[m + i] = b[i]
  BY InARow
<1>2. DOMAIN a = 1..m /\ DOMAIN b = 1..n /\ DOMAIN c = 1..(m + n)
  BY <1>1, LenProperties
<1>3. \A i \in 1..m : a[i] \in A
  BY ElementOfSeq
<1>4. \A i \in 1..n : b[i] \in A
  BY ElementOfSeq
<1>5. \A i \in 1..(m + n) : c[i] \in A
  BY <1>1, ElementOfSeq
<1> HIDE DEF c, m, n, T
<1>6. first \in Seq(T) /\ next \in Seq(T) /\ list \in Seq(T)
  <2>1. \A i \in 1..m : f[a[i]] \in T
    BY <1>3 DEF T
  <2>2. \A i \in 1..n : f[b[i]] \in T
    BY <1>4 DEF T
  <2>3. \A i \in 1..(m + n) : f[c[i]] \in T
    BY <1>5 DEF T
  <2> QED
    BY <1>1, <2>1, <2>2, <2>3
<1>7. Len(first) = m /\ Len(next) = n /\ Len(list) = m + n
  BY <1>1
<1>8. \A i \in 1..m : first[i] = f[a[i]]
  OBVIOUS
<1>9. \A i \in 1..n : next[i] = f[b[i]]
  OBVIOUS
<1>10. \A i \in 1..(m + n) : list[i] = f[c[i]]
  OBVIOUS
<1>11. Flat(f, a) = FlattenSeq(first) /\ Flat(f, b) = FlattenSeq(next) /\ Flat(f, c) = FlattenSeq(list)
  BY <1>2 DEF Flat
<1> HIDE DEF first, next, list
<1>12. first \o next = list
  <2> DEFINE r == first \o next
  <2>1. /\ r \in Seq(T) /\ Len(r) = m + n
        /\ \A i \in 1..m : r[i] = first[i]
        /\ \A i \in 1..n : r[m + i] = next[i]
    <3>1. /\ r \in Seq(T) /\ Len(r) = Len(first) + Len(next)
          /\ \A i \in 1..Len(first) : r[i] = first[i]
          /\ \A i \in 1..Len(next) : r[Len(first) + i] = next[i]
      BY <1>6, InARow
    <3> HIDE DEF r
    <3> QED
      BY <3>1, <1>7
  <2> HIDE DEF r
  <2>2. \A i \in 1..Len(r) : r[i] = list[i]
    <3> SUFFICES ASSUME NEW i \in 1..(m + n) PROVE r[i] = list[i]
      BY <2>1
    <3>1. CASE i \in 1..m
      <4>1. r[i] = first[i] /\ first[i] = f[a[i]] /\ c[i] = a[i]
        BY <1>1, <1>8, <2>1, <3>1
      <4> QED
        BY <1>10, <4>1
    <3>2. CASE \E j \in 1..n : i = m + j
      <4> PICK j \in 1..n : i = m + j
        BY <3>2
      <4>1. r[m + j] = next[j] /\ next[j] = f[b[j]] /\ c[m + j] = b[j]
        BY <1>1, <1>9, <2>1
      <4> QED
        BY <1>10, <4>1
    <3>3. i \in 1..m \/ \E j \in 1..n : i = m + j
      BY PlaceInARow DEF m, n
    <3> QED
      BY <3>1, <3>2, <3>3
  <2>3. r = list
    BY <1>6, <1>7, <2>1, <2>2, SeqEqual
  <2> QED
    BY <2>3 DEF r
<1>13. FlattenSeq(list) = FlattenSeq(first) \o FlattenSeq(next)
  BY <1>6, <1>12, FlattenInARow DEF T
<1> QED
  BY <1>11, <1>13 DEF c
=============================================================================
