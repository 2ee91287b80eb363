---------------------------- MODULE DataLemmas ----------------------------
(***************************************************************************)
(* Facts about data that several proofs need: division, induction, and     *)
(* what Kept computes for every sequence and every set.                    *)
(*                                                                         *)
(* The induction theorems of the library take an operator as parameter,    *)
(* which no prover here can instantiate.  A set of the numbers, or of the  *)
(* sequences, for which a fact holds does the same service: it is all of   *)
(* them if it is closed under the step, because otherwise there would be a *)
(* least one that is missing (WFMin).                                      *)
(***************************************************************************)
EXTENDS Selection, FiniteSets, TLAPS, WellFoundedInduction

(* Quotient and remainder, for any divisor.                                *)
LEMMA Division ==
    ASSUME NEW n \in Int, NEW k \in Int, k > 0
    PROVE  /\ n \div k \in Int /\ n % k \in 0 .. k - 1
           /\ n = k * (n \div k) + (n % k)
<1>1. n \div k \in Int
  OBVIOUS
<1>2. n % k \in 0 .. k - 1
  OBVIOUS
<1>3. n = k * (n \div k) + (n % k)
  BY SMT
<1> QED BY <1>1, <1>2, <1>3

(* The order of the numbers has no infinite descent.                       *)
LEMMA LessIsWellFounded == IsWellFoundedOn({p \in Nat \X Nat : p[1] < p[2]}, Nat)
BY NatLessThanWellFounded DEF OpToRel

(* A set of numbers that is not empty has a least element.                 *)
LEMMA LeastExists ==
    ASSUME NEW T, T \subseteq Nat, T # {}
    PROVE  \E n \in T : \A m \in T : n <= m
<1>1. PICK n \in T : \A m \in T : ~ (<<m, n>> \in {p \in Nat \X Nat : p[1] < p[2]})
  BY LessIsWellFounded, WFMin, Zenon
<1>2. \A m \in T : ~(m < n)
  BY <1>1
<1> QED BY <1>2

(* Induction over the numbers: T stands for what is to be shown of each.   *)
LEMMA NaturalsAreReached ==
    ASSUME NEW T, 0 \in T, \A n \in Nat : n \in T => n + 1 \in T
    PROVE  Nat \subseteq T
<1> SUFFICES ASSUME Nat \ T # {} PROVE FALSE
  OBVIOUS
<1>1. PICK n \in Nat \ T : \A m \in Nat \ T : n <= m
  BY LeastExists
<1>2. n - 1 \in Nat /\ n - 1 \in T /\ (n - 1) + 1 = n
  BY <1>1
<1> QED BY <1>1, <1>2

(* Induction over the sequences, by the element appended last.             *)
LEMMA SequencesAreReached ==
    ASSUME NEW T, NEW P, <<>> \in P,
           \A s \in Seq(T), x \in T : s \in P => Append(s, x) \in P
    PROVE  Seq(T) \subseteq P
<1> DEFINE N == {n \in Nat : \A s \in Seq(T) : Len(s) = n => s \in P}
<1>1. 0 \in N
  OBVIOUS
<1>2. ASSUME NEW n \in Nat, n \in N PROVE n + 1 \in N
  <2> SUFFICES ASSUME NEW s \in Seq(T), Len(s) = n + 1 PROVE s \in P
    OBVIOUS
  <2> DEFINE r == SubSeq(s, 1, n)
  <2>1. r \in Seq(T) /\ Len(r) = n /\ s[n + 1] \in T
    OBVIOUS
  <2>2. s = Append(r, s[n + 1])
    OBVIOUS
  <2> HIDE DEF r
  <2> QED BY <1>2, <2>1, <2>2
<1> HIDE DEF N
<1>3. Nat \subseteq N
  BY <1>1, <1>2, NaturalsAreReached
<1> QED BY <1>3 DEF N

----------------------------------------------------------------------------
(* k[n] is what is kept of the first n elements.                           *)
Selects(k, s, S) ==
    /\ k[0] = <<>>
    /\ \A n \in 1 .. Len(s) :
        k[n] = IF s[n] \in S THEN Append(k[n - 1], s[n]) ELSE k[n - 1]

(* The recursive function of Kept exists, and satisfies its equations.     *)
LEMMA KeptSelects ==
    ASSUME NEW T, NEW s \in Seq(T), NEW S
    PROVE  \E k : Kept(s, S) = k[Len(s)] /\ Selects(k, s, S)
<1> DEFINE Entry(k, m) ==
                IF m = 0 THEN <<>>
                ELSE IF s[m] \in S THEN Append(k[m - 1], s[m]) ELSE k[m - 1]
           Solves(k, n) == k = [m \in 0 .. n |-> Entry(k, m)]
           Solved == {n \in Nat : \E k : Solves(k, n)}
<1>0. ASSUME NEW k, NEW n, Solves(k, n)
      PROVE  \A m \in 0 .. n : k[m] = Entry(k, m)
  <2> HIDE DEF Entry
  <2> QED BY <1>0
<1>1. 0 \in Solved
  <2>1. Solves([m \in 0 .. 0 |-> <<>>], 0)
    OBVIOUS
  <2> QED BY <2>1
<1>2. ASSUME NEW n \in Nat, n \in Solved PROVE n + 1 \in Solved
  <2>1. PICK k : Solves(k, n)
    BY <1>2
  <2> DEFINE j == [m \in 0 .. n + 1 |-> IF m <= n THEN k[m] ELSE
                    IF s[m] \in S THEN Append(k[n], s[m]) ELSE k[n]]
  <2>2. \A m \in 0 .. n : k[m] = Entry(k, m)
    BY <1>0, <2>1
  <2>3. ASSUME NEW m \in 0 .. n + 1 PROVE j[m] = Entry(j, m)
    <3>1. CASE m = 0
      BY <2>2, <3>1
    <3>2. CASE m # 0 /\ m <= n
      <4>1. j[m] = k[m] /\ j[m - 1] = k[m - 1] /\ k[m] = Entry(k, m)
        BY <2>2, <3>2
      <4> HIDE DEF j
      <4> QED BY <3>2, <4>1
    <3>3. CASE m = n + 1
      <4>1. m # 0 /\ j[m] = (IF s[m] \in S THEN Append(k[n], s[m]) ELSE k[n])
        BY <3>3
      <4>2. j[m - 1] = k[n]
        BY <3>3
      <4> HIDE DEF j
      <4> QED BY <4>1, <4>2
    <3> QED BY <3>1, <3>2, <3>3
  <2>4. Solves(j, n + 1)
    <3>1. j = [m \in 0 .. n + 1 |-> j[m]]
      OBVIOUS
    <3> HIDE DEF j, Entry
    <3> QED BY <2>3, <3>1
  <2> HIDE DEF Solves, j
  <2> QED BY <2>4
<1> HIDE DEF Solved
<1>3. Nat \subseteq Solved
  BY <1>1, <1>2, NaturalsAreReached
<1> DEFINE kept == CHOOSE k : Solves(k, Len(s))
<1>4. Kept(s, S) = kept[Len(s)]
  BY DEF Kept
<1>5. Solves(kept, Len(s))
  <2>1. \E k : Solves(k, Len(s))
    BY <1>3 DEF Solved
  <2> HIDE DEF Solves
  <2> QED BY <2>1
<1> HIDE DEF kept
<1>6. \A m \in 0 .. Len(s) : kept[m] = Entry(kept, m)
  BY <1>0, <1>5
<1>7. Selects(kept, s, S)
  BY <1>6 DEF Selects
<1> QED BY <1>4, <1>7
----------------------------------------------------------------------------
(* Two selections that agree on what they have seen.                       *)
LEMMA SelectsAlike ==
    ASSUME NEW T, NEW s \in Seq(T), NEW S, NEW j, Selects(j, s, S),
           NEW r \in Seq(T), NEW R, NEW k, Selects(k, r, R),
           Len(s) <= Len(r),
           \A n \in 1 .. Len(s) : r[n] = s[n] /\ (s[n] \in S <=> s[n] \in R)
    PROVE  j[Len(s)] = k[Len(s)]
<1> DEFINE Alike == {n \in Nat : n <= Len(s) => j[n] = k[n]}
<1>1. 0 \in Alike
  BY DEF Selects
<1>2. ASSUME NEW n \in Nat, n \in Alike PROVE n + 1 \in Alike
  <2> SUFFICES ASSUME n + 1 <= Len(s) PROVE j[n + 1] = k[n + 1]
    OBVIOUS
  <2>1. n + 1 \in 1 .. Len(s) /\ n + 1 \in 1 .. Len(r) /\ (n + 1) - 1 = n /\ j[n] = k[n]
    BY <1>2
  <2>2. j[n + 1] = IF s[n + 1] \in S THEN Append(j[n], s[n + 1]) ELSE j[n]
    BY <2>1 DEF Selects
  <2>3. k[n + 1] = IF r[n + 1] \in R THEN Append(k[n], r[n + 1]) ELSE k[n]
    BY <2>1 DEF Selects
  <2> QED BY <2>1, <2>2, <2>3
<1> HIDE DEF Alike
<1>3. Nat \subseteq Alike
  BY <1>1, <1>2, NaturalsAreReached
<1> QED BY <1>3 DEF Alike

(* Of no elements none is kept.                                            *)
THEOREM KeptOfNothing == \A S : Kept(<<>>, S) = <<>>
<1> SUFFICES ASSUME NEW S PROVE Kept(<<>>, S) = <<>>
  OBVIOUS
<1>1. <<>> \in Seq({}) /\ Len(<<>>) = 0
  OBVIOUS
<1>2. PICK k : Kept(<<>>, S) = k[Len(<<>>)] /\ Selects(k, <<>>, S)
  BY <1>1, KeptSelects
<1> QED BY <1>1, <1>2 DEF Selects

(* An element appended is kept last, or not at all.                        *)
THEOREM KeptOfAppend ==
    ASSUME NEW T, NEW s \in Seq(T), NEW x \in T, NEW S
    PROVE  Kept(Append(s, x), S) = IF x \in S THEN Append(Kept(s, S), x) ELSE Kept(s, S)
<1> DEFINE r == Append(s, x)
<1>1. /\ r \in Seq(T) /\ Len(r) = Len(s) + 1 /\ r[Len(s) + 1] = x /\ Len(s) \in Nat
      /\ \A n \in 1 .. Len(s) : r[n] = s[n]
  OBVIOUS
<1> HIDE DEF r
<1>2. PICK j : Kept(s, S) = j[Len(s)] /\ Selects(j, s, S)
  BY KeptSelects
<1>3. PICK k : Kept(r, S) = k[Len(r)] /\ Selects(k, r, S)
  BY <1>1, KeptSelects
<1>4. j[Len(s)] = k[Len(s)]
  BY <1>1, <1>2, <1>3, SelectsAlike
<1>5. k[Len(s) + 1] = IF x \in S THEN Append(k[Len(s)], x) ELSE k[Len(s)]
  <2>1. Len(s) + 1 \in 1 .. Len(r) /\ (Len(s) + 1) - 1 = Len(s)
    BY <1>1
  <2> QED BY <1>1, <1>3, <2>1 DEF Selects
<1> QED BY <1>1, <1>2, <1>3, <1>4, <1>5 DEF r

(* What is kept depends only on which elements of the sequence are in S.   *)
THEOREM KeptAlike ==
    ASSUME NEW T, NEW s \in Seq(T), NEW S, NEW R,
           \A n \in 1 .. Len(s) : s[n] \in S <=> s[n] \in R
    PROVE  Kept(s, S) = Kept(s, R)
<1>1. PICK j : Kept(s, S) = j[Len(s)] /\ Selects(j, s, S)
  BY KeptSelects
<1>2. PICK k : Kept(s, R) = k[Len(s)] /\ Selects(k, s, R)
  BY KeptSelects
<1>3. Len(s) <= Len(s)
  OBVIOUS
<1> QED BY <1>1, <1>2, <1>3, SelectsAlike

(* What is kept: elements of the sequence that are in S, all of them, and  *)
(* no more than there were.                                                *)
THEOREM KeptType ==
    ASSUME NEW T, NEW s \in Seq(T), NEW S
    PROVE  /\ Kept(s, S) \in Seq(T)
           /\ Len(Kept(s, S)) \in Nat /\ Len(Kept(s, S)) <= Len(s)
           /\ \A n \in 1 .. Len(Kept(s, S)) : Kept(s, S)[n] \in S
           /\ \A n \in 1 .. Len(Kept(s, S)) : \E m \in 1 .. Len(s) : Kept(s, S)[n] = s[m]
           /\ \A m \in 1 .. Len(s) : s[m] \in S =>
                \E n \in 1 .. Len(Kept(s, S)) : Kept(s, S)[n] = s[m]
<1> DEFINE Good(t, k) ==
           /\ k \in Seq(T) /\ Len(k) \in Nat /\ Len(k) <= Len(t)
           /\ \A n \in 1 .. Len(k) : k[n] \in S
           /\ \A n \in 1 .. Len(k) : \E m \in 1 .. Len(t) : k[n] = t[m]
           /\ \A m \in 1 .. Len(t) : t[m] \in S => \E n \in 1 .. Len(k) : k[n] = t[m]
           P == {t \in Seq(T) : Good(t, Kept(t, S))}
<1>1. <<>> \in P
  <2>1. Good(<<>>, <<>>)
    OBVIOUS
  <2> HIDE DEF Good
  <2> QED BY <2>1, KeptOfNothing
<1>2. ASSUME NEW t \in Seq(T), NEW x \in T, t \in P PROVE Append(t, x) \in P
  <2> DEFINE r == Append(t, x)
  <2>1. /\ r \in Seq(T) /\ Len(r) = Len(t) + 1 /\ r[Len(t) + 1] = x /\ Len(t) \in Nat
        /\ \A n \in 1 .. Len(t) : r[n] = t[n]
    OBVIOUS
  <2> HIDE DEF r
  <2>2. Good(t, Kept(t, S))
    BY <1>2
  <2>3. Kept(r, S) = IF x \in S THEN Append(Kept(t, S), x) ELSE Kept(t, S)
    BY KeptOfAppend DEF r
  <2>4. CASE x \notin S
    <3>1. Good(r, Kept(t, S))
      <4>1. \A m \in 1 .. Len(r) : r[m] \in S => m \in 1 .. Len(t)
        BY <2>1, <2>4
      <4>2. \A m \in 1 .. Len(t) : m \in 1 .. Len(r)
        BY <2>1
      <4> QED BY <2>1, <2>2, <4>1, <4>2
    <3> QED BY <2>1, <2>3, <2>4, <3>1 DEF r
  <2>5. CASE x \in S
    <3> DEFINE k == Kept(t, S)
               q == Append(k, x)
    <3>1. /\ q \in Seq(T) /\ Len(q) = Len(k) + 1 /\ q[Len(k) + 1] = x /\ Len(k) \in Nat
          /\ \A n \in 1 .. Len(k) : q[n] = k[n]
      BY <2>2
    <3> HIDE DEF k, q
    <3>2. Good(t, k)
      BY <2>2 DEF k
    <3>3. q \in Seq(T) /\ Len(q) \in Nat /\ Len(q) <= Len(r)
      BY <2>1, <3>1, <3>2
    <3>4. ASSUME NEW n \in 1 .. Len(q)
          PROVE  q[n] \in S /\ \E m \in 1 .. Len(r) : q[n] = r[m]
      <4>1. CASE n = Len(k) + 1
        BY <2>1, <2>5, <3>1, <4>1
      <4>2. CASE n # Len(k) + 1
        <5>1. n \in 1 .. Len(k)
          BY <3>1, <4>2
        <5>2. q[n] = k[n] /\ k[n] \in S /\ \E m \in 1 .. Len(t) : k[n] = t[m]
          BY <3>1, <3>2, <5>1
        <5> QED BY <2>1, <5>2
      <4> QED BY <4>1, <4>2
    <3>5. ASSUME NEW m \in 1 .. Len(r), r[m] \in S
          PROVE  \E n \in 1 .. Len(q) : q[n] = r[m]
      <4>1. CASE m = Len(t) + 1
        BY <2>1, <3>1, <4>1
      <4>2. CASE m # Len(t) + 1
        <5>1. m \in 1 .. Len(t) /\ r[m] = t[m]
          BY <2>1, <4>2
        <5>2. PICK n \in 1 .. Len(k) : k[n] = t[m]
          BY <3>2, <3>5, <5>1
        <5> QED BY <3>1, <5>1, <5>2
      <4> QED BY <4>1, <4>2
    <3>6. Good(r, q)
      BY <3>3, <3>4, <3>5
    <3> HIDE DEF Good
    <3> QED BY <2>1, <2>3, <2>5, <3>6 DEF k, q, r
  <2> QED BY <2>4, <2>5
<1> HIDE DEF P
<1>3. Seq(T) \subseteq P
  BY <1>1, <1>2, SequencesAreReached
<1> QED BY <1>3 DEF P

(* Selecting twice is selecting what both want.                            *)
THEOREM KeptTwice ==
    ASSUME NEW T, NEW s \in Seq(T), NEW R, NEW S, R \subseteq S
    PROVE  Kept(Kept(s, S), R) = Kept(s, R)
<1> DEFINE P == {t \in Seq(T) : Kept(Kept(t, S), R) = Kept(t, R)}
<1>1. <<>> \in P
  BY KeptOfNothing
<1>2. ASSUME NEW t \in Seq(T), NEW x \in T, t \in P PROVE Append(t, x) \in P
  <2>1. Kept(Append(t, x), S) = IF x \in S THEN Append(Kept(t, S), x) ELSE Kept(t, S)
    BY KeptOfAppend
  <2>2. Kept(Append(t, x), R) = IF x \in R THEN Append(Kept(t, R), x) ELSE Kept(t, R)
    BY KeptOfAppend
  <2>3. Kept(t, S) \in Seq(T)
    BY KeptType
  <2>4. Kept(Append(Kept(t, S), x), R)
            = IF x \in R THEN Append(Kept(Kept(t, S), R), x) ELSE Kept(Kept(t, S), R)
    BY <2>3, KeptOfAppend
  <2>5. Append(t, x) \in Seq(T) /\ Kept(Kept(t, S), R) = Kept(t, R)
    BY <1>2
  <2> QED BY <2>1, <2>2, <2>4, <2>5
<1> HIDE DEF P
<1>3. Seq(T) \subseteq P
  BY <1>1, <1>2, SequencesAreReached
<1> QED BY <1>3 DEF P

(* Taking the first element off a sequence takes it off what is kept, if   *)
(* it was kept.                                                            *)
THEOREM KeptOfTail ==
    ASSUME NEW T, NEW s \in Seq(T), s # <<>>, NEW S
    PROVE  /\ Head(s) \notin S => Kept(Tail(s), S) = Kept(s, S)
           /\ Head(s) \in S => /\ Kept(s, S) # <<>> /\ Head(Kept(s, S)) = Head(s)
                               /\ Kept(Tail(s), S) = Tail(Kept(s, S))
<1> DEFINE Good(t) ==
           /\ Head(t) \notin S => Kept(Tail(t), S) = Kept(t, S)
           /\ Head(t) \in S => /\ Kept(t, S) # <<>> /\ Head(Kept(t, S)) = Head(t)
                               /\ Kept(Tail(t), S) = Tail(Kept(t, S))
           P == {t \in Seq(T) : t = <<>> \/ Good(t)}
<1>1. <<>> \in P
  OBVIOUS
<1>2. ASSUME NEW t \in Seq(T), NEW x \in T, t \in P PROVE Append(t, x) \in P
  <2> DEFINE r == Append(t, x)
             k == Kept(t, S)
  <2>1. /\ r \in Seq(T) /\ k \in Seq(T)
        /\ Kept(r, S) = IF x \in S THEN Append(k, x) ELSE k
    BY KeptType, KeptOfAppend
  <2>2. CASE t = <<>>
    <3>1. Head(r) = x /\ Tail(r) = <<>> /\ k = <<>>
      BY <2>2, KeptOfNothing
    <3>2. Kept(r, S) = IF x \in S THEN <<x>> ELSE <<>>
      BY <2>1, <3>1
    <3>3. Kept(Tail(r), S) = <<>>
      BY <3>1, KeptOfNothing
    <3> HIDE DEF r, k
    <3>4. Head(<<x>>) = x /\ Tail(<<x>>) = <<>> /\ <<x>> # <<>>
      OBVIOUS
    <3>5. Good(r)
      BY <3>1, <3>2, <3>3, <3>4
    <3> QED BY <2>1, <3>5 DEF r
  <2>3. CASE t # <<>>
    <3>1. /\ Head(r) = Head(t) /\ Tail(r) = Append(Tail(t), x)
          /\ Tail(t) \in Seq(T)
      BY <2>3
    <3>2. Kept(Tail(r), S)
            = IF x \in S THEN Append(Kept(Tail(t), S), x) ELSE Kept(Tail(t), S)
      BY <3>1, KeptOfAppend
    <3>3. Good(t)
      BY <1>2, <2>3
    <3> HIDE DEF r, k
    <3>4. k # <<>> => /\ Append(k, x) # <<>> /\ Head(Append(k, x)) = Head(k)
                      /\ Tail(Append(k, x)) = Append(Tail(k), x)
      BY <2>1
    <3>5. /\ Head(t) \notin S => Kept(Tail(t), S) = k
          /\ Head(t) \in S => k # <<>> /\ Head(k) = Head(t) /\ Kept(Tail(t), S) = Tail(k)
      BY <3>3 DEF k
    <3>6. Head(t) \notin S => Kept(Tail(r), S) = Kept(r, S)
      BY <2>1, <3>2, <3>5
    <3>7. Head(t) \in S => /\ Kept(r, S) # <<>> /\ Head(Kept(r, S)) = Head(t)
                           /\ Kept(Tail(r), S) = Tail(Kept(r, S))
      BY <2>1, <3>2, <3>4, <3>5
    <3>8. Good(r)
      BY <3>1, <3>6, <3>7
    <3> QED BY <2>1, <3>8 DEF r
  <2> QED BY <2>2, <2>3
<1> HIDE DEF P
<1>3. Seq(T) \subseteq P
  BY <1>1, <1>2, SequencesAreReached
<1> QED BY <1>3 DEF P
=============================================================================
