------------------------ MODULE TransactionPlanProofs ------------------------
(***************************************************************************)
(* What holds of every transaction, for any number of VMs, networks and    *)
(* device numbers, whatever the configuration asks for, however often it   *)
(* is run, and wherever it fails or is interrupted.                        *)
(*                                                                         *)
(* A plan is made of stages.  What an action finds when its turn comes is  *)
(* known from the stages before it, which are over; what the transaction   *)
(* has still to do is known from the actions that are left.                *)
(***************************************************************************)
EXTENDS TransactionPlan, FiniteSetTheorems, SequenceTheorems, WellFoundedInduction, TLAPS

(* Element a is somewhere before element b.                                *)
Before(s, a, b) == \E i, j \in DOMAIN s : i < j /\ s[i] = a /\ s[j] = b

-----------------------------------------------------------------------------
(* Induction over data: numbers, and sequences of sequences.               *)

(* Induction over the natural numbers, for a set of them.                  *)
LEMMA NatSet ==
  ASSUME NEW T, 0 \in T, \A n \in Nat : n \in T => n + 1 \in T
  PROVE  Nat \subseteq T
<1> DEFINE R == OpToRel(<, Nat)
           B == Nat \ T
<1>1. IsWellFoundedOn(R, Nat)
  BY NatLessThanWellFounded
<1>2. SUFFICES ASSUME B # {} PROVE FALSE
  OBVIOUS
<1>3. PICK x \in B : \A y \in B : <<y, x>> \notin R
  <2> HIDE DEF R
  <2> QED BY <1>1, <1>2, WFMin
<1>4. x - 1 \in Nat /\ x - 1 \in T
  <2>1. x # 0 OBVIOUS
  <2>2. x - 1 \in Nat BY <2>1
  <2>3. <<x - 1, x>> \in R
    BY <2>2 DEF OpToRel
  <2> QED BY <1>3, <2>2, <2>3
<1> QED BY <1>4

(* The recursive function by which FlattenSeq joins the first n sequences. *)
Joined(f, seqs, n) ==
  f = [i \in 1 .. n |-> IF i = 1 THEN seqs[i] ELSE f[i - 1] \o seqs[i]]

LEMMA JoinedExists ==
  ASSUME NEW S, NEW seqs \in Seq(Seq(S))
  PROVE  \E f \in [1 .. Len(seqs) -> Seq(S)] : Joined(f, seqs, Len(seqs))
<1> DEFINE Has(n) == \E f \in [1 .. n -> Seq(S)] : Joined(f, seqs, n)
           T == {n \in Nat : n <= Len(seqs) => Has(n)}
<1>1. 0 \in T
  <2> DEFINE f == [i \in 1 .. 0 |-> <<>>]
  <2>1. f \in [1 .. 0 -> Seq(S)]
    OBVIOUS
  <2>2. f = [i \in 1 .. 0 |-> IF i = 1 THEN seqs[i] ELSE f[i - 1] \o seqs[i]]
    OBVIOUS
  <2> QED BY <2>1, <2>2 DEF Joined
<1>2. ASSUME NEW n \in Nat, n \in T PROVE n + 1 \in T
  <2>1. SUFFICES ASSUME n + 1 <= Len(seqs) PROVE Has(n + 1)
    OBVIOUS
  <2>2. PICK f \in [1 .. n -> Seq(S)] : Joined(f, seqs, n)
    BY <1>2, <2>1
  <2>3. \A i \in 1 .. n : f[i] = IF i = 1 THEN seqs[i] ELSE f[i - 1] \o seqs[i]
    BY <2>2 DEF Joined
  <2> DEFINE last == IF n = 0 THEN seqs[n + 1] ELSE f[n] \o seqs[n + 1]
             g == [i \in 1 .. n + 1 |-> IF i = n + 1 THEN last ELSE f[i]]
  <2>4. last \in Seq(S)
    <3>1. seqs[n + 1] \in Seq(S)
      BY <2>1
    <3>2. n # 0 => f[n] \in Seq(S)
      OBVIOUS
    <3> QED BY <3>1, <3>2, ConcatProperties
  <2>5. g \in [1 .. n + 1 -> Seq(S)]
    <3> HIDE DEF last
    <3> QED BY <2>4
  <2>6. g[n + 1] = last /\ \A i \in 1 .. n : g[i] = f[i]
    <3> HIDE DEF last
    <3> QED OBVIOUS
  <2>7. \A i \in 1 .. n + 1 : g[i] = IF i = 1 THEN seqs[i] ELSE g[i - 1] \o seqs[i]
    <3> HIDE DEF g
    <3> TAKE i \in 1 .. n + 1
    <3>1. CASE i = n + 1
      <4>1. n # 0 => g[n] = f[n]
        BY <2>6
      <4>2. n = 0 => g[1] = seqs[1]
        BY <2>6
      <4>3. n # 0 => g[n + 1] = g[n] \o seqs[n + 1]
        BY <2>6, <4>1
      <4>4. (n + 1) - 1 = n /\ (n + 1 = 1 <=> n = 0)
        OBVIOUS
      <4>5. g[n + 1] = IF n + 1 = 1 THEN seqs[n + 1] ELSE g[(n + 1) - 1] \o seqs[n + 1]
        BY <4>2, <4>3, <4>4
      <4> QED BY <3>1, <4>5
    <3>2. CASE i # n + 1
      <4>1. i \in 1 .. n
        BY <3>2
      <4>2. i # 1 => i - 1 \in 1 .. n
        BY <4>1
      <4> QED BY <4>1, <4>2, <2>3, <2>6
    <3> QED BY <3>1, <3>2
  <2>8. Joined(g, seqs, n + 1)
    <3> HIDE DEF g
    <3> QED BY <2>5, <2>7 DEF Joined
  <2> QED BY <2>5, <2>8
<1>3. Nat \subseteq T
  <2> HIDE DEF T
  <2> QED BY <1>1, <1>2, NatSet
<1> QED BY <1>3

(* Sequence i starts behind Offset(f, i) other elements, where f[n] joins  *)
(* the first n sequences.                                                  *)
Offset(f, i) == IF i = 1 THEN 0 ELSE Len(f[i - 1])

Placed(f, seqs, n) ==
  /\ \A i \in 1 .. n : Offset(f, i) \in Nat /\ Offset(f, i) + Len(seqs[i]) <= Len(f[n])
  /\ \A i \in 1 .. n : \A k \in 1 .. Len(seqs[i]) : f[n][Offset(f, i) + k] = seqs[i][k]
  /\ \A i, j \in 1 .. n : i < j => Offset(f, i) + Len(seqs[i]) <= Offset(f, j)
  /\ \A p \in 1 .. Len(f[n]) :
       \E i \in 1 .. n : \E k \in 1 .. Len(seqs[i]) : p = Offset(f, i) + k

LEMMA PlacedStep ==
  ASSUME NEW S, NEW seqs, NEW f, NEW n \in Nat \ {0},
         f[n] \in Seq(S), \A i \in 1 .. n + 1 : seqs[i] \in Seq(S),
         f[n + 1] = f[n] \o seqs[n + 1], Placed(f, seqs, n)
  PROVE  f[n + 1] \in Seq(S) /\ Placed(f, seqs, n + 1)
<1> DEFINE A == f[n]
           B == seqs[n + 1]
           C == f[n + 1]
<1>1. A \in Seq(S) /\ B \in Seq(S) /\ C = A \o B
  OBVIOUS
<1>2. Offset(f, n + 1) = Len(A)
  BY DEF Offset
<1>3. \A i \in 1 .. n + 1 : i \in 1 .. n \/ i = n + 1
  OBVIOUS
<1>4. \A i \in 1 .. n : Len(seqs[i]) \in Nat
  OBVIOUS
<1> DEFINE O(i) == Offset(f, i)
<1> HIDE DEF A, B, C, O
<1>5. /\ Len(A) \in Nat /\ Len(B) \in Nat
      /\ C \in Seq(S) /\ Len(C) = Len(A) + Len(B)
      /\ \A p \in 1 .. Len(A) + Len(B) : C[p] = IF p <= Len(A) THEN A[p] ELSE B[p - Len(A)]
  BY <1>1, ConcatProperties
<1>6. /\ \A i \in 1 .. n : O(i) \in Nat /\ O(i) + Len(seqs[i]) <= Len(A)
      /\ \A i \in 1 .. n : \A k \in 1 .. Len(seqs[i]) : A[O(i) + k] = seqs[i][k]
      /\ \A i, j \in 1 .. n : i < j => O(i) + Len(seqs[i]) <= O(j)
      /\ \A p \in 1 .. Len(A) : \E i \in 1 .. n : \E k \in 1 .. Len(seqs[i]) : p = O(i) + k
  BY DEF Placed, A, O
<1>7. O(n + 1) = Len(A)
  BY <1>2 DEF O
<1>8. \A i \in 1 .. n + 1 : O(i) \in Nat /\ O(i) + Len(seqs[i]) <= Len(C)
  <2>1. ASSUME NEW i \in 1 .. n PROVE O(i) \in Nat /\ O(i) + Len(seqs[i]) <= Len(C)
    BY <1>4, <1>5, <1>6
  <2>2. O(n + 1) \in Nat /\ O(n + 1) + Len(seqs[n + 1]) <= Len(C)
    BY <1>5, <1>7 DEF B
  <2> QED BY <2>1, <2>2, <1>3
<1>9. \A i \in 1 .. n + 1 : \A k \in 1 .. Len(seqs[i]) : C[O(i) + k] = seqs[i][k]
  <2>1. ASSUME NEW i \in 1 .. n, NEW k \in 1 .. Len(seqs[i]) PROVE C[O(i) + k] = seqs[i][k]
    <3>1. O(i) + k \in 1 .. Len(A)
      <4>1. O(i) \in Nat /\ O(i) + Len(seqs[i]) <= Len(A) /\ Len(seqs[i]) \in Nat
        BY <1>4, <1>6
      <4> QED BY <4>1, <1>5
    <3>2. C[O(i) + k] = A[O(i) + k]
      BY <3>1, <1>5
    <3> QED BY <3>2, <1>6
  <2>2. ASSUME NEW k \in 1 .. Len(B) PROVE C[O(n + 1) + k] = B[k]
    <3>1. /\ Len(A) + k \in 1 .. Len(A) + Len(B)
          /\ ~(Len(A) + k <= Len(A)) /\ (Len(A) + k) - Len(A) = k
      BY <1>5
    <3> QED BY <3>1, <1>5, <1>7
  <2> QED BY <2>1, <2>2, <1>3 DEF B
<1>10. \A i, j \in 1 .. n + 1 : i < j => O(i) + Len(seqs[i]) <= O(j)
  <2> SUFFICES ASSUME NEW i \in 1 .. n + 1, NEW j \in 1 .. n + 1, i < j
               PROVE  O(i) + Len(seqs[i]) <= O(j)
    OBVIOUS
  <2>1. i \in 1 .. n
    OBVIOUS
  <2>2. CASE j = n + 1
    BY <2>1, <2>2, <1>6, <1>7
  <2>3. CASE j \in 1 .. n
    BY <2>1, <2>3, <1>6
  <2> QED BY <2>2, <2>3, <1>3
<1>11. \A p \in 1 .. Len(C) : \E i \in 1 .. n + 1 : \E k \in 1 .. Len(seqs[i]) : p = O(i) + k
  <2> TAKE p \in 1 .. Len(C)
  <2>1. CASE p \in 1 .. Len(A)
    <3>1. PICK i \in 1 .. n : \E k \in 1 .. Len(seqs[i]) : p = O(i) + k
      BY <2>1, <1>6
    <3>2. i \in 1 .. n + 1
      OBVIOUS
    <3> QED BY <3>1, <3>2
  <2>2. CASE p \notin 1 .. Len(A)
    <3>1. p - Len(A) \in 1 .. Len(B) /\ p = Len(A) + (p - Len(A))
      BY <2>2, <1>5
    <3>2. \E k \in 1 .. Len(seqs[n + 1]) : p = O(n + 1) + k
      BY <3>1, <1>7 DEF B
    <3>3. n + 1 \in 1 .. n + 1
      OBVIOUS
    <3> QED BY <3>2, <3>3
  <2> QED BY <2>1, <2>2
<1>12. C \in Seq(S)
  BY <1>5
<1> QED
  BY <1>8, <1>9, <1>10, <1>11, <1>12 DEF Placed, C, O

(* The elements of sequence i are behind off[i] others of u.               *)
Laid(off, seqs, u) ==
  /\ \A i \in DOMAIN seqs : \A k \in DOMAIN seqs[i] :
       off[i] + k \in DOMAIN u /\ u[off[i] + k] = seqs[i][k]
  /\ \A i, j \in DOMAIN seqs : i < j => off[i] + Len(seqs[i]) <= off[j]
  /\ \A p \in DOMAIN u : \E i \in DOMAIN seqs : \E k \in DOMAIN seqs[i] : p = off[i] + k

LEMMA Flattened ==
  ASSUME NEW S, NEW seqs \in Seq(Seq(S))
  PROVE  /\ FlattenSeq(seqs) \in Seq(S)
         /\ \E off \in [DOMAIN seqs -> Nat] : Laid(off, seqs, FlattenSeq(seqs))
<1>1. CASE Len(seqs) = 0
  <2>1. seqs = <<>> /\ FlattenSeq(seqs) = <<>>
    BY <1>1 DEF FlattenSeq
  <2>2. <<>> \in Seq(S) /\ DOMAIN <<>> = {}
    OBVIOUS
  <2>3. [i \in {} |-> 0] \in [{} -> Nat]
    OBVIOUS
  <2>4. \A off : Laid(off, <<>>, <<>>)
    BY <2>2 DEF Laid
  <2>5. DOMAIN seqs = {}
    BY <2>1, <2>2
  <2> QED BY <2>1, <2>2, <2>3, <2>4, <2>5
<1>2. CASE Len(seqs) # 0
  <2> DEFINE N == Len(seqs)
             fl == CHOOSE f : Joined(f, seqs, N)
  <2>0. N \in Nat /\ N # 0 /\ DOMAIN seqs = 1 .. N /\ \A i \in 1 .. N : seqs[i] \in Seq(S)
    BY <1>2
  <2>1. Joined(fl, seqs, N)
    <3> HIDE DEF Joined
    <3> QED BY JoinedExists
  <2>2. FlattenSeq(seqs) = fl[N]
    BY <1>2 DEF FlattenSeq, Joined
  <2> HIDE DEF fl, N
  <2>3. \A i \in 1 .. N : fl[i] = IF i = 1 THEN seqs[i] ELSE fl[i - 1] \o seqs[i]
    BY <2>1 DEF Joined
  <2> DEFINE Good(n) == fl[n] \in Seq(S) /\ Placed(fl, seqs, n)
             T == {n \in Nat : n \in 1 .. N => Good(n)}
  <2>4. ASSUME NEW n \in Nat, n \in T PROVE n + 1 \in T
    <3>1. SUFFICES ASSUME n + 1 \in 1 .. N PROVE Good(n + 1)
      OBVIOUS
    <3>2. \A i \in 1 .. n + 1 : seqs[i] \in Seq(S)
      BY <2>0, <3>1
    <3>3. CASE n = 0
      <4>1. fl[1] = seqs[1] /\ Offset(fl, 1) = 0 /\ seqs[1] \in Seq(S)
        BY <2>3, <3>1, <3>2, <3>3 DEF Offset
      <4>2. \A i \in 1 .. 1 : i = 1
        OBVIOUS
      <4>3. Len(seqs[1]) \in Nat
        BY <4>1
      <4>4. Placed(fl, seqs, 1)
        BY <4>1, <4>2, <4>3 DEF Placed
      <4> QED BY <4>1, <4>4, <3>3
    <3>4. CASE n # 0
      <4>1. fl[n + 1] = fl[n] \o seqs[n + 1]
        <5>1. n + 1 # 1 /\ (n + 1) - 1 = n
          BY <3>4
        <5> QED BY <5>1, <2>3, <3>1
      <4>2. Good(n)
        BY <3>1, <3>4, <2>4, <2>0
      <4> QED BY <4>1, <4>2, <3>2, <3>4, PlacedStep
    <3> QED BY <3>3, <3>4
  <2>5. Nat \subseteq T
    <3>1. 0 \in T
      OBVIOUS
    <3> HIDE DEF T
    <3> QED BY <3>1, <2>4, NatSet
  <2>6. Good(N)
    <3>1. N \in T /\ N \in 1 .. N
      BY <2>5, <2>0
    <3> QED BY <3>1
  <2> DEFINE off == [i \in 1 .. N |-> Offset(fl, i)]
  <2>7. off \in [1 .. N -> Nat] /\ \A i \in 1 .. N : off[i] = Offset(fl, i)
    BY <2>6 DEF Placed
  <2>8. DOMAIN fl[N] = 1 .. Len(fl[N])
    BY <2>6
  <2>9. \A i \in 1 .. N : DOMAIN seqs[i] = 1 .. Len(seqs[i]) /\ Len(seqs[i]) \in Nat
    BY <2>0
  <2> HIDE DEF off
  <2>10. \A i \in 1 .. N : \A k \in DOMAIN seqs[i] :
             off[i] + k \in DOMAIN fl[N] /\ fl[N][off[i] + k] = seqs[i][k]
    <3> TAKE i \in 1 .. N
    <3> TAKE k \in DOMAIN seqs[i]
    <3>1. k \in 1 .. Len(seqs[i]) /\ Len(seqs[i]) \in Nat
      BY <2>9
    <3>2. /\ off[i] \in Nat /\ off[i] + Len(seqs[i]) <= Len(fl[N])
          /\ fl[N][off[i] + k] = seqs[i][k]
      BY <3>1, <2>6, <2>7 DEF Placed
    <3>3. Len(fl[N]) \in Nat
      BY <2>6
    <3> QED BY <3>1, <3>2, <3>3, <2>8
  <2>11. \A i, j \in 1 .. N : i < j => off[i] + Len(seqs[i]) <= off[j]
    BY <2>6, <2>7 DEF Placed
  <2>12. \A p \in DOMAIN fl[N] : \E i \in 1 .. N : \E k \in DOMAIN seqs[i] : p = off[i] + k
    <3> TAKE p \in DOMAIN fl[N]
    <3>1. PICK i \in 1 .. N : \E k \in 1 .. Len(seqs[i]) : p = Offset(fl, i) + k
      BY <2>6, <2>8 DEF Placed
    <3> QED BY <3>1, <2>7, <2>9
  <2>13. fl[N] \in Seq(S)
    BY <2>6
  <2>14. off \in [1 .. N -> Nat]
    BY <2>7
  <2>15. DOMAIN seqs = 1 .. N
    BY <2>0
  <2>16. Laid(off, seqs, fl[N])
    <3>1. \A i \in DOMAIN seqs : \A k \in DOMAIN seqs[i] :
            off[i] + k \in DOMAIN fl[N] /\ fl[N][off[i] + k] = seqs[i][k]
      BY <2>10, <2>15, Zenon
    <3>2. \A i, j \in DOMAIN seqs : i < j => off[i] + Len(seqs[i]) <= off[j]
      BY <2>11, <2>15, Zenon
    <3>3. \A p \in DOMAIN fl[N] :
            \E i \in DOMAIN seqs : \E k \in DOMAIN seqs[i] : p = off[i] + k
      BY <2>12, <2>15, Zenon
    <3> QED BY <3>1, <3>2, <3>3, Zenon DEF Laid
  <2> QED
    BY <2>2, <2>13, <2>14, <2>15, <2>16, Zenon
<1> QED BY <1>1, <1>2

(* The least of a set of numbers.                                          *)
LEMMA Least ==
  ASSUME NEW T, T \subseteq Nat, T # {}
  PROVE  \E m \in T : \A n \in T : m <= n
<1> DEFINE R == OpToRel(<, Nat)
<1>1. IsWellFoundedOn(R, Nat)
  BY NatLessThanWellFounded
<1>2. PICK m \in T : \A n \in T : <<n, m>> \notin R
  <2> HIDE DEF R
  <2> QED BY <1>1, WFMin
<1>3. \A n \in T : <<n, m>> \notin R => m <= n
  BY DEF OpToRel
<1> QED BY <1>2, <1>3

(* What a pair of elements in order is made of.                            *)
LEMMA BeforeIn ==
  ASSUME NEW s, NEW a, NEW b, Before(s, a, b)
  PROVE  a \in ToSet(s) /\ b \in ToSet(s)
BY DEF Before, ToSet

LEMMA ConcatOrder ==
  ASSUME NEW S, NEW s \in Seq(S), NEW t \in Seq(S)
  PROVE  /\ s \o t \in Seq(S)
         /\ ToSet(s \o t) = ToSet(s) \union ToSet(t)
         /\ \A a, b : Before(s \o t, a, b) <=>
              Before(s, a, b) \/ Before(t, a, b) \/ (a \in ToSet(s) /\ b \in ToSet(t))
<1> DEFINE u == s \o t
           m == Len(s)
           n == Len(t)
<1>1. /\ u \in Seq(S) /\ m \in Nat /\ n \in Nat /\ Len(u) = m + n
      /\ \A i \in 1 .. m + n : u[i] = IF i <= m THEN s[i] ELSE t[i - m]
  BY ConcatProperties
<1>2. DOMAIN u = 1 .. m + n /\ DOMAIN s = 1 .. m /\ DOMAIN t = 1 .. n
  BY <1>1
<1> HIDE DEF u, m, n
<1>3. \A i \in DOMAIN s : i \in DOMAIN u /\ u[i] = s[i]
  BY <1>1, <1>2
<1>4. \A i \in DOMAIN t : i + m \in DOMAIN u /\ u[i + m] = t[i]
  <2> TAKE i \in DOMAIN t
  <2>1. i + m \in 1 .. m + n /\ ~(i + m <= m) /\ (i + m) - m = i
    BY <1>1, <1>2
  <2> QED BY <2>1, <1>1, <1>2
<1>5. \A i \in DOMAIN u : \/ i \in DOMAIN s /\ u[i] = s[i]
                          \/ i > m /\ i - m \in DOMAIN t /\ u[i] = t[i - m]
  BY <1>1, <1>2
<1>6. ToSet(u) = ToSet(s) \union ToSet(t)
  BY <1>3, <1>4, <1>5 DEF ToSet
<1>7. ASSUME NEW a, NEW b, Before(u, a, b)
      PROVE  Before(s, a, b) \/ Before(t, a, b) \/ (a \in ToSet(s) /\ b \in ToSet(t))
  <2>1. PICK i \in DOMAIN u, j \in DOMAIN u : i < j /\ u[i] = a /\ u[j] = b
    BY <1>7 DEF Before
  <2>2. CASE i \in DOMAIN s /\ j \in DOMAIN s
    <3>1. s[i] = a /\ s[j] = b
      BY <2>1, <2>2, <1>3
    <3>2. Before(s, a, b)
      BY <2>1, <2>2, <3>1, Zenon DEF Before
    <3> QED BY <3>2
  <2>3. CASE i \in DOMAIN s /\ j - m \in DOMAIN t /\ u[j] = t[j - m]
    BY <2>1, <2>3, <1>3 DEF ToSet
  <2>4. CASE i > m /\ j > m
    <3>1. /\ i - m \in DOMAIN t /\ u[i] = t[i - m]
          /\ j - m \in DOMAIN t /\ u[j] = t[j - m]
      BY <2>4, <1>1, <1>2, <1>5
    <3>2. i - m < j - m
      BY <2>1, <1>1, <1>2
    <3>3. t[i - m] = a /\ t[j - m] = b
      BY <2>1, <3>1
    <3>4. Before(t, a, b)
      BY <3>1, <3>2, <3>3, Zenon DEF Before
    <3> QED BY <3>4
  <2>5. i > m => j > m
    BY <2>1, <1>1, <1>2
  <2> QED BY <2>2, <2>3, <2>4, <2>5, <1>5
<1>8. ASSUME NEW a, NEW b, Before(s, a, b) PROVE Before(u, a, b)
  BY <1>3, <1>8 DEF Before
<1>9. ASSUME NEW a, NEW b, Before(t, a, b) PROVE Before(u, a, b)
  <2>1. PICK i \in DOMAIN t, j \in DOMAIN t : i < j /\ t[i] = a /\ t[j] = b
    BY <1>9 DEF Before
  <2>2. i + m < j + m
    BY <2>1, <1>1, <1>2
  <2> QED BY <2>1, <2>2, <1>4 DEF Before
<1>10. ASSUME NEW a \in ToSet(s), NEW b \in ToSet(t) PROVE Before(u, a, b)
  <2>1. PICK i \in DOMAIN s, j \in DOMAIN t : s[i] = a /\ t[j] = b
    BY DEF ToSet
  <2>2. i < j + m
    BY <2>1, <1>1, <1>2
  <2> QED BY <2>1, <2>2, <1>3, <1>4 DEF Before
<1> QED
  BY <1>1, <1>6, <1>7, <1>8, <1>9, <1>10 DEF u

LEMMA FlattenElements ==
  ASSUME NEW S, NEW seqs \in Seq(Seq(S))
  PROVE  /\ FlattenSeq(seqs) \in Seq(S)
         /\ ToSet(FlattenSeq(seqs)) = UNION {ToSet(seqs[i]) : i \in DOMAIN seqs}
         /\ \A i \in DOMAIN seqs : \A a, b :
              Before(seqs[i], a, b) => Before(FlattenSeq(seqs), a, b)
<1> DEFINE u == FlattenSeq(seqs)
<1>0. PICK off \in [DOMAIN seqs -> Nat] : Laid(off, seqs, u)
  BY Flattened
<1>1. /\ \A i \in DOMAIN seqs : \A k \in DOMAIN seqs[i] :
           off[i] + k \in DOMAIN u /\ u[off[i] + k] = seqs[i][k]
      /\ \A p \in DOMAIN u :
           \E i \in DOMAIN seqs : \E k \in DOMAIN seqs[i] : p = off[i] + k
  BY <1>0, Zenon DEF Laid
<1>2. u \in Seq(S)
  BY Flattened
<1>3. \A i \in DOMAIN seqs : seqs[i] \in Seq(S)
  OBVIOUS
<1> HIDE DEF u
<1>4. ASSUME NEW a \in ToSet(u) PROVE \E i \in DOMAIN seqs : a \in ToSet(seqs[i])
  <2>1. PICK p \in DOMAIN u : a = u[p]
    BY DEF ToSet
  <2>2. PICK i \in DOMAIN seqs : \E k \in DOMAIN seqs[i] : p = off[i] + k
    BY <1>1
  <2>3. PICK k \in DOMAIN seqs[i] : p = off[i] + k
    BY <2>2
  <2>4. a = seqs[i][k]
    BY <1>1, <2>1, <2>3
  <2> QED BY <2>4 DEF ToSet
<1>5. ASSUME NEW i \in DOMAIN seqs, NEW a \in ToSet(seqs[i]) PROVE a \in ToSet(u)
  <2>1. PICK k \in DOMAIN seqs[i] : a = seqs[i][k]
    BY DEF ToSet
  <2> QED BY <2>1, <1>1 DEF ToSet
<1>6. ASSUME NEW i \in DOMAIN seqs, NEW a, NEW b, Before(seqs[i], a, b)
      PROVE  Before(u, a, b)
  <2>1. PICK k \in DOMAIN seqs[i], l \in DOMAIN seqs[i] :
          k < l /\ seqs[i][k] = a /\ seqs[i][l] = b
    BY <1>6 DEF Before
  <2>2. off[i] + k < off[i] + l
    <3>1. off[i] \in Nat /\ k \in Nat /\ l \in Nat
      BY <1>3
    <3> QED BY <2>1, <3>1
  <2> QED BY <2>1, <2>2, <1>1 DEF Before
<1>7. ToSet(u) = UNION {ToSet(seqs[i]) : i \in DOMAIN seqs}
  BY <1>4, <1>5
<1> QED BY <1>2, <1>6, <1>7 DEF u

(* The elements of a set of a finite number, in some order.                *)
LEMMA SetToSeqElements ==
  ASSUME NEW S, IsFiniteSet(S)
  PROVE  SetToSeq(S) \in Seq(S) /\ ToSet(SetToSeq(S)) = S
<1>1. Cardinality(S) \in Nat /\ ExistsBijection(1 .. Cardinality(S), S)
  BY FS_CardinalityType
<1>2. \E f \in [1 .. Cardinality(S) -> S] : IsInjective(f)
  BY <1>1 DEF ExistsBijection, Bijection, Injection, IsInjective
<1>3. SetToSeq(S) \in [1 .. Cardinality(S) -> S] /\ IsInjective(SetToSeq(S))
  BY <1>2 DEF SetToSeq
<1> DEFINE f == SetToSeq(S)
           n == Cardinality(S)
<1>4. f \in Injection(1 .. n, S)
  BY <1>3 DEF Injection, IsInjective
<1>5. IsFiniteSet(1 .. n) /\ Cardinality(1 .. n) = n
  BY <1>1, FS_Interval
<1> HIDE DEF f, n
<1>6. f \in Surjection(1 .. n, S)
  BY <1>4, <1>5, FS_Injection DEF n
<1>7. ToSet(f) = S
  BY <1>6 DEF Surjection, ToSet
<1>8. f \in Seq(S)
  BY <1>1, <1>3 DEF f, n
<1> QED BY <1>7, <1>8 DEF f

LEMMA ReverseElements ==
  ASSUME NEW S, NEW s \in Seq(S)
  PROVE  Reverse(s) \in Seq(S) /\ ToSet(Reverse(s)) = ToSet(s)
<1> DEFINE n == Len(s)
           r == [i \in 1 .. n |-> s[(n - i) + 1]]
<1>1. n \in Nat /\ DOMAIN s = 1 .. n /\ \A i \in 1 .. n : s[i] \in S
  OBVIOUS
<1> HIDE DEF n
<1>2. \A i \in 1 .. n : (n - i) + 1 \in 1 .. n /\ (n - ((n - i) + 1)) + 1 = i
  BY <1>1
<1>3. r \in [1 .. n -> S]
  BY <1>1, <1>2
<1>4. r \in Seq(S) /\ DOMAIN r = 1 .. n
  BY <1>1, <1>3
<1>5. \A i \in 1 .. n : r[i] = s[(n - i) + 1]
  OBVIOUS
<1>6. \A i \in 1 .. n : s[i] = r[(n - i) + 1]
  BY <1>2, <1>5
<1> HIDE DEF r
<1>7. ToSet(r) = ToSet(s)
  BY <1>1, <1>2, <1>4, <1>5, <1>6 DEF ToSet
<1> QED BY <1>4, <1>7 DEF r, n, Reverse

(* What is left when the first element is done.                            *)
LEMMA TailOrder ==
  ASSUME NEW S, NEW s \in Seq(S), s # <<>>
  PROVE  /\ Tail(s) \in Seq(S) /\ Head(s) \in S
         /\ ToSet(s) = {Head(s)} \union ToSet(Tail(s))
         /\ \A a, b : Before(Tail(s), a, b) => Before(s, a, b)
         /\ \A a, b : Before(s, a, b) =>
              Before(Tail(s), a, b) \/ (a = Head(s) /\ b \in ToSet(Tail(s)))
         /\ \A b \in ToSet(Tail(s)) : Before(s, Head(s), b)
<1> DEFINE t == Tail(s)
           n == Len(s)
<1>1. /\ t \in Seq(S) /\ n \in Nat /\ n # 0 /\ Len(t) = n - 1
      /\ \A i \in 1 .. n - 1 : t[i] = s[i + 1]
  BY HeadTailProperties
<1>2. Head(s) = s[1] /\ Head(s) \in S
  OBVIOUS
<1>3. DOMAIN t = 1 .. n - 1 /\ DOMAIN s = 1 .. n
  BY <1>1
<1> HIDE DEF t, n
<1>4. \A i \in DOMAIN t : i + 1 \in DOMAIN s /\ t[i] = s[i + 1]
  BY <1>1, <1>3
<1>5. \A i \in DOMAIN s : i = 1 \/ (i - 1 \in DOMAIN t /\ t[i - 1] = s[i])
  BY <1>1, <1>3
<1>6. 1 \in DOMAIN s
  BY <1>1, <1>3
<1>7. ToSet(s) = {Head(s)} \union ToSet(t)
  BY <1>2, <1>4, <1>5, <1>6 DEF ToSet
<1>8. ASSUME NEW a, NEW b, Before(t, a, b) PROVE Before(s, a, b)
  <2>1. PICK i \in DOMAIN t, j \in DOMAIN t : i < j /\ t[i] = a /\ t[j] = b
    BY <1>8 DEF Before
  <2>2. i + 1 < j + 1
    BY <2>1, <1>1, <1>3
  <2> QED BY <2>1, <2>2, <1>4, Zenon DEF Before
<1>9. ASSUME NEW a, NEW b, Before(s, a, b)
      PROVE  Before(t, a, b) \/ (a = Head(s) /\ b \in ToSet(t))
  <2>1. PICK i \in DOMAIN s, j \in DOMAIN s : i < j /\ s[i] = a /\ s[j] = b
    BY <1>9 DEF Before
  <2>2. j # 1 /\ j - 1 \in DOMAIN t /\ t[j - 1] = b
    <3>1. j # 1
      BY <2>1, <1>1, <1>3
    <3> QED BY <2>1, <3>1, <1>5
  <2>3. CASE i = 1
    BY <2>1, <2>2, <2>3, <1>2, Zenon DEF ToSet
  <2>4. CASE i # 1
    <3>1. i - 1 \in DOMAIN t /\ t[i - 1] = a
      BY <2>1, <2>4, <1>5
    <3>2. i - 1 < j - 1
      BY <2>1, <1>1, <1>3
    <3> QED BY <2>2, <3>1, <3>2, Zenon DEF Before
  <2> QED BY <2>3, <2>4
<1>10. ASSUME NEW b \in ToSet(t) PROVE Before(s, Head(s), b)
  <2>1. PICK i \in DOMAIN t : b = t[i]
    BY DEF ToSet
  <2>2. 1 < i + 1
    BY <1>1, <1>3
  <2>3. s[1] = Head(s) /\ s[i + 1] = b /\ i + 1 \in DOMAIN s
    BY <1>2, <1>4, <2>1
  <2> QED BY <2>2, <2>3, <1>6, Zenon DEF Before
<1> QED BY <1>1, <1>2, <1>7, <1>8, <1>9, <1>10 DEF t

(* Of equal elements the last one.                                         *)
LEMMA LastOne ==
  ASSUME NEW S, NEW s \in Seq(S), NEW i \in DOMAIN s
  PROVE  \E j \in DOMAIN s : i <= j /\ s[j] = s[i] /\ \A k \in (j + 1) .. Len(s) : s[k] # s[i]
<1> DEFINE n == Len(s)
           T == {m \in Nat : \E j \in DOMAIN s : s[j] = s[i] /\ m = n - j}
<1>1. n \in Nat /\ DOMAIN s = 1 .. n
  OBVIOUS
<1> HIDE DEF n
<1>2. T \subseteq Nat /\ n - i \in T
  BY <1>1
<1>3. PICK m \in T : \A l \in T : m <= l
  <2> HIDE DEF T
  <2> QED BY <1>2, Least
<1>4. PICK j \in DOMAIN s : s[j] = s[i] /\ m = n - j
  OBVIOUS
<1>5. i <= j
  BY <1>1, <1>2, <1>3, <1>4
<1>6. ASSUME NEW k \in (j + 1) .. n, s[k] = s[i] PROVE FALSE
  <2>1. k \in DOMAIN s /\ n - k \in Nat
    BY <1>1
  <2>2. n - k \in T
    BY <2>1, <1>6
  <2>3. n - k < n - j
    BY <1>1
  <2> QED BY <2>2, <2>3, <1>3, <1>4, <1>1
<1> QED BY <1>4, <1>5, <1>6 DEF n

LEMMA LeaveLastOrder ==
  ASSUME NEW S, NEW s \in Seq(S), NEW a
  PROVE  /\ LeaveLast(a, s) \in Seq(S)
         /\ ToSet(LeaveLast(a, s)) = ToSet(s)
         /\ \A x, y : Before(LeaveLast(a, s), x, y) => Before(s, x, y)
         /\ \A x, y : x # a /\ Before(s, x, y) => Before(LeaveLast(a, s), x, y)
<1> DEFINE n == Len(s)
           D == DOMAIN s
           Later(i) == s[i] = a /\ \E j \in (i + 1) .. n : s[j] = a
           seqs == [i \in D |-> IF Later(i) THEN <<>> ELSE <<s[i]>>]
           u == FlattenSeq(seqs)
<1>1. n \in Nat /\ D = 1 .. n /\ \A i \in D : s[i] \in S
  OBVIOUS
<1>2. LeaveLast(a, s) = u
  BY DEF LeaveLast
<1> HIDE DEF n, D
<1>3. /\ DOMAIN seqs = D
      /\ \A i \in D : (Later(i) => seqs[i] = <<>>) /\ (~Later(i) => seqs[i] = <<s[i]>>)
  <2> HIDE DEF Later
  <2> QED OBVIOUS
<1>4. seqs \in Seq(Seq(S))
  <2>1. \A i \in D : seqs[i] \in Seq(S)
    <3> HIDE DEF seqs, Later
    <3>1. <<>> \in Seq(S) /\ \A x \in S : <<x>> \in Seq(S)
      OBVIOUS
    <3> QED BY <3>1, <1>1, <1>3, Zenon
  <2>2. seqs \in [1 .. n -> Seq(S)]
    <3>1. seqs = [i \in D |-> seqs[i]]
      BY <1>3
    <3> HIDE DEF seqs
    <3> QED BY <3>1, <2>1, <1>1
  <2> HIDE DEF seqs
  <2> QED BY <1>1, <2>2
<1> HIDE DEF seqs
<1>5. u \in Seq(S) /\ \E off \in [DOMAIN seqs -> Nat] : Laid(off, seqs, u)
  BY <1>4, Flattened
<1>6. PICK off \in [D -> Nat] : Laid(off, seqs, u)
  BY <1>5, <1>3
<1> HIDE DEF u, Later
<1>7. \A i \in D : Later(i) => DOMAIN seqs[i] = {} /\ Len(seqs[i]) = 0
  BY <1>3
<1>8. \A i \in D : ~Later(i) => /\ DOMAIN seqs[i] = {1} /\ Len(seqs[i]) = 1
                                /\ seqs[i][1] = s[i]
  <2>1. \A x : DOMAIN <<x>> = {1} /\ Len(<<x>>) = 1 /\ <<x>>[1] = x
    <3> TAKE x
    <3>1. <<x>> \in Seq({x}) /\ Len(<<x>>) = 1 /\ <<x>>[1] = x
      OBVIOUS
    <3>2. DOMAIN <<x>> = 1 .. 1
      OBVIOUS
    <3> QED BY <3>1, <3>2
  <2> QED BY <2>1, <1>3, Zenon
<1>9. \A i \in D : ~Later(i) => off[i] + 1 \in DOMAIN u /\ u[off[i] + 1] = s[i]
  <2>1. \A i \in D : \A k \in DOMAIN seqs[i] :
          off[i] + k \in DOMAIN u /\ u[off[i] + k] = seqs[i][k]
    BY <1>3, <1>6, Zenon DEF Laid
  <2> QED BY <2>1, <1>8
<1>10. \A i, j \in D : ~Later(i) /\ i < j => off[i] + 1 <= off[j]
  <2>1. \A i, j \in D : i < j => off[i] + Len(seqs[i]) <= off[j]
    BY <1>3, <1>6, Zenon DEF Laid
  <2> QED BY <2>1, <1>8
<1>11. ASSUME NEW p \in DOMAIN u PROVE \E i \in D : ~Later(i) /\ p = off[i] + 1 /\ u[p] = s[i]
  <2>1. PICK i \in D : \E k \in DOMAIN seqs[i] : p = off[i] + k
    BY <1>3, <1>6, Zenon DEF Laid
  <2>2. ~Later(i)
    BY <2>1, <1>7
  <2>3. p = off[i] + 1
    BY <2>1, <2>2, <1>8
  <2> QED BY <2>2, <2>3, <1>9
<1>12. ASSUME NEW i \in D PROVE \E j \in D : i <= j /\ s[j] = s[i] /\ ~Later(j)
  <2>1. PICK j \in D : i <= j /\ s[j] = s[i] /\ \A k \in (j + 1) .. n : s[k] # s[i]
    BY LastOne DEF D, n
  <2> QED BY <2>1 DEF Later
<1>13. ToSet(u) = ToSet(s)
  <2>1. ASSUME NEW x \in ToSet(u) PROVE x \in ToSet(s)
    <3>1. PICK p \in DOMAIN u : x = u[p]
      BY DEF ToSet
    <3> QED BY <3>1, <1>11 DEF ToSet, D
  <2>2. ASSUME NEW x \in ToSet(s) PROVE x \in ToSet(u)
    <3>1. PICK i \in D : x = s[i]
      BY DEF ToSet, D
    <3>2. PICK j \in D : s[j] = s[i] /\ ~Later(j)
      BY <1>12
    <3> QED BY <3>1, <3>2, <1>9 DEF ToSet
  <2> QED BY <2>1, <2>2
<1>14. ASSUME NEW x, NEW y, Before(u, x, y) PROVE Before(s, x, y)
  <2>1. PICK p \in DOMAIN u, q \in DOMAIN u : p < q /\ u[p] = x /\ u[q] = y
    BY <1>14 DEF Before
  <2>2. PICK i \in D : ~Later(i) /\ p = off[i] + 1 /\ u[p] = s[i]
    BY <1>11
  <2>3. PICK j \in D : ~Later(j) /\ q = off[j] + 1 /\ u[q] = s[j]
    BY <1>11
  <2>4. i < j
    <3>1. off[i] \in Nat /\ off[j] \in Nat /\ i \in Nat /\ j \in Nat
      BY <1>1
    <3>2. j < i => off[j] + 1 <= off[i]
      BY <2>3, <1>10
    <3>3. off[i] < off[j]
      BY <2>1, <2>2, <2>3, <3>1
    <3> QED BY <3>1, <3>2, <3>3
  <2> QED BY <2>1, <2>2, <2>3, <2>4, Zenon DEF Before, D
<1>15. ASSUME NEW x, NEW y, x # a, Before(s, x, y) PROVE Before(u, x, y)
  <2>1. PICK i \in D, j \in D : i < j /\ s[i] = x /\ s[j] = y
    BY <1>15 DEF Before, D
  <2>2. ~Later(i)
    BY <2>1, <1>15 DEF Later
  <2>3. PICK k \in D : j <= k /\ s[k] = s[j] /\ ~Later(k)
    BY <1>12
  <2>4. off[i] + 1 < off[k] + 1
    <3>1. i < k
      BY <2>1, <2>3, <1>1
    <3>2. off[i] \in Nat /\ off[k] \in Nat
      OBVIOUS
    <3> QED BY <3>1, <3>2, <2>2, <1>10
  <2>5. /\ off[i] + 1 \in DOMAIN u /\ u[off[i] + 1] = x
        /\ off[k] + 1 \in DOMAIN u /\ u[off[k] + 1] = y
    BY <2>1, <2>2, <2>3, <1>9
  <2> QED BY <2>4, <2>5, Zenon DEF Before
<1> QED
  <2>1. u \in Seq(S)
    BY <1>5
  <2> QED BY <1>2, <1>13, <1>14, <1>15, <2>1, Zenon

-----------------------------------------------------------------------------
(* enumerateNetworks *)

Explicit(nets) == {nets[i].num : i \in DOMAIN nets}

Taken(nets, s, i) == Explicit(nets) \union {s[j].num : j \in 1 .. (i - 1)}

FirstFree(taken) == CHOOSE k \in Numbers \ taken : \A l \in Numbers \ taken : k <= l

WithNumber(nets, s, i) ==
  Append(s, [nets[i] EXCEPT !.num = IF @ = None THEN FirstFree(Taken(nets, s, i)) ELSE @])

(* The recursive function by which Enumerate numbers the first n networks. *)
Numbered(e, nets, n) ==
  e = [i \in 0 .. n |-> IF i = 0 THEN <<>> ELSE WithNumber(nets, e[i - 1], i)]

LEMMA NumberedExists ==
  ASSUME NEW nets, NEW n \in Nat
  PROVE  \E e : Numbered(e, nets, n)
<1> DEFINE T == {m \in Nat : \E e : Numbered(e, nets, m)}
<1>1. 0 \in T
  <2> DEFINE e == [i \in 0 .. 0 |-> <<>>]
  <2>1. e = [i \in 0 .. 0 |-> IF i = 0 THEN <<>> ELSE WithNumber(nets, e[i - 1], i)]
    OBVIOUS
  <2> QED BY <2>1 DEF Numbered
<1>2. ASSUME NEW m \in Nat, m \in T PROVE m + 1 \in T
  <2>1. PICK f : Numbered(f, nets, m)
    BY <1>2
  <2>2. \A i \in 0 .. m : f[i] = IF i = 0 THEN <<>> ELSE WithNumber(nets, f[i - 1], i)
    BY <2>1 DEF Numbered
  <2> DEFINE last == WithNumber(nets, f[m], m + 1)
             g == [i \in 0 .. m + 1 |-> IF i = m + 1 THEN last ELSE f[i]]
  <2>3. /\ g[m + 1] = last /\ \A i \in 0 .. m : g[i] = f[i]
        /\ g = [i \in 0 .. m + 1 |-> g[i]]
    <3> HIDE DEF last
    <3> QED OBVIOUS
  <2> HIDE DEF g
  <2>4. ASSUME NEW i \in 0 .. m + 1
        PROVE  g[i] = IF i = 0 THEN <<>> ELSE WithNumber(nets, g[i - 1], i)
    <3>1. CASE i = m + 1
      <4>1. i # 0 /\ i - 1 = m /\ m \in 0 .. m
        BY <3>1
      <4>2. g[i] = WithNumber(nets, g[i - 1], i)
        BY <3>1, <4>1, <2>3, Zenon
      <4> QED BY <4>1, <4>2
    <3>2. CASE i # m + 1
      <4>1. i \in 0 .. m /\ (i # 0 => i - 1 \in 0 .. m)
        BY <3>2
      <4>2. g[i] = f[i] /\ (i # 0 => g[i - 1] = f[i - 1])
        BY <4>1, <2>3
      <4>3. f[i] = IF i = 0 THEN <<>> ELSE WithNumber(nets, f[i - 1], i)
        BY <4>1, <2>2
      <4> QED BY <4>2, <4>3
    <3> QED BY <3>1, <3>2
  <2>5. Numbered(g, nets, m + 1)
    BY <2>3, <2>4 DEF Numbered
  <2> QED BY <2>5
<1>3. Nat \subseteq T
  <2> HIDE DEF T
  <2> QED BY <1>1, <1>2, NatSet
<1> QED BY <1>3

Networks(nets) ==
  /\ nets \in Seq([num : Numbers \union {None}, net : NetSet])
  /\ Len(nets) <= Cardinality(Numbers)
  /\ \A i, j \in DOMAIN nets : nets[i].num = nets[j].num => i = j \/ nets[i].num = None

(* The first n networks have numbers of their own.                         *)
Enumerated(nets, s, n) ==
  /\ s \in Seq([num : Numbers, net : NetSet]) /\ Len(s) = n
  /\ \A i \in 1 .. n : nets[i].num # None => s[i].num = nets[i].num
  /\ \A i \in 1 .. n : nets[i].num = None => s[i].num \notin Explicit(nets)
  /\ \A i, j \in 1 .. n : s[i].num = s[j].num => i = j

(* As long as networks are left, there is a number for the next.           *)
LEMMA NumberLeft ==
  ASSUME NEW nets, Networks(nets), NEW n \in Nat, n + 1 \in 1 .. Len(nets),
         NEW s, Enumerated(nets, s, n), nets[n + 1].num = None
  PROVE  FirstFree(Taken(nets, s, n + 1)) \in Numbers \ Taken(nets, s, n + 1)
<1> DEFINE N == Len(nets)
           F == (1 .. N) \ {n + 1}
           num(j) == IF j \in 1 .. n THEN s[j].num ELSE nets[j].num
           taken == Taken(nets, s, n + 1)
<1>1. N \in Nat /\ DOMAIN nets = 1 .. N /\ IsFiniteSet(Numbers) /\ N <= Cardinality(Numbers)
  BY PlanAssumption DEF Networks
<1>2. IsFiniteSet(1 .. N) /\ Cardinality(1 .. N) = N
  BY <1>1, FS_Interval
<1>3. IsFiniteSet(F) /\ Cardinality(F) = N - 1
  BY <1>1, <1>2, FS_RemoveElement
<1>4. taken = Explicit(nets) \union {s[j].num : j \in 1 .. n}
  BY DEF Taken
<1> HIDE DEF N, taken
<1>5. Numbers \ taken # {}
  <2> SUFFICES ASSUME Numbers \subseteq taken PROVE FALSE
    OBVIOUS
  <2>1. \A k \in Numbers : \E j \in F : num(j) = k
    <3> TAKE k \in Numbers
    <3>1. CASE \E j \in 1 .. n : k = s[j].num
      <4>1. PICK j \in 1 .. n : k = s[j].num
        BY <3>1
      <4>2. j \in F
        BY <1>1 DEF N
      <4> QED BY <4>1, <4>2
    <3>2. CASE k \in Explicit(nets)
      <4>1. PICK i \in 1 .. N : k = nets[i].num
        BY <3>2, <1>1 DEF Explicit
      <4>2. k # None
        BY PlanAssumption
      <4>3. i \in F
        BY <4>1, <4>2
      <4>4. i \in 1 .. n => s[i].num = k
        BY <4>1, <4>2 DEF Enumerated
      <4> QED BY <4>1, <4>3, <4>4
    <3> QED BY <3>1, <3>2, <1>4
  <2> DEFINE g == [k \in Numbers |-> CHOOSE j \in F : num(j) = k]
  <2> HIDE DEF F, num
  <2>2. \A k \in Numbers : g[k] \in F /\ num(g[k]) = k
    BY <2>1
  <2>3. g \in [Numbers -> F]
    BY <2>2
  <2> HIDE DEF g
  <2>4. g \in Injection(Numbers, F)
    BY <2>2, <2>3 DEF Injection, IsInjective
  <2>5. Cardinality(Numbers) <= Cardinality(F)
    BY <2>4, <1>3, FS_Injection
  <2>6. Cardinality(Numbers) \in Nat
    BY <1>1, FS_CardinalityType
  <2> QED BY <2>5, <2>6, <1>1, <1>3
<1>6. \E k \in Numbers \ taken : \A l \in Numbers \ taken : k <= l
  <2>1. Numbers \ taken \subseteq Nat
    BY PlanAssumption
  <2> QED BY <1>5, <2>1, Least
<1>7. FirstFree(taken) \in Numbers \ taken
  BY <1>6 DEF FirstFree
<1> QED BY <1>7 DEF taken

LEMMA NumberedStep ==
  ASSUME NEW nets, Networks(nets), NEW n \in Nat, n + 1 \in 1 .. Len(nets),
         NEW s, Enumerated(nets, s, n)
  PROVE  Enumerated(nets, WithNumber(nets, s, n + 1), n + 1)
<1> DEFINE free == FirstFree(Taken(nets, s, n + 1))
           old == nets[n + 1].num
           num == IF old = None THEN free ELSE old
           c == [nets[n + 1] EXCEPT !.num = num]
           t == Append(s, c)
<1>1. t = WithNumber(nets, s, n + 1)
  BY DEF WithNumber
<1>2. nets[n + 1] \in [num : Numbers \union {None}, net : NetSet]
  <2> DEFINE R == [num : Numbers \union {None}, net : NetSet]
  <2>1. nets \in Seq(R)
    BY DEF Networks
  <2> HIDE DEF R
  <2>2. nets[n + 1] \in R
    BY <2>1
  <2> QED BY <2>2 DEF R
<1>3. old = None => free \in Numbers \ Taken(nets, s, n + 1)
  BY NumberLeft
<1>4. DOMAIN nets = 1 .. Len(nets) /\ Len(nets) \in Nat
  BY DEF Networks
<1> HIDE DEF free
<1>5. num \in Numbers
  BY <1>2, <1>3
<1>6. c \in [num : Numbers, net : NetSet] /\ c.num = num
  <2> HIDE DEF num
  <2> QED BY <1>2, <1>5
<1>7. old = None => num \notin Explicit(nets) /\ \A i \in 1 .. n : s[i].num # num
  BY <1>3 DEF Taken
<1>8. old # None => \A i \in 1 .. n : s[i].num # num
  <2> SUFFICES ASSUME old # None, NEW i \in 1 .. n PROVE s[i].num # old
    OBVIOUS
  <2>1. CASE nets[i].num = None
    BY <2>1, <1>4 DEF Enumerated, Explicit
  <2>2. CASE nets[i].num # None
    <3>1. s[i].num = nets[i].num
      BY <2>2 DEF Enumerated
    <3>2. i \in DOMAIN nets /\ n + 1 \in DOMAIN nets /\ i # n + 1
      BY <1>4
    <3>3. nets[i].num # old
      BY <2>2, <3>2 DEF Networks
    <3> QED BY <3>1, <3>3
  <2> QED BY <2>1, <2>2
<1>9. old # None => num = old
  OBVIOUS
<1> HIDE DEF c, num
<1>10. s \in Seq([num : Numbers, net : NetSet]) /\ Len(s) = n
  BY DEF Enumerated
<1>11. /\ t \in Seq([num : Numbers, net : NetSet]) /\ Len(t) = n + 1
       /\ t[n + 1] = c /\ \A i \in 1 .. n : t[i] = s[i]
  BY <1>6, <1>10, AppendProperties
<1> HIDE DEF t, old
<1>12. \A i \in 1 .. n + 1 : i \in 1 .. n \/ i = n + 1
  OBVIOUS
<1>13. \A i \in 1 .. n + 1 : nets[i].num # None => t[i].num = nets[i].num
  BY <1>6, <1>9, <1>11, <1>12 DEF Enumerated, old
<1>14. \A i \in 1 .. n + 1 : nets[i].num = None => t[i].num \notin Explicit(nets)
  BY <1>6, <1>7, <1>11, <1>12 DEF Enumerated, old
<1>15. \A i, j \in 1 .. n + 1 : t[i].num = t[j].num => i = j
  <2>1. \A i \in 1 .. n : t[i].num # num
    BY <1>7, <1>8, <1>11
  <2>2. \A i, j \in 1 .. n : t[i].num = t[j].num => i = j
    BY <1>11 DEF Enumerated
  <2> QED BY <2>1, <2>2, <1>6, <1>11, <1>12
<1> QED BY <1>1, <1>11, <1>13, <1>14, <1>15 DEF Enumerated

LEMMA EnumerateNumbers ==
  ASSUME NEW nets, Networks(nets)
  PROVE  /\ Enumerate(nets) \in Seq([num : Numbers, net : NetSet])
         /\ Len(Enumerate(nets)) = Len(nets)
         /\ \A i, j \in DOMAIN Enumerate(nets) :
              Enumerate(nets)[i].num = Enumerate(nets)[j].num => i = j
<1> DEFINE N == Len(nets)
           e == CHOOSE f : Numbered(f, nets, N)
<1>1. N \in Nat
  BY DEF Networks
<1>2. Numbered(e, nets, N)
  <2> HIDE DEF Numbered
  <2> QED BY <1>1, NumberedExists
<1>3. Enumerate(nets) = e[N]
  BY DEF Enumerate, Numbered, WithNumber, FirstFree, Taken, Explicit
<1> HIDE DEF e, N
<1>4. \A i \in 0 .. N : e[i] = IF i = 0 THEN <<>> ELSE WithNumber(nets, e[i - 1], i)
  BY <1>2 DEF Numbered
<1> DEFINE T == {n \in Nat : n <= N => Enumerated(nets, e[n], n)}
<1>5. 0 \in T
  <2>1. e[0] = <<>>
    BY <1>1, <1>4
  <2>2. <<>> \in Seq([num : Numbers, net : NetSet]) /\ Len(<<>>) = 0 /\ 1 .. 0 = {}
    OBVIOUS
  <2>3. Enumerated(nets, <<>>, 0)
    BY <2>2, Zenon DEF Enumerated
  <2> QED BY <2>1, <2>3
<1>6. ASSUME NEW n \in Nat, n \in T PROVE n + 1 \in T
  <2> SUFFICES ASSUME n + 1 <= N PROVE Enumerated(nets, e[n + 1], n + 1)
    OBVIOUS
  <2>1. Enumerated(nets, e[n], n)
    BY <1>1, <1>6
  <2>2. n + 1 \in 0 .. N /\ n + 1 # 0 /\ (n + 1) - 1 = n /\ n + 1 \in 1 .. N
    BY <1>1
  <2>3. e[n + 1] = WithNumber(nets, e[n], n + 1)
    <3>1. e[n + 1] = WithNumber(nets, e[(n + 1) - 1], n + 1)
      BY <1>4, <2>2
    <3> QED BY <2>2, <3>1
  <2> QED BY <2>1, <2>2, <2>3, NumberedStep DEF N
<1>7. Enumerated(nets, e[N], N)
  <2>1. Nat \subseteq T
    <3> HIDE DEF T
    <3> QED BY <1>5, <1>6, NatSet
  <2> QED BY <2>1, <1>1
<1>8. DOMAIN e[N] = 1 .. N
  BY <1>7 DEF Enumerated
<1> QED BY <1>3, <1>7, <1>8 DEF Enumerated, N

-----------------------------------------------------------------------------
Left == ToSet(todo)

(* The stages of a deployment and of a destruction.                        *)
UpRank(a) ==
  IF a.op \in {"create", "apply"}    THEN 1 ELSE
  IF a.op \in {"clone", "configure"} THEN 2 ELSE
  IF a.op = "clean"                  THEN 3 ELSE
  IF a.op \in {"detach", "attach"}   THEN 4 ELSE 5

DownRank(a) ==
  IF a.op = "stop" THEN 1 ELSE IF a.op = "destroy" THEN 2 ELSE 3

UpOrder(s)   == \A a, b \in ToSet(s) : Before(s, a, b) => UpRank(a) <= UpRank(b)
DownOrder(s) == \A a, b \in ToSet(s) : Before(s, a, b) => DownRank(a) <= DownRank(b)

(* What a deployment asks of a VM, by what its planning saw.               *)
ToClean(v) == wish[v].clean \/ wish[v].nets = <<>>
Moves(v) == {c \in ToSet(Declared(v)) : seen.nic[v][c.num] # c.net}
Displaced(v) == {k \in Numbers : \E c \in Moves(v) : seen.nic[v][k] = c.net}

UpAction(a) ==
  \/ \E n \in NetSet : a = Act("create", n) \/ a = Act("apply", kind[n])
  \/ \E v \in VMSet :
       \/ a = Act("clone", v) \/ a = Act("configure", v) \/ a = Act("stop", v)
       \/ ToClean(v) /\ a = Act("clean", v)
       \/ wish[v].running /\ a = Act("start", v)
       \/ \E k \in Displaced(v) : a = Detach(v, k)
       \/ \E c \in Moves(v) : a = Attach(v, c)

DownAction(a) ==
  \/ \E n \in NetSet : a = Act("remove", n) \/ a = Act("apply", kind[n])
  \/ \E v \in VMSet : a = Act("stop", v) \/ a = Act("destroy", v)

-----------------------------------------------------------------------------
(* A VM that does not exist has no devices and does not run.               *)
AbsentVMs == \A v \in VMSet : vm[v] = "absent" => nic[v] = NoDevice /\ ~on[v]

AbsentInv ==
  /\ AbsentVMs
  /\ \A v \in VMSet : seen.vm[v] = "absent" => seen.nic[v] = NoDevice
  /\ outcome # "run" => todo = <<>>
  /\ outcome = "run" => target \in {"up", "down"}

Active(goal) == target = goal /\ outcome \in {"run", "done"}

PlanInv == \A a \in Left : UpAction(a)

(* The networks that the planning saw absent or applied.                   *)
UpNetInv ==
  \A n \in NetSet : ~Pending(n) =>
    \/ net[n] = "applied"
    \/ net[n] = "declared" /\ Act("apply", kind[n]) \in Left
    \/ net[n] = "absent" /\ Before(todo, Act("create", n), Act("apply", kind[n]))

UpVMInv ==
  \A v \in VMSet :
    /\ vm[v] = "absent" => Fresh(v)
    /\ Fresh(v) /\ vm[v] = "absent"
         => Before(todo, Act("clone", v), Act("configure", v))
    /\ Fresh(v) /\ vm[v] = "cloned" => Act("configure", v) \in Left
    /\ seen.vm[v] = "ready" => vm[v] = "ready"
    /\ Fresh(v) /\ on[v] => wish[v].running

(* The later stages are whole as long as an earlier one is under way.      *)
UpStageInv ==
  /\ (\E a \in Left : UpRank(a) < 3) =>
       \A v \in VMSet : ToClean(v) => Act("clean", v) \in Left
  /\ (\E a \in Left : UpRank(a) < 4) =>
       \A v \in VMSet : \A c \in Moves(v) : Attach(v, c) \in Left

(* The devices of a VM that are to be moved, and the others.               *)
UpMoveInv ==
  \A v \in VMSet : Fresh(v) \/ Untangled(v) =>
    \A c \in Moves(v) : Attach(v, c) \in Left \/ nic[v][c.num] = c.net

UpFreshInv ==
  \A v \in VMSet : Fresh(v) /\ vm[v] # "absent" /\ ~ignored =>
    \A k \in Numbers : (\A c \in ToSet(Declared(v)) : c.num # k) =>
      \/ nic[v][k] = Template[k] /\ (ToClean(v) => Act("clean", v) \in Left)
      \/ nic[v][k] = None /\ ToClean(v)

UpKeptInv ==
  \A v \in VMSet : ~Fresh(v) /\ Untangled(v) =>
    \A c \in ToSet(Declared(v)) :
      /\ seen.nic[v][c.num] = c.net /\ ~ToClean(v) => nic[v][c.num] = c.net
      /\ seen.nic[v][c.num] # c.net /\ ~ignored =>
           \A k \in Numbers : nic[v][k] = c.net /\ k # c.num => Detach(v, k) \in Left

UpInv ==
  /\ PlanInv /\ UpOrder(todo)
  /\ UpNetInv /\ UpVMInv /\ UpStageInv
  /\ UpMoveInv /\ UpFreshInv /\ UpKeptInv

DownNetInv ==
  \A n \in NetSet : ~Pending(n) =>
    \/ net[n] = "absent"
    \/ net[n] = "removing" /\ Act("apply", kind[n]) \in Left
    \/ net[n] = "applied" /\ Before(todo, Act("remove", n), Act("apply", kind[n]))

DownInv ==
  /\ \A a \in Left : DownAction(a)
  /\ DownOrder(todo)
  /\ \A v \in VMSet : vm[v] # "absent" => Act("destroy", v) \in Left
  /\ DownNetInv

TransactionInv ==
  /\ TypeOK /\ AbsentInv
  /\ Active("up") => UpInv
  /\ Active("down") => DownInv

-----------------------------------------------------------------------------
(* What a plan is made of *)

LEMMA ActionFields ==
  /\ \A op, item : /\ Act(op, item).op = op /\ Act(op, item).item = item
                   /\ Act(op, item).num = None /\ Act(op, item).net = None
  /\ \A v, c : /\ Attach(v, c).op = "attach" /\ Attach(v, c).item = v
               /\ Attach(v, c).num = c.num /\ Attach(v, c).net = c.net
  /\ \A v, k : /\ Detach(v, k).op = "detach" /\ Detach(v, k).item = v
               /\ Detach(v, k).num = k /\ Detach(v, k).net = None
BY DEF Act, Attach, Detach

LEMMA ActionTypes ==
  /\ \A n \in NetSet : Act("create", n) \in Actions /\ Act("remove", n) \in Actions
  /\ \A k \in Kinds : Act("apply", k) \in Actions
  /\ \A v \in VMSet : \A op \in {"clone", "configure", "clean", "start", "stop", "destroy"} :
       Act(op, v) \in Actions
  /\ \A v \in VMSet : \A c \in [num : Numbers, net : NetSet] : Attach(v, c) \in Actions
  /\ \A v \in VMSet : \A k \in Numbers : Detach(v, k) \in Actions
BY DEF Act, Attach, Detach, Actions

LEMMA Literals ==
  /\ \A S : <<>> \in Seq(S)
  /\ ToSet(<<>>) = {}
  /\ \A S : \A x \in S : <<x>> \in Seq(S)
  /\ \A x : ToSet(<<x>>) = {x}
  /\ \A S : \A x, y \in S : <<x, y>> \in Seq(S)
  /\ \A x, y : ToSet(<<x, y>>) = {x, y} /\ Before(<<x, y>>, x, y)
<1>1. /\ \A S : <<>> \in Seq(S)
      /\ \A S : \A x \in S : <<x>> \in Seq(S)
      /\ \A S : \A x, y \in S : <<x, y>> \in Seq(S)
  OBVIOUS
<1>2. ToSet(<<>>) = {}
  BY DEF ToSet
<1>3. ASSUME NEW x PROVE ToSet(<<x>>) = {x}
  BY DEF ToSet
<1>4. ASSUME NEW x, NEW y PROVE ToSet(<<x, y>>) = {x, y} /\ Before(<<x, y>>, x, y)
  <2>1. DOMAIN <<x, y>> = {1, 2} /\ <<x, y>>[1] = x /\ <<x, y>>[2] = y
    OBVIOUS
  <2>2. 1 < 2
    OBVIOUS
  <2> QED BY <2>1, <2>2, Zenon DEF ToSet, Before
<1> QED BY <1>1, <1>2, <1>3, <1>4, Zenon

LEMMA AppendElements ==
  ASSUME NEW S, NEW s \in Seq(S), NEW x \in S
  PROVE  Append(s, x) \in Seq(S) /\ ToSet(Append(s, x)) = ToSet(s) \union {x}
<1> DEFINE t == Append(s, x)
           n == Len(s)
<1>1. /\ t \in Seq(S) /\ Len(t) = n + 1 /\ n \in Nat
      /\ \A i \in 1 .. n : t[i] = s[i]
      /\ t[n + 1] = x
  BY AppendProperties
<1>2. DOMAIN t = 1 .. n + 1 /\ DOMAIN s = 1 .. n
  BY <1>1
<1> HIDE DEF t, n
<1>3. DOMAIN t = DOMAIN s \union {n + 1}
  BY <1>1, <1>2
<1>4. ToSet(t) = ToSet(s) \union {x}
  <2>1. t[n + 1] = x /\ \A i \in DOMAIN s : t[i] = s[i]
    BY <1>1, <1>2
  <2> QED BY <2>1, <1>3 DEF ToSet
<1> QED BY <1>1, <1>4 DEF t

LEMMA Gathered ==
  ASSUME NEW S, NEW s, s \in Seq(ToSet(s)), NEW f, \A x \in ToSet(s) : f[x] \in Seq(S)
  PROVE  LET u == FlattenSeq([i \in DOMAIN s |-> f[s[i]]])
         IN  /\ u \in Seq(S)
             /\ \A a : a \in ToSet(u) <=> \E x \in ToSet(s) : a \in ToSet(f[x])
             /\ \A x \in ToSet(s) : \A a, b : Before(f[x], a, b) => Before(u, a, b)
<1> DEFINE seqs == [i \in DOMAIN s |-> f[s[i]]]
           u == FlattenSeq(seqs)
<1>1. /\ DOMAIN seqs = DOMAIN s
      /\ \A i \in DOMAIN s : seqs[i] = f[s[i]] /\ s[i] \in ToSet(s)
      /\ \A x \in ToSet(s) : \E i \in DOMAIN s : x = s[i]
  BY DEF ToSet
<1>2. \A i \in DOMAIN s : seqs[i] \in Seq(S)
  BY <1>1
<1>3. seqs \in Seq(Seq(S))
  <2>1. DOMAIN s = 1 .. Len(s) /\ Len(s) \in Nat
    OBVIOUS
  <2>2. seqs \in [1 .. Len(s) -> Seq(S)]
    BY <1>2, <2>1
  <2> HIDE DEF seqs
  <2> QED BY <2>1, <2>2
<1> HIDE DEF seqs
<1>4. /\ u \in Seq(S)
      /\ ToSet(u) = UNION {ToSet(seqs[i]) : i \in DOMAIN seqs}
      /\ \A i \in DOMAIN seqs : \A a, b : Before(seqs[i], a, b) => Before(u, a, b)
  BY <1>3, FlattenElements
<1> HIDE DEF u
<1>5. \A a : a \in ToSet(u) <=> \E x \in ToSet(s) : a \in ToSet(f[x])
  BY <1>1, <1>4
<1>6. \A x \in ToSet(s) : \A a, b : Before(f[x], a, b) => Before(u, a, b)
  BY <1>1, <1>4
<1> QED BY <1>4, <1>5, <1>6 DEF u, seqs

(* The stages of a deployment.                                             *)
LEMMA NetworkBlocks ==
  ASSUME TypeOK, NEW n \in NetSet
  PROVE  /\ NetworkExists(n) \in Seq(Actions) /\ NetworkNotExists(n) \in Seq(Actions)
         /\ ToSet(NetworkExists(n)) =
              IF Listed(n) THEN {} ELSE {Act("create", n), Act("apply", kind[n])}
         /\ ToSet(NetworkNotExists(n)) =
              IF Listed(n) THEN {Act("remove", n), Act("apply", kind[n])} ELSE {}
         /\ ~Listed(n) => Before(NetworkExists(n), Act("create", n), Act("apply", kind[n]))
         /\ Listed(n) => Before(NetworkNotExists(n), Act("remove", n), Act("apply", kind[n]))
<1>1. kind[n] \in Kinds
  BY DEF TypeOK
<1>2. /\ Act("create", n) \in Actions /\ Act("remove", n) \in Actions
      /\ Act("apply", kind[n]) \in Actions
  BY <1>1, ActionTypes
<1> QED BY <1>2, Literals, Zenon DEF NetworkExists, NetworkNotExists

LEMMA VMBlocks ==
  ASSUME NEW v \in VMSet
  PROVE  /\ VMExists(v) \in Seq(Actions) /\ VMNotExists(v) \in Seq(Actions)
         /\ NetworksRemoved(v) \in Seq(Actions)
         /\ ToSet(VMExists(v)) =
              IF vm[v] = "absent" THEN {Act("clone", v), Act("configure", v)} ELSE {}
         /\ ToSet(VMNotExists(v)) = IF vm[v] = "absent" THEN {} ELSE {Act("destroy", v)}
         /\ ToSet(NetworksRemoved(v)) = IF ToClean(v) THEN {Act("clean", v)} ELSE {}
         /\ vm[v] = "absent" => Before(VMExists(v), Act("clone", v), Act("configure", v))
<1>1. \A op \in {"clone", "configure", "clean", "destroy"} : Act(op, v) \in Actions
  BY ActionTypes
<1>2. /\ Act("clone", v) \in Actions /\ Act("configure", v) \in Actions
      /\ Act("clean", v) \in Actions /\ Act("destroy", v) \in Actions
  BY <1>1
<1> QED BY <1>2, Literals, Zenon DEF VMExists, VMNotExists, NetworksRemoved, ToClean

LEMMA PowerBlock ==
  ASSUME TypeOK, NEW v \in VMSet, NEW up \in BOOLEAN
  PROVE  /\ Power(v, up) \in Seq(Actions)
         /\ \A a : a \in ToSet(Power(v, up)) <=>
              \/ /\ a = Act("start", v) /\ up /\ wish[v].running
                 /\ vm[v] = "absent" \/ ~on[v]
              \/ /\ a = Act("stop", v) /\ ~(up /\ wish[v].running)
                 /\ vm[v] # "absent" /\ on[v]
<1>1. Act("start", v) \in Actions /\ Act("stop", v) \in Actions
  BY ActionTypes
<1>2. on[v] \in BOOLEAN /\ wish[v].running \in BOOLEAN
  BY PlanAssumption DEF TypeOK
<1>0. \A x \in Actions : <<x>> \in Seq(Actions) /\ ToSet(<<x>>) = {x}
  BY Literals, Zenon
<1> DEFINE goal == up /\ wish[v].running
<1>3. goal \in BOOLEAN
  BY <1>2
<1>4. CASE vm[v] = "absent"
  <2>1. Power(v, up) = IF goal THEN <<Act("start", v)>> ELSE <<>>
    BY <1>4, Zenon DEF Power
  <2>2. CASE goal
    <3>0. Power(v, up) = <<Act("start", v)>>
      BY <2>1, <2>2, Zenon
    <3>1. Power(v, up) \in Seq(Actions) /\ ToSet(Power(v, up)) = {Act("start", v)}
      BY <1>0, <1>1, <3>0, Zenon
    <3> QED BY <1>4, <2>2, <3>1, Zenon
  <2>3. CASE ~goal
    <3>1. Power(v, up) \in Seq(Actions) /\ ToSet(Power(v, up)) = {}
      BY <2>1, <2>3, Literals, Zenon
    <3> QED BY <1>4, <2>3, <3>1, Zenon
  <2> QED BY <2>2, <2>3
<1>5. CASE vm[v] # "absent" /\ on[v] = goal
  <2>1. Power(v, up) = <<>>
    BY <1>5, Zenon DEF Power
  <2>2. on[v] <=> goal
    BY <1>5, Zenon
  <2> QED BY <1>5, <2>1, <2>2, Literals, Zenon
<1>6. CASE vm[v] # "absent" /\ on[v] # goal
  <2>1. Power(v, up) = <<Act(IF on[v] THEN "stop" ELSE "start", v)>>
    BY <1>6, Zenon DEF Power
  <2>2. on[v] <=> ~goal
    BY <1>2, <1>3, <1>6, Zenon
  <2>3. CASE on[v]
    <3>1. Power(v, up) = <<Act("stop", v)>>
      BY <2>1, <2>3, Zenon
    <3>2. Power(v, up) \in Seq(Actions) /\ ToSet(Power(v, up)) = {Act("stop", v)}
      BY <1>0, <1>1, <3>1, Zenon
    <3> QED BY <1>6, <2>2, <2>3, <3>2, Zenon
  <2>4. CASE ~on[v]
    <3>1. Power(v, up) = <<Act("start", v)>>
      BY <2>1, <2>4, Zenon
    <3>2. Power(v, up) \in Seq(Actions) /\ ToSet(Power(v, up)) = {Act("start", v)}
      BY <1>0, <1>1, <3>1, Zenon
    <3> QED BY <1>6, <2>2, <2>4, <3>2, Zenon
  <2> QED BY <2>3, <2>4
<1> QED BY <1>4, <1>5, <1>6

Connection == [num : Numbers, net : NetSet]

(* What the planning reads of a configuration.                             *)
LEMMA DeclaredType ==
  ASSUME TypeOK, NEW v \in VMSet
  PROVE  /\ Declared(v) \in Seq(Connection)
         /\ \A c \in ToSet(Declared(v)) : c \in Connection
         /\ \A c, d \in ToSet(Declared(v)) : c.num = d.num => c = d
         /\ wish[v].nets = <<>> => Declared(v) = <<>>
<1>1. wish[v] \in Wishes
  BY DEF TypeOK
<1>2. CASE ~Given(wish[v])
  <2>1. Declared(v) = <<>>
    BY <1>2 DEF Declared
  <2> QED BY <2>1, Literals, Zenon
<1>3. CASE Given(wish[v])
  <2> DEFINE d == Declared(v)
  <2>1. d = Enumerate(wish[v].nets)
    BY <1>3 DEF Declared
  <2>2. Networks(wish[v].nets)
    BY <1>1, <1>3, PlanAssumption DEF Networks
  <2>3. /\ d \in Seq(Connection) /\ Len(d) = Len(wish[v].nets)
        /\ \A i, j \in DOMAIN d : d[i].num = d[j].num => i = j
    <3>1. \A nets : Networks(nets) =>
             /\ Enumerate(nets) \in Seq([num : Numbers, net : NetSet])
             /\ Len(Enumerate(nets)) = Len(nets)
             /\ \A i, j \in DOMAIN Enumerate(nets) :
                  Enumerate(nets)[i].num = Enumerate(nets)[j].num => i = j
      BY EnumerateNumbers
    <3> QED BY <2>1, <2>2, <3>1, Zenon DEF Connection
  <2> HIDE DEF d
  <2>4. \A c \in ToSet(d) : c \in Connection
    BY <2>3 DEF ToSet
  <2>5. \A x, y \in ToSet(d) : x.num = y.num => x = y
    BY <2>3, Zenon DEF ToSet
  <2>6. wish[v].nets = <<>> => d = <<>>
    BY <2>3
  <2> QED BY <2>3, <2>4, <2>5, <2>6 DEF d
<1> QED BY <1>2, <1>3

LEMMA ConnectionBlock ==
  ASSUME NEW v \in VMSet, NEW c \in Connection
  PROVE  /\ NetworkConnected(v, c) \in Seq(Actions)
         /\ \A a : a \in ToSet(NetworkConnected(v, c)) <=>
              /\ nic[v][c.num] # c.net
              /\ a = Attach(v, c) \/ \E k \in Numbers : nic[v][k] = c.net /\ a = Detach(v, k)
<1> DEFINE on_net == {k \in Numbers : nic[v][k] = c.net}
           others == SetToSeq(on_net)
           detach == [i \in DOMAIN others |-> Detach(v, others[i])]
<1>1. Attach(v, c) \in Actions /\ \A k \in Numbers : Detach(v, k) \in Actions
  BY ActionTypes DEF Connection
<1>2. CASE nic[v][c.num] = c.net
  BY <1>2, Literals, Zenon DEF NetworkConnected
<1>3. CASE nic[v][c.num] # c.net
  <2>1. NetworkConnected(v, c) = Append(detach, Attach(v, c))
    BY <1>3, Zenon DEF NetworkConnected
  <2>2. IsFiniteSet(on_net) /\ on_net \subseteq Numbers
    BY PlanAssumption, FS_Subset
  <2> HIDE DEF on_net
  <2>3. others \in Seq(on_net) /\ ToSet(others) = on_net
    BY <2>2, SetToSeqElements
  <2> HIDE DEF others
  <2>4. DOMAIN others = 1 .. Len(others) /\ Len(others) \in Nat
    BY <2>3
  <2>5. /\ DOMAIN detach = DOMAIN others
        /\ \A i \in DOMAIN others : detach[i] = Detach(v, others[i]) /\ others[i] \in Numbers
    BY <2>2, <2>3
  <2>6. detach \in Seq(Actions)
    <3>1. detach \in [1 .. Len(others) -> Actions]
      BY <1>1, <2>2, <2>3, <2>4
    <3> HIDE DEF detach
    <3> QED BY <2>4, <3>1
  <2> HIDE DEF detach
  <2>7. ToSet(detach) = {Detach(v, k) : k \in on_net}
    BY <2>3, <2>5 DEF ToSet
  <2>8. /\ Append(detach, Attach(v, c)) \in Seq(Actions)
        /\ ToSet(Append(detach, Attach(v, c))) = ToSet(detach) \union {Attach(v, c)}
    BY <1>1, <2>6, AppendElements
  <2>9. \A a : a \in ToSet(NetworkConnected(v, c)) <=>
              a = Attach(v, c) \/ \E k \in Numbers : nic[v][k] = c.net /\ a = Detach(v, k)
    BY <2>1, <2>7, <2>8 DEF on_net
  <2> QED BY <1>3, <2>1, <2>8, <2>9
<1> QED BY <1>2, <1>3

ConnectionsOf(v) ==
  UNION {ToSet(NetworkConnected(v, c)) : c \in ToSet(Declared(v))}

LEMMA ConnectionBlocks ==
  ASSUME TypeOK, NEW v \in VMSet
  PROVE  /\ Connections(v) \in Seq(Actions)
         /\ ToSet(Connections(v)) = ConnectionsOf(v)
<1> DEFINE d == Declared(v)
           f == [c \in ToSet(d) |-> NetworkConnected(v, c)]
           u == FlattenSeq([i \in DOMAIN d |-> f[d[i]]])
<1>1. d \in Seq(ToSet(d)) /\ \A i \in DOMAIN d : d[i] \in ToSet(d)
  BY DeclaredType DEF ToSet
<1>2. \A c \in ToSet(d) : f[c] = NetworkConnected(v, c) /\ f[c] \in Seq(Actions)
  BY DeclaredType, ConnectionBlock
<1>3. Connections(v) = FlattenSeq([i \in DOMAIN d |-> NetworkConnected(v, d[i])])
  BY DEF Connections, Gather
<1>4. [i \in DOMAIN d |-> NetworkConnected(v, d[i])] = [i \in DOMAIN d |-> f[d[i]]]
  BY <1>1, <1>2
<1> HIDE DEF f, d
<1>5. u \in Seq(Actions) /\ \A a : a \in ToSet(u) <=> \E c \in ToSet(d) : a \in ToSet(f[c])
  BY <1>1, <1>2, Gathered
<1>6. Connections(v) = u
  BY <1>3, <1>4
<1> HIDE DEF u
<1>7. ToSet(u) = ConnectionsOf(v)
  BY <1>2, <1>5 DEF ConnectionsOf, d
<1> QED BY <1>5, <1>6, <1>7

(* The stages of a deployment, in their order.                             *)
LEMMA UpStages ==
  ASSUME TypeOK
  PROVE  LET s1 == Gather(NetworkExists, Nets)
             s2 == Gather(VMExists, VMs)
             s3 == Gather(NetworksRemoved, VMs)
             s4 == Gather(Connections, VMs)
             s5 == Gather(LAMBDA v : Power(v, TRUE), VMs)
         IN  /\ s1 \in Seq(Actions) /\ s2 \in Seq(Actions) /\ s3 \in Seq(Actions)
             /\ s4 \in Seq(Actions) /\ s5 \in Seq(Actions)
             /\ \A a : a \in ToSet(s1) <=> \E n \in NetSet : a \in ToSet(NetworkExists(n))
             /\ \A a : a \in ToSet(s2) <=> \E v \in VMSet : a \in ToSet(VMExists(v))
             /\ \A a : a \in ToSet(s3) <=> \E v \in VMSet : a \in ToSet(NetworksRemoved(v))
             /\ \A a : a \in ToSet(s4) <=> \E v \in VMSet : a \in ToSet(Connections(v))
             /\ \A a : a \in ToSet(s5) <=> \E v \in VMSet : a \in ToSet(Power(v, TRUE))
             /\ \A n \in NetSet : \A a, b :
                  Before(NetworkExists(n), a, b) => Before(s1, a, b)
             /\ \A v \in VMSet : \A a, b : Before(VMExists(v), a, b) => Before(s2, a, b)
<1>1. VMs \in Seq(ToSet(VMs)) /\ Nets \in Seq(ToSet(Nets))
  BY PlanAssumption DEF VMSet, NetSet
<1>2. (\A i \in DOMAIN VMs : VMs[i] \in VMSet) /\ (\A i \in DOMAIN Nets : Nets[i] \in NetSet)
  BY DEF VMSet, NetSet, ToSet
<1>3. /\ Gather(NetworkExists, Nets) \in Seq(Actions)
      /\ \A a : a \in ToSet(Gather(NetworkExists, Nets)) <=> \E n \in NetSet : a \in ToSet(NetworkExists(n))
      /\ \A n \in NetSet : \A a, b : Before(NetworkExists(n), a, b) => Before(Gather(NetworkExists, Nets), a, b)
  <2> DEFINE f == [n \in NetSet |-> NetworkExists(n)]
             u == FlattenSeq([i \in DOMAIN Nets |-> f[Nets[i]]])
  <2>1. \A n \in NetSet : f[n] = NetworkExists(n) /\ f[n] \in Seq(Actions)
    BY NetworkBlocks
  <2>2. Gather(NetworkExists, Nets) = FlattenSeq([i \in DOMAIN Nets |-> NetworkExists(Nets[i])])
    BY DEF Gather
  <2>3. [i \in DOMAIN Nets |-> NetworkExists(Nets[i])] = [i \in DOMAIN Nets |-> f[Nets[i]]]
    BY <1>2, <2>1
  <2> HIDE DEF f
  <2>4. /\ u \in Seq(Actions)
        /\ \A a : a \in ToSet(u) <=> \E x \in ToSet(Nets) : a \in ToSet(f[x])
        /\ \A x \in ToSet(Nets) : \A a, b : Before(f[x], a, b) => Before(u, a, b)
    <3>1. \A x \in ToSet(Nets) : f[x] \in Seq(Actions)
      BY <2>1 DEF NetSet
    <3> QED BY <1>1, <3>1, Gathered
  <2>5. Gather(NetworkExists, Nets) = u
    BY <2>2, <2>3
  <2> HIDE DEF u
  <2> QED BY <2>1, <2>4, <2>5, Zenon DEF NetSet
<1>4. /\ Gather(VMExists, VMs) \in Seq(Actions)
      /\ \A a : a \in ToSet(Gather(VMExists, VMs)) <=> \E v \in VMSet : a \in ToSet(VMExists(v))
      /\ \A v \in VMSet : \A a, b : Before(VMExists(v), a, b) => Before(Gather(VMExists, VMs), a, b)
  <2> DEFINE f == [v \in VMSet |-> VMExists(v)]
             u == FlattenSeq([i \in DOMAIN VMs |-> f[VMs[i]]])
  <2>1. \A v \in VMSet : f[v] = VMExists(v) /\ f[v] \in Seq(Actions)
    BY VMBlocks
  <2>2. Gather(VMExists, VMs) = FlattenSeq([i \in DOMAIN VMs |-> VMExists(VMs[i])])
    BY DEF Gather
  <2>3. [i \in DOMAIN VMs |-> VMExists(VMs[i])] = [i \in DOMAIN VMs |-> f[VMs[i]]]
    BY <1>2, <2>1
  <2> HIDE DEF f
  <2>4. /\ u \in Seq(Actions)
        /\ \A a : a \in ToSet(u) <=> \E x \in ToSet(VMs) : a \in ToSet(f[x])
        /\ \A x \in ToSet(VMs) : \A a, b : Before(f[x], a, b) => Before(u, a, b)
    <3>1. \A x \in ToSet(VMs) : f[x] \in Seq(Actions)
      BY <2>1 DEF VMSet
    <3> QED BY <1>1, <3>1, Gathered
  <2>5. Gather(VMExists, VMs) = u
    BY <2>2, <2>3
  <2> HIDE DEF u
  <2> QED BY <2>1, <2>4, <2>5, Zenon DEF VMSet
<1>5. /\ Gather(NetworksRemoved, VMs) \in Seq(Actions)
      /\ \A a : a \in ToSet(Gather(NetworksRemoved, VMs)) <=> \E v \in VMSet : a \in ToSet(NetworksRemoved(v))
  <2> DEFINE f == [v \in VMSet |-> NetworksRemoved(v)]
             u == FlattenSeq([i \in DOMAIN VMs |-> f[VMs[i]]])
  <2>1. \A v \in VMSet : f[v] = NetworksRemoved(v) /\ f[v] \in Seq(Actions)
    BY VMBlocks
  <2>2. Gather(NetworksRemoved, VMs) = FlattenSeq([i \in DOMAIN VMs |-> NetworksRemoved(VMs[i])])
    BY DEF Gather
  <2>3. [i \in DOMAIN VMs |-> NetworksRemoved(VMs[i])] = [i \in DOMAIN VMs |-> f[VMs[i]]]
    BY <1>2, <2>1
  <2> HIDE DEF f
  <2>4. /\ u \in Seq(Actions)
        /\ \A a : a \in ToSet(u) <=> \E x \in ToSet(VMs) : a \in ToSet(f[x])
        /\ \A x \in ToSet(VMs) : \A a, b : Before(f[x], a, b) => Before(u, a, b)
    <3>1. \A x \in ToSet(VMs) : f[x] \in Seq(Actions)
      BY <2>1 DEF VMSet
    <3> QED BY <1>1, <3>1, Gathered
  <2>5. Gather(NetworksRemoved, VMs) = u
    BY <2>2, <2>3
  <2> HIDE DEF u
  <2> QED BY <2>1, <2>4, <2>5, Zenon DEF VMSet
<1>6. /\ Gather(Connections, VMs) \in Seq(Actions)
      /\ \A a : a \in ToSet(Gather(Connections, VMs)) <=> \E v \in VMSet : a \in ToSet(Connections(v))
  <2> DEFINE f == [v \in VMSet |-> Connections(v)]
             u == FlattenSeq([i \in DOMAIN VMs |-> f[VMs[i]]])
  <2>1. \A v \in VMSet : f[v] = Connections(v) /\ f[v] \in Seq(Actions)
    BY ConnectionBlocks
  <2>2. Gather(Connections, VMs) = FlattenSeq([i \in DOMAIN VMs |-> Connections(VMs[i])])
    BY DEF Gather
  <2>3. [i \in DOMAIN VMs |-> Connections(VMs[i])] = [i \in DOMAIN VMs |-> f[VMs[i]]]
    BY <1>2, <2>1
  <2> HIDE DEF f
  <2>4. /\ u \in Seq(Actions)
        /\ \A a : a \in ToSet(u) <=> \E x \in ToSet(VMs) : a \in ToSet(f[x])
        /\ \A x \in ToSet(VMs) : \A a, b : Before(f[x], a, b) => Before(u, a, b)
    <3>1. \A x \in ToSet(VMs) : f[x] \in Seq(Actions)
      BY <2>1 DEF VMSet
    <3> QED BY <1>1, <3>1, Gathered
  <2>5. Gather(Connections, VMs) = u
    BY <2>2, <2>3
  <2> HIDE DEF u
  <2> QED BY <2>1, <2>4, <2>5, Zenon DEF VMSet
<1>7. /\ Gather(LAMBDA v : Power(v, TRUE), VMs) \in Seq(Actions)
      /\ \A a : a \in ToSet(Gather(LAMBDA v : Power(v, TRUE), VMs)) <=> \E v \in VMSet : a \in ToSet(Power(v, TRUE))
  <2> DEFINE f == [v \in VMSet |-> Power(v, TRUE)]
             u == FlattenSeq([i \in DOMAIN VMs |-> f[VMs[i]]])
  <2>1. \A v \in VMSet : f[v] = Power(v, TRUE) /\ f[v] \in Seq(Actions)
    BY PowerBlock
  <2>2. Gather(LAMBDA v : Power(v, TRUE), VMs) = FlattenSeq([i \in DOMAIN VMs |-> Power(VMs[i], TRUE)])
    BY DEF Gather
  <2>3. [i \in DOMAIN VMs |-> Power(VMs[i], TRUE)] = [i \in DOMAIN VMs |-> f[VMs[i]]]
    BY <1>2, <2>1
  <2> HIDE DEF f
  <2>4. /\ u \in Seq(Actions)
        /\ \A a : a \in ToSet(u) <=> \E x \in ToSet(VMs) : a \in ToSet(f[x])
        /\ \A x \in ToSet(VMs) : \A a, b : Before(f[x], a, b) => Before(u, a, b)
    <3>1. \A x \in ToSet(VMs) : f[x] \in Seq(Actions)
      BY <2>1 DEF VMSet
    <3> QED BY <1>1, <3>1, Gathered
  <2>5. Gather(LAMBDA v : Power(v, TRUE), VMs) = u
    BY <2>2, <2>3
  <2> HIDE DEF u
  <2> QED BY <2>1, <2>4, <2>5, Zenon DEF VMSet
<1> QED BY <1>3, <1>4, <1>5, <1>6, <1>7, Zenon

LEMMA UpStageRanks ==
  ASSUME TypeOK
  PROVE  /\ \A n \in NetSet : \A a \in ToSet(NetworkExists(n)) : UpRank(a) = 1
         /\ \A v \in VMSet : \A a \in ToSet(VMExists(v)) : UpRank(a) = 2
         /\ \A v \in VMSet : \A a \in ToSet(NetworksRemoved(v)) : UpRank(a) = 3
         /\ \A v \in VMSet : \A a \in ToSet(Connections(v)) : UpRank(a) = 4
         /\ \A v \in VMSet : \A a \in ToSet(Power(v, TRUE)) : UpRank(a) = 5
<1>1. ASSUME NEW n \in NetSet, NEW a \in ToSet(NetworkExists(n)) PROVE UpRank(a) = 1
  <2>1. a = Act("create", n) \/ a = Act("apply", kind[n])
    BY NetworkBlocks
  <2> QED BY <2>1, ActionFields DEF UpRank
<1>2. ASSUME NEW v \in VMSet, NEW a \in ToSet(VMExists(v)) PROVE UpRank(a) = 2
  <2>1. a = Act("clone", v) \/ a = Act("configure", v)
    BY VMBlocks
  <2> QED BY <2>1, ActionFields DEF UpRank
<1>3. ASSUME NEW v \in VMSet, NEW a \in ToSet(NetworksRemoved(v)) PROVE UpRank(a) = 3
  <2>1. a = Act("clean", v)
    BY VMBlocks
  <2> QED BY <2>1, ActionFields DEF UpRank
<1>4. ASSUME NEW v \in VMSet, NEW a \in ToSet(Connections(v)) PROVE UpRank(a) = 4
  <2>1. PICK c \in ToSet(Declared(v)) : a \in ToSet(NetworkConnected(v, c))
    BY ConnectionBlocks DEF ConnectionsOf
  <2>2. a = Attach(v, c) \/ \E k \in Numbers : a = Detach(v, k)
    BY <2>1, ConnectionBlock, DeclaredType
  <2>3. a.op \in {"attach", "detach"}
    BY <2>2, ActionFields
  <2> QED BY <2>3 DEF UpRank
<1>5. ASSUME NEW v \in VMSet, NEW a \in ToSet(Power(v, TRUE)) PROVE UpRank(a) = 5
  <2>1. a = Act("start", v) \/ a = Act("stop", v)
    BY PowerBlock
  <2> QED BY <2>1, ActionFields DEF UpRank
<1> QED BY <1>1, <1>2, <1>3, <1>4, <1>5

(* The plan of a deployment: what is in it, and in which order.            *)
LEMMA UpPlanned ==
  ASSUME TypeOK
  PROVE  /\ UpPlan \in Seq(Actions) /\ UpOrder(UpPlan)
         /\ \A a : a \in ToSet(UpPlan) <=>
              \/ \E n \in NetSet : a \in ToSet(NetworkExists(n))
              \/ \E v \in VMSet : a \in ToSet(VMExists(v))
              \/ \E v \in VMSet : a \in ToSet(NetworksRemoved(v))
              \/ \E v \in VMSet : a \in ToSet(Connections(v))
              \/ \E v \in VMSet : a \in ToSet(Power(v, TRUE))
         /\ \A n \in NetSet : ~Listed(n) =>
              Before(UpPlan, Act("create", n), Act("apply", kind[n]))
         /\ \A v \in VMSet : vm[v] = "absent" =>
              Before(UpPlan, Act("clone", v), Act("configure", v))
<1> DEFINE s1 == Gather(NetworkExists, Nets)
           s2 == Gather(VMExists, VMs)
           s3 == Gather(NetworksRemoved, VMs)
           s4 == Gather(Connections, VMs)
           s5 == Gather(LAMBDA v : Power(v, TRUE), VMs)
<1>1. /\ s1 \in Seq(Actions) /\ s2 \in Seq(Actions) /\ s3 \in Seq(Actions)
      /\ s4 \in Seq(Actions) /\ s5 \in Seq(Actions)
      /\ \A a : a \in ToSet(s1) <=> \E n \in NetSet : a \in ToSet(NetworkExists(n))
      /\ \A a : a \in ToSet(s2) <=> \E v \in VMSet : a \in ToSet(VMExists(v))
      /\ \A a : a \in ToSet(s3) <=> \E v \in VMSet : a \in ToSet(NetworksRemoved(v))
      /\ \A a : a \in ToSet(s4) <=> \E v \in VMSet : a \in ToSet(Connections(v))
      /\ \A a : a \in ToSet(s5) <=> \E v \in VMSet : a \in ToSet(Power(v, TRUE))
      /\ \A n \in NetSet : \A a, b :
           Before(NetworkExists(n), a, b) => Before(s1, a, b)
      /\ \A v \in VMSet : \A a, b : Before(VMExists(v), a, b) => Before(s2, a, b)
  BY UpStages, Zenon
<1>2. UpPlan = s1 \o s2 \o s3 \o s4 \o s5
  BY DEF UpPlan
<1> HIDE DEF s1, s2, s3, s4, s5
<1> DEFINE p2 == s1 \o s2
           p3 == p2 \o s3
           p4 == p3 \o s4
           p5 == p4 \o s5
<1>3. /\ p2 \in Seq(Actions) /\ ToSet(p2) = ToSet(s1) \union ToSet(s2)
      /\ \A a, b : Before(p2, a, b) <=>
           Before(s1, a, b) \/ Before(s2, a, b) \/ (a \in ToSet(s1) /\ b \in ToSet(s2))
  BY <1>1, ConcatOrder
<1>4. UpPlan = p5
  BY <1>2
<1> HIDE DEF p2
<1>5. /\ p3 \in Seq(Actions) /\ ToSet(p3) = ToSet(p2) \union ToSet(s3)
      /\ \A a, b : Before(p3, a, b) <=>
           Before(p2, a, b) \/ Before(s3, a, b) \/ (a \in ToSet(p2) /\ b \in ToSet(s3))
  BY <1>1, <1>3, ConcatOrder
<1> HIDE DEF p3
<1>6. /\ p4 \in Seq(Actions) /\ ToSet(p4) = ToSet(p3) \union ToSet(s4)
      /\ \A a, b : Before(p4, a, b) <=>
           Before(p3, a, b) \/ Before(s4, a, b) \/ (a \in ToSet(p3) /\ b \in ToSet(s4))
  BY <1>1, <1>5, ConcatOrder
<1> HIDE DEF p4
<1>7. /\ p5 \in Seq(Actions) /\ ToSet(p5) = ToSet(p4) \union ToSet(s5)
      /\ \A a, b : Before(p5, a, b) <=>
           Before(p4, a, b) \/ Before(s5, a, b) \/ (a \in ToSet(p4) /\ b \in ToSet(s5))
  BY <1>1, <1>6, ConcatOrder
<1> HIDE DEF p5
<1>8. /\ \A a \in ToSet(s1) : UpRank(a) = 1
      /\ \A a \in ToSet(s2) : UpRank(a) = 2
      /\ \A a \in ToSet(s3) : UpRank(a) = 3
      /\ \A a \in ToSet(s4) : UpRank(a) = 4
      /\ \A a \in ToSet(s5) : UpRank(a) = 5
  <2>1. /\ \A n \in NetSet : \A a \in ToSet(NetworkExists(n)) : UpRank(a) = 1
        /\ \A v \in VMSet : \A a \in ToSet(VMExists(v)) : UpRank(a) = 2
        /\ \A v \in VMSet : \A a \in ToSet(NetworksRemoved(v)) : UpRank(a) = 3
        /\ \A v \in VMSet : \A a \in ToSet(Connections(v)) : UpRank(a) = 4
        /\ \A v \in VMSet : \A a \in ToSet(Power(v, TRUE)) : UpRank(a) = 5
    BY UpStageRanks
  <2> QED BY <1>1, <2>1, Zenon
<1>9. ASSUME NEW a, NEW b, Before(p5, a, b) PROVE UpRank(a) <= UpRank(b)
  <2>1. \A s : Before(s, a, b) => a \in ToSet(s) /\ b \in ToSet(s)
    BY BeforeIn
  <2>2. \/ a \in ToSet(s1) /\ b \in ToSet(s1) \union ToSet(s2) \union ToSet(s3)
                                      \union ToSet(s4) \union ToSet(s5)
        \/ a \in ToSet(s2) /\ b \in ToSet(s2) \union ToSet(s3) \union ToSet(s4) \union ToSet(s5)
        \/ a \in ToSet(s3) /\ b \in ToSet(s3) \union ToSet(s4) \union ToSet(s5)
        \/ a \in ToSet(s4) /\ b \in ToSet(s4) \union ToSet(s5)
        \/ a \in ToSet(s5) /\ b \in ToSet(s5)
    BY <1>3, <1>5, <1>6, <1>7, <1>9, <2>1
  <2> QED BY <1>8, <2>2
<1>10. \A a : a \in ToSet(p5) <=> \/ a \in ToSet(s1) \/ a \in ToSet(s2) \/ a \in ToSet(s3)
                                  \/ a \in ToSet(s4) \/ a \in ToSet(s5)
  BY <1>3, <1>5, <1>6, <1>7
<1>11. ASSUME NEW n \in NetSet, ~Listed(n)
       PROVE  Before(p5, Act("create", n), Act("apply", kind[n]))
  <2>1. Before(NetworkExists(n), Act("create", n), Act("apply", kind[n]))
    BY <1>11, NetworkBlocks
  <2>2. Before(s1, Act("create", n), Act("apply", kind[n]))
    BY <1>1, <2>1, Zenon
  <2> QED BY <2>2, <1>3, <1>5, <1>6, <1>7, Zenon
<1>12. ASSUME NEW v \in VMSet, vm[v] = "absent"
       PROVE  Before(p5, Act("clone", v), Act("configure", v))
  <2>1. Before(VMExists(v), Act("clone", v), Act("configure", v))
    BY <1>12, VMBlocks
  <2>2. Before(s2, Act("clone", v), Act("configure", v))
    BY <1>1, <2>1, Zenon
  <2> QED BY <2>2, <1>3, <1>5, <1>6, <1>7, Zenon
<1>13. UpOrder(p5)
  BY <1>9 DEF UpOrder
<1>14. p5 \in Seq(Actions)
  BY <1>7
<1>15. \A a : a \in ToSet(p5) <=>
              \/ \E n \in NetSet : a \in ToSet(NetworkExists(n))
              \/ \E v \in VMSet : a \in ToSet(VMExists(v))
              \/ \E v \in VMSet : a \in ToSet(NetworksRemoved(v))
              \/ \E v \in VMSet : a \in ToSet(Connections(v))
              \/ \E v \in VMSet : a \in ToSet(Power(v, TRUE))
  BY <1>1, <1>10, Zenon
<1> QED BY <1>4, <1>11, <1>12, <1>13, <1>14, <1>15, Zenon

(* The stages of a destruction, in their order.                            *)
LEMMA DownStages ==
  ASSUME TypeOK
  PROVE  LET s1 == Gather(LAMBDA v : Power(v, FALSE), Reverse(VMs))
             s2 == Gather(VMNotExists, Reverse(VMs))
             s3 == Gather(NetworkNotExists, Reverse(Nets))
         IN  /\ s1 \in Seq(Actions) /\ s2 \in Seq(Actions) /\ s3 \in Seq(Actions)
             /\ \A a : a \in ToSet(s1) <=> \E v \in VMSet : a \in ToSet(Power(v, FALSE))
             /\ \A a : a \in ToSet(s2) <=> \E v \in VMSet : a \in ToSet(VMNotExists(v))
             /\ \A a : a \in ToSet(s3) <=> \E n \in NetSet : a \in ToSet(NetworkNotExists(n))
             /\ \A n \in NetSet : \A a, b :
                  Before(NetworkNotExists(n), a, b) => Before(s3, a, b)
<1> DEFINE rv == Reverse(VMs)
           rn == Reverse(Nets)
<1>0. VMs \in Seq(VMSet) /\ Nets \in Seq(NetSet)
  BY PlanAssumption
<1>1. /\ Reverse(VMs) \in Seq(ToSet(Reverse(VMs))) /\ ToSet(Reverse(VMs)) = VMSet
      /\ Reverse(Nets) \in Seq(ToSet(Reverse(Nets))) /\ ToSet(Reverse(Nets)) = NetSet
  BY <1>0, ReverseElements DEF VMSet, NetSet
<1>2. /\ \A i \in DOMAIN Reverse(VMs) : Reverse(VMs)[i] \in VMSet
      /\ \A i \in DOMAIN Reverse(Nets) : Reverse(Nets)[i] \in NetSet
  <2>1. \A s : \A i \in DOMAIN s : s[i] \in ToSet(s)
    BY DEF ToSet
  <2> QED BY <1>1, <2>1, Zenon
<1>3. /\ Gather(LAMBDA v : Power(v, FALSE), Reverse(VMs)) \in Seq(Actions)
      /\ \A a : a \in ToSet(Gather(LAMBDA v : Power(v, FALSE), Reverse(VMs))) <=> \E v \in VMSet : a \in ToSet(Power(v, FALSE))
  <2> DEFINE f == [v \in VMSet |-> Power(v, FALSE)]
             u == FlattenSeq([i \in DOMAIN Reverse(VMs) |-> f[Reverse(VMs)[i]]])
  <2>1. \A v \in VMSet : f[v] = Power(v, FALSE) /\ f[v] \in Seq(Actions)
    BY PowerBlock
  <2>2. Gather(LAMBDA v : Power(v, FALSE), Reverse(VMs)) = FlattenSeq([i \in DOMAIN Reverse(VMs) |-> Power(Reverse(VMs)[i], FALSE)])
    BY DEF Gather
  <2>3. [i \in DOMAIN Reverse(VMs) |-> Power(Reverse(VMs)[i], FALSE)] = [i \in DOMAIN Reverse(VMs) |-> f[Reverse(VMs)[i]]]
    BY <1>2, <2>1
  <2> HIDE DEF f
  <2>4. /\ u \in Seq(Actions)
        /\ \A a : a \in ToSet(u) <=> \E x \in ToSet(Reverse(VMs)) : a \in ToSet(f[x])
        /\ \A x \in ToSet(Reverse(VMs)) : \A a, b : Before(f[x], a, b) => Before(u, a, b)
    <3>1. \A x \in ToSet(Reverse(VMs)) : f[x] \in Seq(Actions)
      BY <1>1, <2>1
    <3> QED BY <1>1, <3>1, Gathered
  <2>5. Gather(LAMBDA v : Power(v, FALSE), Reverse(VMs)) = u
    BY <2>2, <2>3
  <2> HIDE DEF u
  <2> QED BY <1>1, <2>1, <2>4, <2>5, Zenon
<1>4. /\ Gather(VMNotExists, Reverse(VMs)) \in Seq(Actions)
      /\ \A a : a \in ToSet(Gather(VMNotExists, Reverse(VMs))) <=> \E v \in VMSet : a \in ToSet(VMNotExists(v))
  <2> DEFINE f == [v \in VMSet |-> VMNotExists(v)]
             u == FlattenSeq([i \in DOMAIN Reverse(VMs) |-> f[Reverse(VMs)[i]]])
  <2>1. \A v \in VMSet : f[v] = VMNotExists(v) /\ f[v] \in Seq(Actions)
    BY VMBlocks
  <2>2. Gather(VMNotExists, Reverse(VMs)) = FlattenSeq([i \in DOMAIN Reverse(VMs) |-> VMNotExists(Reverse(VMs)[i])])
    BY DEF Gather
  <2>3. [i \in DOMAIN Reverse(VMs) |-> VMNotExists(Reverse(VMs)[i])] = [i \in DOMAIN Reverse(VMs) |-> f[Reverse(VMs)[i]]]
    BY <1>2, <2>1
  <2> HIDE DEF f
  <2>4. /\ u \in Seq(Actions)
        /\ \A a : a \in ToSet(u) <=> \E x \in ToSet(Reverse(VMs)) : a \in ToSet(f[x])
        /\ \A x \in ToSet(Reverse(VMs)) : \A a, b : Before(f[x], a, b) => Before(u, a, b)
    <3>1. \A x \in ToSet(Reverse(VMs)) : f[x] \in Seq(Actions)
      BY <1>1, <2>1
    <3> QED BY <1>1, <3>1, Gathered
  <2>5. Gather(VMNotExists, Reverse(VMs)) = u
    BY <2>2, <2>3
  <2> HIDE DEF u
  <2> QED BY <1>1, <2>1, <2>4, <2>5, Zenon
<1>5. /\ Gather(NetworkNotExists, Reverse(Nets)) \in Seq(Actions)
      /\ \A a : a \in ToSet(Gather(NetworkNotExists, Reverse(Nets))) <=> \E n \in NetSet : a \in ToSet(NetworkNotExists(n))
      /\ \A n \in NetSet : \A a, b : Before(NetworkNotExists(n), a, b) => Before(Gather(NetworkNotExists, Reverse(Nets)), a, b)
  <2> DEFINE f == [n \in NetSet |-> NetworkNotExists(n)]
             u == FlattenSeq([i \in DOMAIN Reverse(Nets) |-> f[Reverse(Nets)[i]]])
  <2>1. \A n \in NetSet : f[n] = NetworkNotExists(n) /\ f[n] \in Seq(Actions)
    BY NetworkBlocks
  <2>2. Gather(NetworkNotExists, Reverse(Nets)) = FlattenSeq([i \in DOMAIN Reverse(Nets) |-> NetworkNotExists(Reverse(Nets)[i])])
    BY DEF Gather
  <2>3. [i \in DOMAIN Reverse(Nets) |-> NetworkNotExists(Reverse(Nets)[i])] = [i \in DOMAIN Reverse(Nets) |-> f[Reverse(Nets)[i]]]
    BY <1>2, <2>1
  <2> HIDE DEF f
  <2>4. /\ u \in Seq(Actions)
        /\ \A a : a \in ToSet(u) <=> \E x \in ToSet(Reverse(Nets)) : a \in ToSet(f[x])
        /\ \A x \in ToSet(Reverse(Nets)) : \A a, b : Before(f[x], a, b) => Before(u, a, b)
    <3>1. \A x \in ToSet(Reverse(Nets)) : f[x] \in Seq(Actions)
      BY <1>1, <2>1
    <3> QED BY <1>1, <3>1, Gathered
  <2>5. Gather(NetworkNotExists, Reverse(Nets)) = u
    BY <2>2, <2>3
  <2> HIDE DEF u
  <2> QED BY <1>1, <2>1, <2>4, <2>5, Zenon
<1> QED BY <1>3, <1>4, <1>5, Zenon

(* The plan of a destruction: what is in it, and in which order.           *)
LEMMA DownPlanned ==
  ASSUME TypeOK
  PROVE  /\ DownPlan \in Seq(Actions) /\ DownOrder(DownPlan)
         /\ \A a : a \in ToSet(DownPlan) <=>
              \/ \E v \in VMSet : a \in ToSet(Power(v, FALSE))
              \/ \E v \in VMSet : a \in ToSet(VMNotExists(v))
              \/ \E n \in NetSet : a \in ToSet(NetworkNotExists(n))
         /\ \A n \in NetSet : Listed(n) =>
              Before(DownPlan, Act("remove", n), Act("apply", kind[n]))
<1> DEFINE s1 == Gather(LAMBDA v : Power(v, FALSE), Reverse(VMs))
           s2 == Gather(VMNotExists, Reverse(VMs))
           s3 == Gather(NetworkNotExists, Reverse(Nets))
<1>1. /\ s1 \in Seq(Actions) /\ s2 \in Seq(Actions) /\ s3 \in Seq(Actions)
      /\ \A a : a \in ToSet(s1) <=> \E v \in VMSet : a \in ToSet(Power(v, FALSE))
      /\ \A a : a \in ToSet(s2) <=> \E v \in VMSet : a \in ToSet(VMNotExists(v))
      /\ \A a : a \in ToSet(s3) <=> \E n \in NetSet : a \in ToSet(NetworkNotExists(n))
      /\ \A n \in NetSet : \A a, b :
           Before(NetworkNotExists(n), a, b) => Before(s3, a, b)
  BY DownStages, Zenon
<1>2. DownPlan = s1 \o s2 \o s3
  BY DEF DownPlan
<1> HIDE DEF s1, s2, s3
<1> DEFINE p2 == s1 \o s2
           p3 == p2 \o s3
<1>3. /\ p2 \in Seq(Actions) /\ ToSet(p2) = ToSet(s1) \union ToSet(s2)
      /\ \A a, b : Before(p2, a, b) <=>
           Before(s1, a, b) \/ Before(s2, a, b) \/ (a \in ToSet(s1) /\ b \in ToSet(s2))
  BY <1>1, ConcatOrder
<1>4. DownPlan = p3
  BY <1>2
<1> HIDE DEF p2
<1>5. /\ p3 \in Seq(Actions) /\ ToSet(p3) = ToSet(p2) \union ToSet(s3)
      /\ \A a, b : Before(p3, a, b) <=>
           Before(p2, a, b) \/ Before(s3, a, b) \/ (a \in ToSet(p2) /\ b \in ToSet(s3))
  BY <1>1, <1>3, ConcatOrder
<1> HIDE DEF p3
<1>6. \A a \in ToSet(s1) : DownRank(a) = 1
  <2>1. \A v \in VMSet : \A a \in ToSet(Power(v, FALSE)) : a = Act("stop", v)
    BY PowerBlock
  <2>2. \A a \in ToSet(s1) : \E v \in VMSet : a = Act("stop", v)
    BY <1>1, <2>1, Zenon
  <2>3. \A a \in ToSet(s1) : a.op = "stop"
    BY <2>2, ActionFields
  <2> QED BY <2>3 DEF DownRank
<1>7. \A a \in ToSet(s2) : DownRank(a) = 2
  <2>1. \A v \in VMSet : \A a \in ToSet(VMNotExists(v)) : a = Act("destroy", v)
    BY VMBlocks
  <2> QED BY <1>1, <2>1, ActionFields DEF DownRank
<1>8. \A a \in ToSet(s3) : DownRank(a) = 3
  <2>1. \A n \in NetSet : \A a \in ToSet(NetworkNotExists(n)) :
          a = Act("remove", n) \/ a = Act("apply", kind[n])
    BY NetworkBlocks
  <2>2. \A a \in ToSet(s3) : a.op \in {"remove", "apply"}
    BY <1>1, <2>1, ActionFields
  <2> QED BY <2>2 DEF DownRank
<1>9. ASSUME NEW a, NEW b, Before(p3, a, b) PROVE DownRank(a) <= DownRank(b)
  <2>1. \A s : Before(s, a, b) => a \in ToSet(s) /\ b \in ToSet(s)
    BY BeforeIn
  <2>2. \/ a \in ToSet(s1) /\ b \in ToSet(s1) \union ToSet(s2) \union ToSet(s3)
        \/ a \in ToSet(s2) /\ b \in ToSet(s2) \union ToSet(s3)
        \/ a \in ToSet(s3) /\ b \in ToSet(s3)
    BY <1>3, <1>5, <1>9, <2>1
  <2> QED BY <1>6, <1>7, <1>8, <2>2
<1>10. DownOrder(p3)
  BY <1>9 DEF DownOrder
<1>11. ASSUME NEW n \in NetSet, Listed(n)
       PROVE  Before(p3, Act("remove", n), Act("apply", kind[n]))
  <2>1. Before(NetworkNotExists(n), Act("remove", n), Act("apply", kind[n]))
    BY <1>11, NetworkBlocks
  <2> QED BY <2>1, <1>1, <1>5, Zenon
<1>12. \A a : a \in ToSet(p3) <=>
              \/ \E v \in VMSet : a \in ToSet(Power(v, FALSE))
              \/ \E v \in VMSet : a \in ToSet(VMNotExists(v))
              \/ \E n \in NetSet : a \in ToSet(NetworkNotExists(n))
  <2>1. \A a : a \in ToSet(p3) <=> \/ a \in ToSet(s1) \/ a \in ToSet(s2) \/ a \in ToSet(s3)
    BY <1>3, <1>5
  <2> QED BY <1>1, <2>1, Zenon
<1>13. p3 \in Seq(Actions)
  BY <1>5
<1> QED BY <1>4, <1>10, <1>11, <1>12, <1>13, Zenon

(* Reloads that are left out change nothing of the rest, nor that the last *)
(* of them comes after everything it was planned for.                      *)
LEMMA Squeezed ==
  ASSUME NEW s \in Seq(Actions)
  PROVE  /\ Squeeze(s) \in Seq(Actions) /\ ToSet(Squeeze(s)) = ToSet(s)
         /\ \A x, y : Before(Squeeze(s), x, y) => Before(s, x, y)
         /\ \A x, y : x.op # "apply" /\ Before(s, x, y) => Before(Squeeze(s), x, y)
<1> DEFINE a == Act("apply", "sdn")
           b == Act("apply", "bridge")
           t == LeaveLast(a, s)
           u == LeaveLast(b, t)
<1>1. a.op = "apply" /\ b.op = "apply"
  BY ActionFields
<1> HIDE DEF a, b
<1>2. /\ t \in Seq(Actions) /\ ToSet(t) = ToSet(s)
      /\ \A x, y : Before(t, x, y) => Before(s, x, y)
      /\ \A x, y : x # a /\ Before(s, x, y) => Before(t, x, y)
  BY LeaveLastOrder
<1> HIDE DEF t
<1>3. /\ u \in Seq(Actions) /\ ToSet(u) = ToSet(t)
      /\ \A x, y : Before(u, x, y) => Before(t, x, y)
      /\ \A x, y : x # b /\ Before(t, x, y) => Before(u, x, y)
  BY <1>2, LeaveLastOrder
<1>4. Squeeze(s) = IF user = "compose" THEN s ELSE u
  BY DEF Squeeze, u, t, a, b
<1> HIDE DEF u
<1>5. \A x : x.op # "apply" => x # a /\ x # b
  BY <1>1
<1>6. /\ u \in Seq(Actions) /\ ToSet(u) = ToSet(s)
      /\ \A x, y : Before(u, x, y) => Before(s, x, y)
      /\ \A x, y : x.op # "apply" /\ Before(s, x, y) => Before(u, x, y)
  BY <1>2, <1>3, <1>5
<1> QED BY <1>4, <1>6, Zenon

-----------------------------------------------------------------------------
(* Type correctness *)

LEMMA NoDeviceType == NoDevice \in Devices /\ Template \in Devices
BY PlanAssumption DEF NoDevice, Devices

LEMMA EffectType ==
  ASSUME TypeOK, NEW a \in Actions, Effect(a)
  PROVE  /\ vm' \in [VMSet -> {"absent", "cloned", "ready"}]
         /\ nic' \in [VMSet -> Devices]
         /\ on' \in [VMSet -> BOOLEAN]
         /\ net' \in [NetSet -> {"absent", "declared", "applied", "removing"}]
<1>1. /\ vm \in [VMSet -> {"absent", "cloned", "ready"}]
      /\ nic \in [VMSet -> Devices]
      /\ on \in [VMSet -> BOOLEAN]
      /\ net \in [NetSet -> {"absent", "declared", "applied", "removing"}]
  BY DEF TypeOK
<1>2. CASE CreateNetwork(a.item)
  BY <1>1, <1>2 DEF CreateNetwork
<1>3. CASE RemoveNetwork(a.item)
  BY <1>1, <1>3 DEF RemoveNetwork
<1>4. CASE Apply(a.item)
  BY <1>1, <1>4 DEF Apply, Reloaded
<1>5. CASE Clone(a.item)
  BY <1>1, <1>5, NoDeviceType DEF Clone
<1>6. CASE Configure(a.item)
  BY <1>1, <1>6 DEF Configure
<1>7. ASSUME NEW d, d \in Devices \/ a.item \notin VMSet, SetDevices(a.item, d)
      PROVE  /\ vm' = vm /\ on' = on /\ net' = net
             /\ nic' \in [VMSet -> Devices]
  BY <1>1, <1>7 DEF SetDevices
<1>8. CASE a.op = "clean" /\ SetDevices(a.item, NoDevice)
  BY <1>1, <1>7, <1>8, NoDeviceType
<1>9. CASE a.op = "detach" /\ SetDevices(a.item, [nic[a.item] EXCEPT ![a.num] = None])
  <2>1. a.item \in VMSet => [nic[a.item] EXCEPT ![a.num] = None] \in Devices
    BY <1>1 DEF Devices
  <2> QED BY <1>1, <1>7, <1>9, <2>1
<1>10. CASE a.op = "attach" /\ SetDevices(a.item, [nic[a.item] EXCEPT ![a.num] = a.net])
  <2>1. a.item \in VMSet => [nic[a.item] EXCEPT ![a.num] = a.net] \in Devices
    BY <1>1 DEF Devices, Actions
  <2> QED BY <1>1, <1>7, <1>10, <2>1
<1>11. ASSUME NEW p \in BOOLEAN, SetPower(a.item, p)
       PROVE  /\ vm' = vm /\ nic' = nic /\ net' = net
              /\ on' \in [VMSet -> BOOLEAN]
  BY <1>1, <1>11 DEF SetPower
<1>12. CASE DestroyVM(a.item)
  BY <1>1, <1>12, NoDeviceType DEF DestroyVM
<1>13. CASE SetPower(a.item, TRUE) \/ SetPower(a.item, FALSE)
  BY <1>1, <1>11, <1>13
<1> QED
  BY <1>2, <1>3, <1>4, <1>5, <1>6, <1>8, <1>9, <1>10, <1>12, <1>13, Zenon DEF Effect

LEMMA HeadType ==
  ASSUME TypeOK, todo # <<>>
  PROVE  Head(todo) \in Actions /\ Tail(todo) \in Seq(Actions)
<1>1. todo \in Seq(Actions)
  BY DEF TypeOK
<1> QED BY <1>1, TailOrder

LEMMA LookType ==
  ASSUME TypeOK
  PROVE  Look \in [vm : [VMSet -> {"absent", "cloned", "ready"}], nic : [VMSet -> Devices],
                   net : [NetSet -> {"absent", "declared", "applied", "removing"}]]
BY DEF TypeOK, Look

LEMMA PlanType ==
  ASSUME TypeOK, NEW goal \in {"up", "down"}
  PROVE  Squeeze(IF goal = "up" THEN UpPlan ELSE DownPlan) \in Seq(Actions)
<1>1. UpPlan \in Seq(Actions) /\ DownPlan \in Seq(Actions)
  BY UpPlanned, DownPlanned
<1>2. \A s \in Seq(Actions) : Squeeze(s) \in Seq(Actions)
  BY Squeezed
<1>3. (IF goal = "up" THEN UpPlan ELSE DownPlan) \in Seq(Actions)
  BY <1>1
<1> QED BY <1>2, <1>3

LEMMA TypeStep ==
  ASSUME TypeOK, [Next]_vars
  PROVE  TypeOK'
<1> USE DEF input, pve, bounds
<1>1. ASSUME NEW goal \in {"up", "down"}, Plan(goal) PROVE TypeOK'
  <2>1. todo' \in Seq(Actions) /\ seen' = Look
    BY <1>1, PlanType DEF Plan
  <2>2. runs' \in 0 .. MaxRuns
    BY <1>1, PlanAssumption DEF Plan, TypeOK
  <2> QED BY <1>1, <2>1, <2>2, LookType DEF Plan, TypeOK
<1>2. CASE ExecuteAction
  <2>1. Head(todo) \in Actions /\ todo' \in Seq(Actions)
    BY <1>2, HeadType DEF ExecuteAction, Running
  <2>2. Effect(Head(todo))
    BY <1>2 DEF ExecuteAction
  <2>3. /\ vm' \in [VMSet -> {"absent", "cloned", "ready"}]
        /\ nic' \in [VMSet -> Devices]
        /\ on' \in [VMSet -> BOOLEAN]
        /\ net' \in [NetSet -> {"absent", "declared", "applied", "removing"}]
    BY <2>1, <2>2, EffectType
  <2> QED BY <1>2, <2>1, <2>3 DEF ExecuteAction, TypeOK
<1>3. CASE ActionIgnored
  <2>1. todo' \in Seq(Actions)
    BY <1>3, HeadType DEF ActionIgnored, Running
  <2>2. faults' \in 0 .. MaxFaults
    BY <1>3, PlanAssumption DEF ActionIgnored, TypeOK
  <2> QED BY <1>3, <2>1, <2>2 DEF ActionIgnored, TypeOK
<1>4. CASE ActionFails
  <2>1. Head(todo) \in Actions
    BY <1>4, HeadType DEF ActionFails, Running
  <2>2. UNCHANGED pve \/ Effect(Head(todo))
    BY <1>4 DEF ActionFails
  <2>3. /\ vm' \in [VMSet -> {"absent", "cloned", "ready"}]
        /\ nic' \in [VMSet -> Devices]
        /\ on' \in [VMSet -> BOOLEAN]
        /\ net' \in [NetSet -> {"absent", "declared", "applied", "removing"}]
    BY <2>1, <2>2, EffectType DEF TypeOK
  <2>4. faults' \in 0 .. MaxFaults
    BY <1>4, PlanAssumption DEF ActionFails, TypeOK
  <2>5. todo' = <<>> /\ outcome' = "failed"
    BY <1>4 DEF ActionFails, Give
  <2>6. todo' \in Seq(Actions)
    BY <2>5
  <2>7. UNCHANGED <<wish, input, target, seen, ignored, runs, edits>>
    BY <1>4 DEF ActionFails
  <2> QED BY <2>3, <2>4, <2>5, <2>6, <2>7 DEF TypeOK
<1>5. CASE Finish
  BY <1>5 DEF Finish, Give, TypeOK
<1>6. ASSUME NEW v \in VMSet, GuestStops(v) PROVE TypeOK'
  BY <1>6 DEF GuestStops, TypeOK
<1>7. ASSUME NEW v \in VMSet, NEW w \in Wishes, Edit(v, w) PROVE TypeOK'
  <2>1. edits' \in 0 .. MaxEdits
    BY <1>7, PlanAssumption DEF Edit, TypeOK
  <2>2. wish' \in [VMSet -> Wishes]
    BY <1>7 DEF Edit, TypeOK
  <2> QED BY <1>7, <2>1, <2>2 DEF Edit, TypeOK
<1>8. ASSUME NEW k \in Kinds, OthersApply(k) PROVE TypeOK'
  <2>1. net' \in [NetSet -> {"absent", "declared", "applied", "removing"}]
    BY <1>8 DEF OthersApply, Reloaded, TypeOK
  <2> QED BY <1>8, <2>1 DEF OthersApply, TypeOK
<1>9. CASE UNCHANGED vars
  BY <1>9 DEF vars, TypeOK
<1> QED
  BY <1>1, <1>2, <1>3, <1>4, <1>5, <1>6, <1>7, <1>8, <1>9 DEF Next

-----------------------------------------------------------------------------
(* The step from an action to the next *)

Advance(h) ==
  /\ h \in Left
  /\ \A a : a \in Left <=> (a = h \/ a \in Left')
  /\ \A a, b : Before(todo', a, b) => Before(todo, a, b)
  /\ \A a, b : Before(todo, a, b) => Before(todo', a, b) \/ (a = h /\ b \in Left')
  /\ \A b \in Left' : Before(todo, h, b)
  /\ UNCHANGED <<wish, kind, seen>>

Done(h) == Effect(h) /\ ignored' = ignored

Skipped(h) ==
  /\ h.op \in {"clean", "detach", "stop"}
  /\ vm' = vm /\ nic' = nic /\ on' = on /\ net' = net
  /\ ignored'

LEMMA Advances ==
  ASSUME TypeOK, ExecuteAction \/ ActionIgnored
  PROVE  /\ Head(todo) \in Actions /\ Advance(Head(todo))
         /\ Done(Head(todo)) \/ Skipped(Head(todo))
<1>1. todo \in Seq(Actions) /\ todo # <<>> /\ todo' = Tail(todo)
  BY DEF TypeOK, ExecuteAction, ActionIgnored, Running
<1>2. UNCHANGED <<wish, kind, seen>>
  BY DEF ExecuteAction, ActionIgnored, input
<1>3. Done(Head(todo)) \/ Skipped(Head(todo))
  BY DEF ExecuteAction, ActionIgnored, Done, Skipped, pve
<1>4. /\ Tail(todo) \in Seq(Actions) /\ Head(todo) \in Actions
      /\ ToSet(todo) = {Head(todo)} \union ToSet(Tail(todo))
      /\ \A a, b : Before(Tail(todo), a, b) => Before(todo, a, b)
      /\ \A a, b : Before(todo, a, b) =>
           Before(Tail(todo), a, b) \/ (a = Head(todo) /\ b \in ToSet(Tail(todo)))
      /\ \A b \in ToSet(Tail(todo)) : Before(todo, Head(todo), b)
  BY <1>1, TailOrder
<1>5. Left = ToSet(todo) /\ Left' = ToSet(Tail(todo))
  BY <1>1 DEF Left
<1>6. Advance(Head(todo))
  BY <1>1, <1>2, <1>4, <1>5 DEF Advance
<1> QED BY <1>3, <1>4, <1>6

LEMMA Frame ==
  ASSUME UNCHANGED <<wish, kind, seen>>
  PROVE  /\ \A v \in VMSet : /\ ToClean(v)' <=> ToClean(v)
                             /\ Declared(v)' = Declared(v)
                             /\ Moves(v)' = Moves(v)
                             /\ Displaced(v)' = Displaced(v)
                             /\ Fresh(v)' <=> Fresh(v)
                             /\ Untangled(v)' <=> Untangled(v)
         /\ \A n \in NetSet : Pending(n)' <=> Pending(n)
         /\ \A a : UpAction(a)' <=> UpAction(a)
         /\ \A a : DownAction(a)' <=> DownAction(a)
<1>1. \A v : Declared(v)' = Declared(v)
  BY DEF Declared
<1>2. \A v : Moves(v)' = Moves(v)
  BY <1>1 DEF Moves
<1>3. \A v : Displaced(v)' = Displaced(v)
  BY <1>2 DEF Displaced
<1>4. \A v : ToClean(v)' <=> ToClean(v)
  BY DEF ToClean
<1>5. \A v : Untangled(v)' <=> Untangled(v)
  BY <1>1 DEF Untangled
<1>6. \A v : Fresh(v)' <=> Fresh(v)
  BY DEF Fresh
<1>7. \A n : Pending(n)' <=> Pending(n)
  BY DEF Pending
<1>8. \A a : UpAction(a)' <=> UpAction(a)
  BY <1>2, <1>3, <1>4 DEF UpAction
<1>9. \A a : DownAction(a)' <=> DownAction(a)
  BY DEF DownAction
<1> QED BY <1>1, <1>2, <1>3, <1>4, <1>5, <1>6, <1>7, <1>8, <1>9

LEMMA EffectOf ==
  ASSUME NEW a, Effect(a)
  PROVE  /\ a.op = "create" => CreateNetwork(a.item)
         /\ a.op = "remove" => RemoveNetwork(a.item)
         /\ a.op = "apply" => Apply(a.item)
         /\ a.op = "clone" => Clone(a.item)
         /\ a.op = "configure" => Configure(a.item)
         /\ a.op = "clean" => SetDevices(a.item, NoDevice)
         /\ a.op = "detach" => SetDevices(a.item, [nic[a.item] EXCEPT ![a.num] = None])
         /\ a.op = "attach" => SetDevices(a.item, [nic[a.item] EXCEPT ![a.num] = a.net])
         /\ a.op = "start" => SetPower(a.item, TRUE)
         /\ a.op = "stop" => SetPower(a.item, FALSE)
         /\ a.op = "destroy" => DestroyVM(a.item)
BY DEF Effect

(* What an action of a deployment may be.                                  *)
LEMMA UpActions ==
  ASSUME NEW a, UpAction(a)
  PROVE  /\ a.op \in {"create", "apply", "clone", "configure", "clean", "detach", "attach",
                      "start", "stop"}
         /\ a.op = "create" => \E n \in NetSet : a = Act("create", n)
         /\ a.op = "apply" => \E n \in NetSet : a = Act("apply", kind[n])
         /\ a.op \in {"clone", "configure", "clean", "start", "stop"} =>
              a.item \in VMSet /\ a = Act(a.op, a.item)
         /\ a.op = "clean" => ToClean(a.item)
         /\ a.op = "start" => wish[a.item].running
         /\ a.op = "detach" => /\ a.item \in VMSet /\ a.num \in Displaced(a.item)
                               /\ a = Detach(a.item, a.num)
         /\ a.op = "attach" => \E v \in VMSet : \E c \in Moves(v) : a = Attach(v, c)
<1>1. ASSUME NEW n \in NetSet, a = Act("create", n) \/ a = Act("apply", kind[n])
      PROVE  /\ a.op \in {"create", "apply"}
             /\ a.op = "create" => a = Act("create", n)
             /\ a.op = "apply" => a = Act("apply", kind[n])
  BY <1>1, ActionFields
<1>2. ASSUME NEW v \in VMSet,
             \/ a = Act("clone", v) \/ a = Act("configure", v) \/ a = Act("stop", v)
             \/ ToClean(v) /\ a = Act("clean", v)
             \/ wish[v].running /\ a = Act("start", v)
      PROVE  /\ a.op \in {"clone", "configure", "clean", "start", "stop"}
             /\ a.item = v /\ a = Act(a.op, v)
             /\ a.op = "clean" => ToClean(v)
             /\ a.op = "start" => wish[v].running
  BY <1>2, ActionFields
<1>3. ASSUME NEW v \in VMSet, NEW k \in Displaced(v), a = Detach(v, k)
      PROVE  a.op = "detach" /\ a.item = v /\ a.num = k
  BY <1>3, ActionFields
<1>4. ASSUME NEW v \in VMSet, NEW c \in Moves(v), a = Attach(v, c)
      PROVE  a.op = "attach"
  BY <1>4, ActionFields
<1>5. CASE \E n \in NetSet : a = Act("create", n) \/ a = Act("apply", kind[n])
  BY <1>1, <1>5
<1>6. CASE \E v \in VMSet :
             \/ a = Act("clone", v) \/ a = Act("configure", v) \/ a = Act("stop", v)
             \/ ToClean(v) /\ a = Act("clean", v)
             \/ wish[v].running /\ a = Act("start", v)
  BY <1>2, <1>6
<1>7. CASE \E v \in VMSet : \E k \in Displaced(v) : a = Detach(v, k)
  BY <1>3, <1>7
<1>8. CASE \E v \in VMSet : \E c \in Moves(v) : a = Attach(v, c)
  BY <1>4, <1>8
<1> QED BY <1>5, <1>6, <1>7, <1>8 DEF UpAction

-----------------------------------------------------------------------------
(* A deployment goes on *)

LEMMA UpPlanStep ==
  ASSUME NEW h \in Actions, Advance(h), PlanInv, UpOrder(todo)
  PROVE  /\ PlanInv' /\ UpOrder(todo)'
         /\ UpAction(h) /\ \A b \in Left' : UpRank(h) <= UpRank(b)
<1>1. PlanInv'
  BY Frame DEF Advance, PlanInv
<1>2. UpAction(h)
  BY DEF Advance, PlanInv
<1>3. \A a, b : Before(todo, a, b) => UpRank(a) <= UpRank(b)
  BY BeforeIn DEF UpOrder
<1>4. \A a, b : Before(todo', a, b) => UpRank(a) <= UpRank(b)
  BY <1>3 DEF Advance
<1>5. UpOrder(todo)'
  BY <1>4 DEF UpOrder
<1>6. \A b \in Left' : UpRank(h) <= UpRank(b)
  BY <1>3 DEF Advance
<1> QED BY <1>1, <1>2, <1>5, <1>6

LEMMA UpNetStep ==
  ASSUME TypeOK, NEW h \in Actions, Advance(h), Done(h) \/ Skipped(h), UpAction(h), UpNetInv
  PROVE  UpNetInv'
<1> SUFFICES ASSUME NEW n \in NetSet, ~Pending(n)
             PROVE  \/ net'[n] = "applied"
                    \/ net'[n] = "declared" /\ Act("apply", kind[n]) \in Left'
                    \/ /\ net'[n] = "absent"
                       /\ Before(todo', Act("create", n), Act("apply", kind[n]))
  BY Frame DEF UpNetInv, Advance
<1> DEFINE cr == Act("create", n)
           ap == Act("apply", kind[n])
<1>1. cr.op = "create" /\ ap.op = "apply" /\ ap.item = kind[n]
  BY ActionFields
<1> HIDE DEF cr, ap
<1>2. \/ net[n] = "applied"
      \/ net[n] = "declared" /\ ap \in Left
      \/ net[n] = "absent" /\ Before(todo, cr, ap)
  BY DEF UpNetInv, cr, ap
<1>3. net \in [NetSet -> {"absent", "declared", "applied", "removing"}]
  BY DEF TypeOK
<1>4. h # ap /\ ap \in Left => ap \in Left'
  BY DEF Advance
<1>5. h # cr /\ Before(todo, cr, ap) => Before(todo', cr, ap)
  BY DEF Advance
<1>6. CASE h.op \notin {"create", "apply"}
  <2>1. net' = net
    <3>1. Effect(h) => net' = net
      BY <1>6, EffectOf, UpActions DEF Clone, Configure, SetDevices, SetPower
    <3> QED BY <3>1 DEF Done, Skipped
  <2> QED BY <1>1, <1>2, <1>4, <1>5, <1>6, <2>1 DEF cr, ap
<1>7. CASE h.op = "create"
  <2>1. CreateNetwork(h.item)
    BY <1>7, EffectOf DEF Done, Skipped
  <2>2. net'[n] = IF n = h.item /\ ~Listed(n) THEN "declared" ELSE net[n]
    BY <1>3, <2>1 DEF CreateNetwork
  <2>3. net[n] = "applied" => Listed(n)
    BY DEF Listed
  <2>4. h # ap
    BY <1>1, <1>7
  <2>5. CASE n = h.item
    <3>1. Before(todo, cr, ap) => ap \in Left
      BY BeforeIn DEF Left
    <3>2. net[n] = "absent" => ~Listed(n)
      BY DEF Listed
    <3> QED BY <1>2, <1>4, <2>2, <2>3, <2>4, <2>5, <3>1, <3>2 DEF ap
  <2>6. CASE n # h.item
    <3>1. h # cr
      BY <2>6, ActionFields DEF cr
    <3> QED BY <1>2, <1>4, <1>5, <2>2, <2>4, <2>6, <3>1 DEF cr, ap
  <2> QED BY <2>5, <2>6
<1>8. CASE h.op = "apply"
  <2>1. Apply(h.item)
    BY <1>8, EffectOf DEF Done, Skipped
  <2>2. /\ net[n] = "applied" => net'[n] = "applied"
        /\ net[n] = "absent" => net'[n] = "absent"
        /\ net[n] = "declared" => net'[n] = IF kind[n] = h.item THEN "applied" ELSE "declared"
    BY <2>1 DEF Apply, Reloaded
  <2>3. h # cr
    BY <1>1, <1>8
  <2>4. kind[n] # h.item => h # ap
    BY <1>1
  <2> QED BY <1>2, <1>4, <1>5, <2>2, <2>3, <2>4 DEF cr, ap
<1> QED BY <1>6, <1>7, <1>8

LEMMA UpVMStep ==
  ASSUME TypeOK, NEW h \in Actions, Advance(h), Done(h) \/ Skipped(h), UpAction(h), UpVMInv
  PROVE  UpVMInv'
<1> SUFFICES ASSUME NEW v \in VMSet
             PROVE  /\ vm'[v] = "absent" => Fresh(v)
                    /\ Fresh(v) /\ vm'[v] = "absent"
                         => Before(todo', Act("clone", v), Act("configure", v))
                    /\ Fresh(v) /\ vm'[v] = "cloned" => Act("configure", v) \in Left'
                    /\ seen.vm[v] = "ready" => vm'[v] = "ready"
                    /\ Fresh(v) /\ on'[v] => wish[v].running
  BY Frame DEF UpVMInv, Advance
<1> DEFINE cl == Act("clone", v)
           co == Act("configure", v)
<1>1. cl.op = "clone" /\ co.op = "configure" /\ cl.item = v /\ co.item = v
  BY ActionFields
<1> HIDE DEF cl, co
<1>2. /\ vm[v] = "absent" => Fresh(v)
      /\ Fresh(v) /\ vm[v] = "absent" => Before(todo, cl, co)
      /\ Fresh(v) /\ vm[v] = "cloned" => co \in Left
      /\ seen.vm[v] = "ready" => vm[v] = "ready"
      /\ Fresh(v) /\ on[v] => wish[v].running
  BY DEF UpVMInv, cl, co
<1>3. /\ vm \in [VMSet -> {"absent", "cloned", "ready"}]
      /\ on \in [VMSet -> BOOLEAN]
  BY DEF TypeOK
<1>4. h # co /\ co \in Left => co \in Left'
  BY DEF Advance
<1>5. h # cl /\ Before(todo, cl, co) => Before(todo', cl, co)
  BY DEF Advance
<1>6. Before(todo, cl, co) => co \in Left
  BY BeforeIn DEF Left
<1>7. h.op \notin {"clone", "configure"} => vm' = vm
  <2>1. Effect(h) /\ h.op \notin {"clone", "configure"} => vm' = vm
    BY EffectOf, UpActions DEF CreateNetwork, Apply, SetDevices, SetPower
  <2> QED BY <2>1 DEF Done, Skipped
<1>8. Fresh(v) /\ on'[v] => wish[v].running
  <2>1. CASE Skipped(h)
    BY <1>2, <2>1 DEF Skipped
  <2>2. CASE h.op = "start" /\ Effect(h)
    <3>1. SetPower(h.item, TRUE) /\ wish[h.item].running
      BY <2>2, EffectOf, UpActions
    <3>2. on'[v] => on[v] \/ v = h.item
      BY <1>3, <3>1 DEF SetPower
    <3> QED BY <1>2, <3>1, <3>2
  <2>3. CASE h.op = "stop" /\ Effect(h)
    <3>1. SetPower(h.item, FALSE)
      BY <2>3, EffectOf
    <3>2. on'[v] => on[v]
      BY <1>3, <3>1 DEF SetPower
    <3> QED BY <1>2, <3>2
  <2>4. CASE h.op \notin {"start", "stop"} /\ Effect(h)
    <3>1. on' = on
      BY <2>4, EffectOf, UpActions DEF CreateNetwork, Apply, Clone, Configure, SetDevices
    <3> QED BY <1>2, <3>1
  <2> QED BY <2>1, <2>2, <2>3, <2>4 DEF Done
<1>9. CASE h.op \notin {"clone", "configure"}
  <2>1. h # cl /\ h # co
    BY <1>1, <1>9
  <2> QED BY <1>2, <1>4, <1>5, <1>7, <1>8, <1>9, <2>1 DEF cl, co
<1>10. CASE h.op = "clone"
  <2>1. Clone(h.item) /\ h.item \in VMSet /\ h = Act("clone", h.item)
    BY <1>10, EffectOf, UpActions DEF Done, Skipped
  <2>2. vm'[v] = IF v = h.item /\ vm[v] = "absent" THEN "cloned" ELSE vm[v]
    BY <1>3, <2>1 DEF Clone
  <2>3. h # co
    BY <1>1, <1>10
  <2>4. v # h.item => h # cl
    BY <1>1
  <2> QED BY <1>2, <1>3, <1>4, <1>5, <1>6, <1>8, <2>2, <2>3, <2>4 DEF cl, co
<1>11. CASE h.op = "configure"
  <2>1. Configure(h.item)
    BY <1>11, EffectOf DEF Done, Skipped
  <2>2. vm'[v] = IF v = h.item /\ vm[v] # "absent" THEN "ready" ELSE vm[v]
    BY <1>3, <2>1 DEF Configure
  <2>3. h # cl
    BY <1>1, <1>11
  <2>4. v # h.item => h # co
    BY <1>1
  <2> QED BY <1>2, <1>3, <1>4, <1>5, <1>6, <1>8, <2>2, <2>3, <2>4 DEF cl, co
<1> QED BY <1>9, <1>10, <1>11

LEMMA UpStageStep ==
  ASSUME NEW h \in Actions, Advance(h), \A b \in Left' : UpRank(h) <= UpRank(b), UpStageInv
  PROVE  UpStageInv'
<1>1. \A b \in Left' : b \in Left
  BY DEF Advance
<1>2. \A b : UpRank(b) \in 1 .. 5
  BY DEF UpRank
<1>3. ASSUME NEW b \in Left', UpRank(b) < 3, NEW v \in VMSet, ToClean(v)
      PROVE  Act("clean", v) \in Left'
  <2>1. Act("clean", v) \in Left
    BY <1>1, <1>3 DEF UpStageInv
  <2>2. UpRank(h) < 3
    BY <1>2, <1>3
  <2>3. UpRank(Act("clean", v)) = 3
    BY ActionFields DEF UpRank
  <2> QED BY <2>1, <2>2, <2>3 DEF Advance
<1>4. ASSUME NEW b \in Left', UpRank(b) < 4, NEW v \in VMSet, NEW c \in Moves(v)
      PROVE  Attach(v, c) \in Left'
  <2>1. Attach(v, c) \in Left
    BY <1>1, <1>4 DEF UpStageInv
  <2>2. UpRank(h) < 4
    BY <1>2, <1>4
  <2>3. UpRank(Attach(v, c)) = 4
    BY ActionFields DEF UpRank
  <2> QED BY <2>1, <2>2, <2>3 DEF Advance
<1>5. \A v \in VMSet : (ToClean(v)' <=> ToClean(v)) /\ Moves(v)' = Moves(v)
  BY Frame DEF Advance
<1> QED BY <1>3, <1>4, <1>5 DEF UpStageInv

(* The devices of a VM that are moved are not detached for others.         *)
LEMMA NotDisplaced ==
  ASSUME TypeOK, AbsentInv, NEW v \in VMSet
  PROVE  /\ \A c \in ToSet(Declared(v)) : c.num \in Numbers /\ c.net \in NetSet /\ c.net # None
         /\ \A c, d \in ToSet(Declared(v)) : c.num = d.num => c = d
         /\ Fresh(v) => Displaced(v) = {} /\ Moves(v) = ToSet(Declared(v))
         /\ Untangled(v) => \A c, d \in ToSet(Declared(v)) :
              c # d => c.net # d.net /\ seen.nic[v][c.num] # d.net
         /\ Fresh(v) \/ Untangled(v) => \A c \in Moves(v) : c.num \notin Displaced(v)
<1> DEFINE D == ToSet(Declared(v))
<1>1. /\ \A c \in D : c.num \in Numbers /\ c.net \in NetSet /\ c.net # None
      /\ \A c, d \in D : c.num = d.num => c = d
  BY DeclaredType, PlanAssumption DEF Connection
<1>2. ASSUME Fresh(v) PROVE Displaced(v) = {} /\ Moves(v) = D
  <2>1. \A k \in Numbers : seen.nic[v][k] = None
    BY <1>2 DEF AbsentInv, Fresh, NoDevice
  <2> HIDE DEF D
  <2>2. Moves(v) = D
    BY <1>1, <2>1 DEF Moves, D
  <2>3. Displaced(v) = {}
    BY <1>1, <2>1, <2>2 DEF Displaced
  <2> QED BY <2>2, <2>3
<1>3. ASSUME Untangled(v), NEW c \in D, NEW d \in D, c # d
      PROVE  c.net # d.net /\ seen.nic[v][c.num] # d.net
  <2>1. PICK i \in DOMAIN Declared(v), j \in DOMAIN Declared(v) :
          c = Declared(v)[i] /\ d = Declared(v)[j]
    BY DEF ToSet
  <2> QED BY <1>3, <2>1 DEF Untangled
<1>4. ASSUME Untangled(v), NEW c \in Moves(v), c.num \in Displaced(v) PROVE FALSE
  <2>1. PICK d \in Moves(v) : seen.nic[v][c.num] = d.net
    BY <1>4 DEF Displaced
  <2>2. c \in D /\ d \in D /\ seen.nic[v][c.num] # c.net
    BY <2>1 DEF Moves
  <2> QED BY <1>3, <1>4, <2>1, <2>2
<1> QED BY <1>1, <1>2, <1>3, <1>4

(* When VMs are cleaned or connected, all of them exist.                   *)
LEMMA LateStages ==
  ASSUME NEW h \in Actions, Advance(h), \A b \in Left' : UpRank(h) <= UpRank(b), UpVMInv,
         UpRank(h) >= 3
  PROVE  \A v \in VMSet : vm[v] # "absent"
<1> SUFFICES ASSUME NEW v \in VMSet, vm[v] = "absent" PROVE FALSE
  OBVIOUS
<1>1. Act("configure", v) \in Left
  BY BeforeIn DEF UpVMInv, Left
<1>2. UpRank(Act("configure", v)) = 2
  BY ActionFields DEF UpRank
<1>3. UpRank(h) \in 1 .. 5
  BY DEF UpRank
<1>4. Act("configure", v) \in Left'
  BY <1>1, <1>2 DEF Advance
<1> QED BY <1>2, <1>3, <1>4

(* Before the VMs are connected, only clones change their devices, and     *)
(* cleaning.                                                               *)
LEMMA EarlyStages ==
  ASSUME TypeOK, NEW h \in Actions, Done(h) \/ Skipped(h), UpAction(h),
         h.op \notin {"clone", "clean", "detach", "attach"}
  PROVE  nic' = nic
<1>1. Effect(h) => nic' = nic
  BY EffectOf, UpActions DEF CreateNetwork, Apply, Configure, SetPower
<1> QED BY <1>1 DEF Done, Skipped

(* What the other actions do to the devices of a VM.                       *)
LEMMA DeviceSteps ==
  ASSUME TypeOK, NEW h \in Actions, Done(h) \/ Skipped(h), UpAction(h), NEW v \in VMSet
  PROVE  /\ h.op = "clone" =>
              nic'[v] = IF v = h.item /\ vm[v] = "absent" THEN Template ELSE nic[v]
         /\ h.op = "clean" =>
              \/ nic'[v] = nic[v] /\ (v # h.item \/ vm[v] = "absent" \/ ignored')
              \/ v = h.item /\ nic'[v] = NoDevice
         /\ h.op = "detach" =>
              \/ nic'[v] = nic[v] /\ (v # h.item \/ vm[v] = "absent" \/ ignored')
              \/ v = h.item /\ nic'[v] = [nic[v] EXCEPT ![h.num] = None]
         /\ h.op = "attach" =>
              \/ nic'[v] = nic[v] /\ (v # h.item \/ vm[v] = "absent")
              \/ v = h.item /\ nic'[v] = [nic[v] EXCEPT ![h.num] = h.net]
<1>1. nic \in [VMSet -> Devices]
  BY DEF TypeOK
<1>2. ASSUME h.op = "clone"
      PROVE  nic'[v] = IF v = h.item /\ vm[v] = "absent" THEN Template ELSE nic[v]
  <2>1. Clone(h.item)
    BY <1>2, EffectOf DEF Done, Skipped
  <2> QED BY <1>1, <2>1 DEF Clone
<1>3. ASSUME NEW d, SetDevices(h.item, d)
      PROVE  \/ nic'[v] = nic[v] /\ (v # h.item \/ vm[v] = "absent")
             \/ v = h.item /\ nic'[v] = d
  BY <1>1, <1>3 DEF SetDevices
<1>4. ASSUME h.op = "clean"
      PROVE  \/ nic'[v] = nic[v] /\ (v # h.item \/ vm[v] = "absent" \/ ignored')
             \/ v = h.item /\ nic'[v] = NoDevice
  <2>1. SetDevices(h.item, NoDevice) \/ Skipped(h)
    BY <1>4, EffectOf DEF Done
  <2> QED BY <1>3, <2>1 DEF Skipped
<1>5. ASSUME h.op = "detach"
      PROVE  \/ nic'[v] = nic[v] /\ (v # h.item \/ vm[v] = "absent" \/ ignored')
             \/ v = h.item /\ nic'[v] = [nic[v] EXCEPT ![h.num] = None]
  <2>1. SetDevices(h.item, [nic[h.item] EXCEPT ![h.num] = None]) \/ Skipped(h)
    BY <1>5, EffectOf DEF Done
  <2> QED BY <1>3, <2>1 DEF Skipped
<1>6. ASSUME h.op = "attach"
      PROVE  \/ nic'[v] = nic[v] /\ (v # h.item \/ vm[v] = "absent")
             \/ v = h.item /\ nic'[v] = [nic[v] EXCEPT ![h.num] = h.net]
  <2>1. SetDevices(h.item, [nic[h.item] EXCEPT ![h.num] = h.net])
    BY <1>6, EffectOf DEF Done, Skipped
  <2> QED BY <1>3, <2>1
<1> QED BY <1>2, <1>4, <1>5, <1>6

LEMMA NicDomain ==
  ASSUME TypeOK, NEW v \in VMSet
  PROVE  DOMAIN nic[v] = Numbers
BY DEF TypeOK, Devices

LEMMA UpMoveStep ==
  ASSUME TypeOK, AbsentInv, NEW h \in Actions, Advance(h), Done(h) \/ Skipped(h), UpAction(h),
         \A b \in Left' : UpRank(h) <= UpRank(b), UpVMInv, UpStageInv, UpMoveInv
  PROVE  UpMoveInv'
<1> SUFFICES ASSUME NEW v \in VMSet, Fresh(v) \/ Untangled(v), NEW c \in Moves(v)
             PROVE  Attach(v, c) \in Left' \/ nic'[v][c.num] = c.net
  BY Frame DEF UpMoveInv, Advance
<1>1. Attach(v, c) \in Left \/ nic[v][c.num] = c.net
  BY DEF UpMoveInv
<1>2. Attach(v, c) \in Left /\ h.op # "attach" => Attach(v, c) \in Left'
  BY ActionFields DEF Advance
<1>3. c \in ToSet(Declared(v)) /\ c.num \in Numbers
  BY NotDisplaced DEF Moves
<1>4. CASE UpRank(h) < 4
  <2>1. Attach(v, c) \in Left
    BY <1>4 DEF UpStageInv, Advance
  <2>2. h.op # "attach"
    BY <1>4 DEF UpRank
  <2> QED BY <1>2, <2>1, <2>2
<1>5. CASE h.op = "detach"
  <2>1. h.item \in VMSet /\ h.num \in Displaced(h.item)
    BY <1>5, UpActions
  <2>2. \/ nic'[v] = nic[v]
        \/ v = h.item /\ nic'[v] = [nic[v] EXCEPT ![h.num] = None]
    BY <1>5, DeviceSteps
  <2>3. v = h.item => c.num # h.num
    BY <2>1, NotDisplaced
  <2>4. nic'[v][c.num] = nic[v][c.num]
    BY <1>3, <2>2, <2>3, NicDomain
  <2> QED BY <1>1, <1>2, <1>5, <2>4
<1>6. CASE h.op = "attach"
  <2>1. PICK w \in VMSet : \E d \in Moves(w) : h = Attach(w, d)
    BY <1>6, UpActions
  <2>2. PICK d \in Moves(w) : h = Attach(w, d)
    BY <2>1
  <2>3. h.item = w /\ h.num = d.num /\ h.net = d.net
    BY <2>2, ActionFields
  <2>4. vm[v] # "absent"
    BY <1>6, LateStages DEF UpRank
  <2>5. \/ nic'[v] = nic[v] /\ v # w
        \/ v = w /\ nic'[v] = [nic[v] EXCEPT ![d.num] = d.net]
    <3>1. \/ nic'[v] = nic[v] /\ (v # h.item \/ vm[v] = "absent")
          \/ v = h.item /\ nic'[v] = [nic[v] EXCEPT ![h.num] = h.net]
      BY <1>6, DeviceSteps
    <3> QED BY <2>3, <2>4, <3>1, Zenon
  <2>6. CASE v = w /\ c = d
    BY <1>3, <2>5, <2>6, NicDomain
  <2>7. CASE v = w /\ c # d
    <3>1. c.num # d.num
      BY <2>7, NotDisplaced DEF Moves
    <3>2. nic'[v][c.num] = nic[v][c.num]
      BY <1>3, <2>5, <2>7, <3>1, NicDomain
    <3>3. h # Attach(v, c)
      BY <2>3, <3>1, ActionFields
    <3> QED BY <1>1, <3>2, <3>3 DEF Advance
  <2>8. CASE v # w
    <3>1. h # Attach(v, c)
      BY <2>3, <2>8, ActionFields
    <3> QED BY <1>1, <2>5, <2>8, <3>1 DEF Advance
  <2> QED BY <2>6, <2>7, <2>8
<1>7. CASE UpRank(h) >= 4 /\ h.op \notin {"detach", "attach"}
  <2>1. h.op \notin {"clone", "clean", "detach", "attach"}
    BY <1>7 DEF UpRank
  <2>2. nic' = nic
    BY <2>1, EarlyStages
  <2> QED BY <1>1, <1>2, <1>7, <2>2
<1>8. UpRank(h) \in 1 .. 5
  BY DEF UpRank
<1> QED BY <1>4, <1>5, <1>6, <1>7, <1>8

LEMMA UpFreshStep ==
  ASSUME TypeOK, AbsentInv, NEW h \in Actions, Advance(h), Done(h) \/ Skipped(h), UpAction(h),
         UpStageInv, UpFreshInv,
         \A v \in VMSet : vm'[v] = "absent" \/ vm[v] # "absent" \/ h = Act("clone", v)
  PROVE  UpFreshInv'
<1> SUFFICES ASSUME NEW v \in VMSet, Fresh(v), vm'[v] # "absent", ~ignored',
                    NEW k \in Numbers, \A c \in ToSet(Declared(v)) : c.num # k
             PROVE  \/ nic'[v][k] = Template[k] /\ (ToClean(v) => Act("clean", v) \in Left')
                    \/ nic'[v][k] = None /\ ToClean(v)
  BY Frame DEF UpFreshInv, Advance
<1> DEFINE cl == Act("clean", v)
<1>1. cl.op = "clean" /\ cl.item = v
  BY ActionFields
<1> HIDE DEF cl
<1>2. ~ignored /\ Done(h)
  BY DEF Done, Skipped
<1>3. vm[v] # "absent" =>
        \/ nic[v][k] = Template[k] /\ (ToClean(v) => cl \in Left)
        \/ nic[v][k] = None /\ ToClean(v)
  BY <1>2 DEF UpFreshInv, cl
<1>4. cl \in Left /\ h # cl => cl \in Left'
  BY DEF Advance
<1>5. h.op # "clone" => vm[v] # "absent"
  BY ActionFields
<1>6. CASE h.op \notin {"clone", "clean", "detach", "attach"}
  <2>1. nic' = nic /\ h # cl
    BY <1>1, <1>6, EarlyStages
  <2> QED BY <1>3, <1>4, <1>5, <1>6, <2>1 DEF cl
<1>7. CASE h.op = "clone"
  <2>1. nic'[v] = IF v = h.item /\ vm[v] = "absent" THEN Template ELSE nic[v]
    BY <1>7, DeviceSteps
  <2>2. h # cl
    BY <1>1, <1>7
  <2>3. CASE vm[v] # "absent"
    BY <1>3, <1>4, <2>1, <2>2, <2>3 DEF cl
  <2>4. CASE vm[v] = "absent"
    <3>1. h.item = v
      BY <2>4, ActionFields
    <3>2. ToClean(v) => cl \in Left
      BY <1>7 DEF UpStageInv, UpRank, Advance, cl
    <3> QED BY <1>4, <2>1, <2>2, <2>4, <3>1, <3>2 DEF cl
  <2> QED BY <2>3, <2>4
<1>8. CASE h.op = "clean"
  <2>1. \/ nic'[v] = nic[v] /\ v # h.item
        \/ v = h.item /\ nic'[v] = NoDevice
    BY <1>5, <1>8, DeviceSteps
  <2>2. v = h.item => ToClean(v)
    BY <1>8, UpActions
  <2>3. v # h.item => h # cl
    BY <1>1
  <2>4. NoDevice[k] = None
    BY DEF NoDevice
  <2> QED BY <1>3, <1>4, <1>5, <1>8, <2>1, <2>2, <2>3, <2>4 DEF cl
<1>9. CASE h.op = "detach"
  <2>1. v # h.item
    BY <1>9, UpActions, NotDisplaced
  <2>2. nic'[v] = nic[v] /\ h # cl
    BY <1>1, <1>9, <2>1, DeviceSteps
  <2> QED BY <1>3, <1>4, <1>5, <1>9, <2>2 DEF cl
<1>10. CASE h.op = "attach"
  <2>1. v = h.item => h.num # k
    <3>1. PICK w \in VMSet : \E d \in Moves(w) : h = Attach(w, d)
      BY <1>10, UpActions
    <3>2. PICK d \in Moves(w) : h = Attach(w, d)
      BY <3>1
    <3>3. h.item = w /\ h.num = d.num /\ d \in ToSet(Declared(w))
      BY <3>2, ActionFields DEF Moves
    <3> QED BY <3>3
  <2>2. \/ nic'[v] = nic[v]
        \/ v = h.item /\ nic'[v] = [nic[v] EXCEPT ![h.num] = h.net]
    BY <1>10, DeviceSteps
  <2>3. nic'[v][k] = nic[v][k]
    BY <2>1, <2>2, NicDomain
  <2>4. h # cl
    BY <1>1, <1>10
  <2> QED BY <1>3, <1>4, <1>5, <1>10, <2>3, <2>4 DEF cl
<1> QED BY <1>6, <1>7, <1>8, <1>9, <1>10

LEMMA UpKeptStep ==
  ASSUME TypeOK, AbsentInv, NEW h \in Actions, Advance(h), Done(h) \/ Skipped(h), UpAction(h),
         UpVMInv, UpKeptInv
  PROVE  UpKeptInv'
<1> SUFFICES ASSUME NEW v \in VMSet, ~Fresh(v), Untangled(v), NEW c \in ToSet(Declared(v))
             PROVE  /\ seen.nic[v][c.num] = c.net /\ ~ToClean(v) => nic'[v][c.num] = c.net
                    /\ seen.nic[v][c.num] # c.net /\ ~ignored' =>
                         \A k \in Numbers : nic'[v][k] = c.net /\ k # c.num =>
                           Detach(v, k) \in Left'
  BY Frame DEF UpKeptInv, Advance
<1>1. /\ seen.nic[v][c.num] = c.net /\ ~ToClean(v) => nic[v][c.num] = c.net
      /\ seen.nic[v][c.num] # c.net /\ ~ignored =>
           \A k \in Numbers : nic[v][k] = c.net /\ k # c.num => Detach(v, k) \in Left
  BY DEF UpKeptInv
<1>2. ~ignored' => ~ignored
  BY DEF Done, Skipped
<1>3. vm[v] # "absent"
  BY DEF UpVMInv
<1>4. /\ c.num \in Numbers /\ c.net # None
      /\ \A d \in ToSet(Declared(v)) : d # c =>
           d.num # c.num /\ d.net # c.net /\ seen.nic[v][c.num] # d.net
  BY NotDisplaced
<1>5. \A k : Detach(v, k) \in Left /\ h # Detach(v, k) => Detach(v, k) \in Left'
  BY DEF Advance
<1>6. h.op # "detach" => \A k : h # Detach(v, k)
  BY ActionFields
<1>7. CASE nic'[v] = nic[v] /\ h.op # "detach"
  BY <1>1, <1>2, <1>5, <1>6, <1>7
<1>8. CASE h.op = "clean" /\ v = h.item /\ nic'[v] = NoDevice
  <2>1. ToClean(v)
    BY <1>8, UpActions
  <2>2. \A k \in Numbers : nic'[v][k] = None
    BY <1>8 DEF NoDevice
  <2> QED BY <1>4, <2>1, <2>2
<1>9. CASE h.op = "detach" /\ nic'[v] = nic[v] /\ (v # h.item \/ ignored')
  <2>1. ~ignored' => v # h.item
    BY <1>9
  <2>2. v # h.item => \A k : h # Detach(v, k)
    BY ActionFields
  <2> QED BY <1>1, <1>2, <1>5, <1>9, <2>1, <2>2
<1>10. CASE h.op = "detach" /\ v = h.item /\ nic'[v] = [nic[v] EXCEPT ![h.num] = None]
  <2>1. PICK d \in Moves(v) : seen.nic[v][h.num] = d.net
    BY <1>10, UpActions DEF Displaced
  <2>2. d \in ToSet(Declared(v)) /\ seen.nic[v][d.num] # d.net
    BY <2>1 DEF Moves
  <2>3. seen.nic[v][c.num] = c.net => h.num # c.num
    BY <1>4, <2>1, <2>2
  <2>4. \A k \in Numbers : nic'[v][k] = IF k = h.num THEN None ELSE nic[v][k]
    BY <1>10, NicDomain
  <2>5. \A k : k # h.num => h # Detach(v, k)
    BY ActionFields
  <2> QED BY <1>1, <1>2, <1>4, <1>5, <2>3, <2>4, <2>5
<1>11. CASE h.op = "attach" /\ v = h.item /\ nic'[v] = [nic[v] EXCEPT ![h.num] = h.net]
  <2>1. PICK d \in Moves(v) : h = Attach(v, d)
    <3>1. PICK w \in VMSet : \E d \in Moves(w) : h = Attach(w, d)
      BY <1>11, UpActions
    <3> QED BY <1>11, <3>1, ActionFields
  <2>2. h.num = d.num /\ h.net = d.net
    BY <2>1, ActionFields
  <2>3. d \in ToSet(Declared(v)) /\ seen.nic[v][d.num] # d.net
    BY <2>1 DEF Moves
  <2>4. \A k \in Numbers : nic'[v][k] = IF k = d.num THEN d.net ELSE nic[v][k]
    BY <1>11, <2>2, NicDomain
  <2>5. CASE c = d
    BY <1>1, <1>2, <1>5, <1>6, <1>11, <2>3, <2>4, <2>5
  <2>6. CASE c # d
    <3>1. d.num # c.num /\ d.net # c.net
      BY <1>4, <2>3, <2>6
    <3> QED BY <1>1, <1>2, <1>4, <1>5, <1>6, <1>11, <2>4, <3>1
  <2> QED BY <2>5, <2>6
<1>12. h.op \notin {"clone", "clean", "detach", "attach"} => nic'[v] = nic[v]
  BY EarlyStages
<1>13. h.op = "clone" => nic'[v] = nic[v]
  BY <1>3, DeviceSteps
<1>14. CASE h.op = "clean"
  <2>1. \/ nic'[v] = nic[v] /\ (v # h.item \/ vm[v] = "absent" \/ ignored')
        \/ v = h.item /\ nic'[v] = NoDevice
    BY <1>14, DeviceSteps
  <2> QED BY <1>7, <1>8, <1>14, <2>1
<1>15. CASE h.op = "detach"
  <2>1. \/ nic'[v] = nic[v] /\ (v # h.item \/ vm[v] = "absent" \/ ignored')
        \/ v = h.item /\ nic'[v] = [nic[v] EXCEPT ![h.num] = None]
    BY <1>15, DeviceSteps
  <2> QED BY <1>3, <1>9, <1>10, <1>15, <2>1
<1>16. CASE h.op = "attach"
  <2>1. \/ nic'[v] = nic[v] /\ (v # h.item \/ vm[v] = "absent")
        \/ v = h.item /\ nic'[v] = [nic[v] EXCEPT ![h.num] = h.net]
    BY <1>16, DeviceSteps
  <2> QED BY <1>7, <1>11, <1>16, <2>1
<1>17. CASE h.op \notin {"clean", "detach", "attach"}
  BY <1>7, <1>12, <1>13, <1>17
<1> QED BY <1>14, <1>15, <1>16, <1>17

-----------------------------------------------------------------------------
(* A destruction goes on *)

LEMMA DownActions ==
  ASSUME NEW a, DownAction(a)
  PROVE  /\ a.op \in {"remove", "apply", "stop", "destroy"}
         /\ a.op = "remove" => a.item \in NetSet /\ a = Act("remove", a.item)
         /\ a.op = "apply" => \E n \in NetSet : a = Act("apply", kind[n])
         /\ a.op \in {"stop", "destroy"} => a.item \in VMSet /\ a = Act(a.op, a.item)
<1>1. ASSUME NEW n \in NetSet, a = Act("remove", n) \/ a = Act("apply", kind[n])
      PROVE  /\ a.op \in {"remove", "apply"}
             /\ a.op = "remove" => a.item = n /\ a = Act("remove", n)
             /\ a.op = "apply" => a = Act("apply", kind[n])
  BY <1>1, ActionFields
<1>2. ASSUME NEW v \in VMSet, a = Act("stop", v) \/ a = Act("destroy", v)
      PROVE  a.op \in {"stop", "destroy"} /\ a.item = v /\ a = Act(a.op, v)
  BY <1>2, ActionFields
<1>3. CASE \E n \in NetSet : a = Act("remove", n) \/ a = Act("apply", kind[n])
  BY <1>1, <1>3
<1>4. CASE \E v \in VMSet : a = Act("stop", v) \/ a = Act("destroy", v)
  BY <1>2, <1>4
<1> QED BY <1>3, <1>4 DEF DownAction

LEMMA DownOrderStep ==
  ASSUME NEW h \in Actions, Advance(h), \A a \in Left : DownAction(a), DownOrder(todo)
  PROVE  /\ (\A a \in Left : DownAction(a))' /\ DownOrder(todo)'
         /\ DownAction(h) /\ \A b \in Left' : DownRank(h) <= DownRank(b)
<1>1. (\A a \in Left : DownAction(a))'
  BY Frame DEF Advance
<1>2. DownAction(h)
  BY DEF Advance
<1>3. \A a, b : Before(todo, a, b) => DownRank(a) <= DownRank(b)
  BY BeforeIn DEF DownOrder
<1>4. \A a, b : Before(todo', a, b) => DownRank(a) <= DownRank(b)
  BY <1>3 DEF Advance
<1>5. DownOrder(todo)'
  BY <1>4 DEF DownOrder
<1>6. \A b \in Left' : DownRank(h) <= DownRank(b)
  BY <1>3 DEF Advance
<1> QED BY <1>1, <1>2, <1>5, <1>6

LEMMA DownNetStep ==
  ASSUME TypeOK, NEW h \in Actions, Advance(h), Done(h) \/ Skipped(h), DownAction(h), DownNetInv
  PROVE  DownNetInv'
<1> SUFFICES ASSUME NEW n \in NetSet, ~Pending(n)
             PROVE  \/ net'[n] = "absent"
                    \/ net'[n] = "removing" /\ Act("apply", kind[n]) \in Left'
                    \/ /\ net'[n] = "applied"
                       /\ Before(todo', Act("remove", n), Act("apply", kind[n]))
  BY Frame DEF DownNetInv, Advance
<1> DEFINE rm == Act("remove", n)
           ap == Act("apply", kind[n])
<1>1. rm.op = "remove" /\ rm.item = n /\ ap.op = "apply" /\ ap.item = kind[n]
  BY ActionFields
<1> HIDE DEF rm, ap
<1>2. \/ net[n] = "absent"
      \/ net[n] = "removing" /\ ap \in Left
      \/ net[n] = "applied" /\ Before(todo, rm, ap)
  BY DEF DownNetInv, rm, ap
<1>3. net \in [NetSet -> {"absent", "declared", "applied", "removing"}]
  BY DEF TypeOK
<1>4. h # ap /\ ap \in Left => ap \in Left'
  BY DEF Advance
<1>5. h # rm /\ Before(todo, rm, ap) => Before(todo', rm, ap)
  BY DEF Advance
<1>6. CASE h.op \notin {"remove", "apply"}
  <2>1. net' = net
    <3>1. Effect(h) => net' = net
      BY <1>6, EffectOf, DownActions DEF SetPower, DestroyVM
    <3> QED BY <3>1 DEF Done, Skipped
  <2> QED BY <1>1, <1>2, <1>4, <1>5, <1>6, <2>1 DEF rm, ap
<1>7. CASE h.op = "remove"
  <2>1. RemoveNetwork(h.item)
    BY <1>7, EffectOf DEF Done, Skipped
  <2>2. h # ap
    BY <1>1, <1>7
  <2>3. CASE n = h.item
    <3>1. /\ net[n] = "absent" => ~Listed(n)
          /\ net[n] = "applied" => Listed(n)
      BY DEF Listed
    <3>2. /\ ~Listed(n) => net'[n] = net[n]
          /\ Listed(n) /\ net[n] # "declared" => net'[n] = "removing"
      BY <1>3, <2>1, <2>3 DEF RemoveNetwork
    <3>3. Before(todo, rm, ap) => ap \in Left
      BY BeforeIn DEF Left
    <3> QED BY <1>2, <1>4, <2>2, <3>1, <3>2, <3>3 DEF ap
  <2>4. CASE n # h.item
    <3>1. net'[n] = net[n]
      BY <1>3, <2>1, <2>4 DEF RemoveNetwork
    <3>2. h # rm
      BY <1>1, <2>4
    <3> QED BY <1>2, <1>4, <1>5, <2>2, <3>1, <3>2 DEF rm, ap
  <2> QED BY <2>3, <2>4
<1>8. CASE h.op = "apply"
  <2>1. Apply(h.item)
    BY <1>8, EffectOf DEF Done, Skipped
  <2>2. /\ net[n] = "applied" => net'[n] = "applied"
        /\ net[n] = "absent" => net'[n] = "absent"
        /\ net[n] = "removing" => net'[n] = IF kind[n] = h.item THEN "absent" ELSE "removing"
    BY <2>1 DEF Apply, Reloaded
  <2>3. h # rm
    BY <1>1, <1>8
  <2>4. kind[n] # h.item => h # ap
    BY <1>1
  <2> QED BY <1>2, <1>4, <1>5, <2>2, <2>3, <2>4 DEF rm, ap
<1> QED BY <1>6, <1>7, <1>8

LEMMA DownVMStep ==
  ASSUME TypeOK, NEW h \in Actions, Advance(h), Done(h) \/ Skipped(h), DownAction(h),
         \A v \in VMSet : vm[v] # "absent" => Act("destroy", v) \in Left
  PROVE  (\A v \in VMSet : vm[v] # "absent" => Act("destroy", v) \in Left)'
<1> SUFFICES ASSUME NEW v \in VMSet, vm'[v] # "absent" PROVE Act("destroy", v) \in Left'
  OBVIOUS
<1>1. Act("destroy", v).op = "destroy" /\ Act("destroy", v).item = v
  BY ActionFields
<1>2. CASE h.op = "destroy"
  <2>1. DestroyVM(h.item)
    BY <1>2, EffectOf DEF Done, Skipped
  <2>2. v # h.item /\ vm[v] # "absent"
    BY <2>1 DEF DestroyVM, TypeOK
  <2> QED BY <1>1, <2>2 DEF Advance
<1>3. CASE h.op # "destroy"
  <2>1. Effect(h) => vm' = vm
    BY <1>3, EffectOf, DownActions DEF RemoveNetwork, Apply, SetPower
  <2>2. vm' = vm
    BY <2>1 DEF Done, Skipped
  <2> QED BY <1>1, <1>3, <2>2 DEF Advance
<1> QED BY <1>2, <1>3

(* When networks are removed, no VM exists any more.                       *)
LEMMA DownLate ==
  ASSUME NEW h \in Actions, Advance(h), \A b \in Left' : DownRank(h) <= DownRank(b),
         \A v \in VMSet : vm[v] # "absent" => Act("destroy", v) \in Left,
         DownRank(h) = 3
  PROVE  \A v \in VMSet : vm[v] = "absent"
<1>1. \A v \in VMSet : DownRank(Act("destroy", v)) = 2
  BY ActionFields DEF DownRank
<1> QED BY <1>1 DEF Advance

-----------------------------------------------------------------------------
(* What does not touch the transaction, and where it begins *)

LEMMA AbsentStep ==
  ASSUME TypeOK, AbsentVMs, NEW a \in Actions, Effect(a), ~Refused(a)
  PROVE  AbsentVMs'
<1> SUFFICES ASSUME NEW v \in VMSet, vm'[v] = "absent"
             PROVE  nic'[v] = NoDevice /\ ~on'[v]
  BY DEF AbsentVMs
<1>1. vm[v] = "absent" => nic[v] = NoDevice /\ ~on[v]
  BY DEF AbsentVMs
<1>2. vm \in [VMSet -> {"absent", "cloned", "ready"}] /\ nic \in [VMSet -> Devices]
      /\ on \in [VMSet -> BOOLEAN]
  BY DEF TypeOK
<1>3. CASE a.op \in {"create", "remove", "apply"}
  <2>1. vm' = vm /\ nic' = nic /\ on' = on
    BY <1>3, EffectOf DEF CreateNetwork, RemoveNetwork, Apply
  <2> QED BY <1>1, <2>1
<1>4. CASE a.op = "clone"
  <2>1. Clone(a.item)
    BY <1>4, EffectOf
  <2> QED BY <1>1, <1>2, <2>1 DEF Clone
<1>5. CASE a.op = "configure"
  <2>1. Configure(a.item)
    BY <1>5, EffectOf
  <2> QED BY <1>1, <1>2, <2>1 DEF Configure
<1>6. CASE a.op \in {"clean", "detach", "attach"}
  <2>1. \E d : SetDevices(a.item, d)
    BY <1>6, EffectOf
  <2>2. PICK d : SetDevices(a.item, d)
    BY <2>1
  <2> QED BY <1>1, <1>2, <2>2 DEF SetDevices
<1>7. CASE a.op \in {"start", "stop"}
  <2>1. SetPower(a.item, TRUE) \/ SetPower(a.item, FALSE)
    BY <1>7, EffectOf
  <2>2. /\ vm' = vm /\ nic' = nic
        /\ vm[v] = "absent" /\ ~on[v] => ~on'[v]
    BY <1>2, <2>1 DEF SetPower
  <2> QED BY <1>1, <2>2
<1>8. CASE a.op = "destroy"
  <2>1. DestroyVM(a.item) /\ ~on[a.item]
    BY <1>8, EffectOf DEF Refused
  <2> QED BY <1>1, <1>2, <2>1 DEF DestroyVM
<1> QED BY <1>3, <1>4, <1>5, <1>6, <1>7, <1>8 DEF Actions

(* The guests, other transactions, and the end of this one.                *)
LEMMA UpStays ==
  ASSUME TypeOK, UNCHANGED <<wish, kind, seen, todo, vm, nic, ignored>>,
         \A v \in VMSet : on'[v] => on[v],
         net' = net \/ \E k \in Kinds : net' = Reloaded(k), UpInv
  PROVE  UpInv'
<1>1. Left' = Left
  BY DEF Left
<1>2. PlanInv'
  BY <1>1, Frame DEF UpInv, PlanInv
<1>3. UpOrder(todo)'
  BY DEF UpInv, UpOrder
<1>4. \A n \in NetSet : /\ net[n] = "applied" => net'[n] = "applied"
                        /\ net[n] = "absent" => net'[n] = "absent"
                        /\ net[n] = "declared" => net'[n] \in {"declared", "applied"}
  BY DEF Reloaded
<1>5. UpNetInv'
  BY <1>1, <1>4, Frame DEF UpInv, UpNetInv
<1>6. UpVMInv'
  BY <1>1, Frame DEF UpInv, UpVMInv
<1>7. UpStageInv'
  BY <1>1, Frame DEF UpInv, UpStageInv
<1>8. UpMoveInv'
  BY <1>1, Frame DEF UpInv, UpMoveInv
<1>9. UpFreshInv'
  BY <1>1, Frame DEF UpInv, UpFreshInv
<1>10. UpKeptInv'
  BY <1>1, Frame DEF UpInv, UpKeptInv
<1> QED BY <1>2, <1>3, <1>5, <1>6, <1>7, <1>8, <1>9, <1>10 DEF UpInv

LEMMA DownStays ==
  ASSUME TypeOK, UNCHANGED <<wish, kind, seen, todo, vm>>,
         net' = net \/ \E k \in Kinds : net' = Reloaded(k), DownInv
  PROVE  DownInv'
<1>1. Left' = Left
  BY DEF Left
<1>2. (\A a \in Left : DownAction(a))'
  BY <1>1, Frame DEF DownInv
<1>3. DownOrder(todo)'
  BY DEF DownInv, DownOrder
<1>4. \A n \in NetSet : /\ net[n] = "applied" => net'[n] = "applied"
                        /\ net[n] = "absent" => net'[n] = "absent"
                        /\ net[n] = "removing" => net'[n] \in {"removing", "absent"}
  BY DEF Reloaded
<1>5. DownNetInv'
  BY <1>1, <1>4, Frame DEF DownInv, DownNetInv
<1>6. (\A v \in VMSet : vm[v] # "absent" => Act("destroy", v) \in Left)'
  BY <1>1 DEF DownInv
<1> QED BY <1>2, <1>3, <1>5, <1>6 DEF DownInv

LEMMA UpBegins ==
  ASSUME TypeOK, AbsentInv, Plan("up")
  PROVE  UpInv'
<1>1. /\ todo' = Squeeze(UpPlan) /\ seen' = Look
      /\ UNCHANGED <<wish, kind, vm, nic, on, net>>
  BY DEF Plan, input, pve
<1>2. seen'.vm = vm /\ seen'.nic = nic /\ seen'.net = net
  BY <1>1 DEF Look
<1>3. UpPlan \in Seq(Actions) /\ UpOrder(UpPlan)
  BY UpPlanned
<1>4. /\ ToSet(todo') = ToSet(UpPlan)
      /\ \A x, y : Before(todo', x, y) => Before(UpPlan, x, y)
      /\ \A x, y : x.op # "apply" /\ Before(UpPlan, x, y) => Before(todo', x, y)
  BY <1>1, <1>3, Squeezed
<1>5. Left' = ToSet(UpPlan)
  BY <1>4 DEF Left
<1>6. UpOrder(todo)'
  BY <1>3, <1>4 DEF UpOrder
<1>7. \A v \in VMSet : /\ ToClean(v)' <=> ToClean(v)
                       /\ Declared(v)' = Declared(v)
                       /\ Fresh(v)' <=> vm[v] = "absent"
  BY <1>1, <1>2 DEF ToClean, Declared, Fresh
<1>8. \A v \in VMSet : Moves(v)' = {c \in ToSet(Declared(v)) : nic[v][c.num] # c.net}
  BY <1>2, <1>7 DEF Moves
<1>9. \A v \in VMSet : Displaced(v)' = {k \in Numbers : \E c \in Moves(v)' : nic[v][k] = c.net}
  BY <1>2 DEF Displaced
<1>10. \A v \in VMSet : ToClean(v) => Act("clean", v) \in Left'
  BY <1>5, UpPlanned, VMBlocks
<1>11. ASSUME NEW v \in VMSet, NEW c \in Moves(v)'
       PROVE  /\ Attach(v, c) \in Left'
              /\ \A k \in Numbers : nic[v][k] = c.net => Detach(v, k) \in Left'
  <2>1. c \in ToSet(Declared(v)) /\ nic[v][c.num] # c.net
    BY <1>8, <1>11
  <2>2. \A a : a \in ToSet(NetworkConnected(v, c)) => a \in ToSet(Connections(v))
    BY <2>1, ConnectionBlocks DEF ConnectionsOf
  <2>3. c \in Connection
    BY <2>1, DeclaredType
  <2>4. /\ Attach(v, c) \in ToSet(NetworkConnected(v, c))
        /\ \A k \in Numbers : nic[v][k] = c.net =>
             Detach(v, k) \in ToSet(NetworkConnected(v, c))
    BY <2>1, <2>3, ConnectionBlock
  <2>5. \A a : a \in ToSet(Connections(v)) => a \in Left'
    BY <1>5, UpPlanned
  <2> QED BY <2>2, <2>4, <2>5
<1>12. UpNetInv'
  <2> SUFFICES ASSUME NEW n \in NetSet, ~Pending(n)'
               PROVE  \/ net[n] = "applied"
                      \/ /\ net[n] = "absent"
                         /\ Before(todo', Act("create", n), Act("apply", kind[n]))
    BY <1>1 DEF UpNetInv
  <2>1. net[n] \in {"absent", "applied"}
    BY <1>2 DEF Pending, TypeOK
  <2>2. net[n] = "absent" => ~Listed(n)
    BY DEF Listed
  <2>3. ~Listed(n) => Before(UpPlan, Act("create", n), Act("apply", kind[n]))
    BY UpPlanned
  <2>4. Act("create", n).op # "apply"
    BY ActionFields
  <2> QED BY <2>1, <2>2, <2>3, <2>4, <1>4
<1>13. UpVMInv'
  <2>1. \A v \in VMSet : vm[v] = "absent" =>
          Before(todo', Act("clone", v), Act("configure", v))
    <3> TAKE v \in VMSet
    <3>1. Act("clone", v).op # "apply"
      BY ActionFields
    <3> QED BY <3>1, <1>4, UpPlanned
  <2>2. \A v \in VMSet : vm[v] = "absent" => ~on[v]
    BY DEF AbsentInv, AbsentVMs
  <2> QED BY <1>1, <1>2, <1>7, <2>1, <2>2 DEF UpVMInv
<1>14. UpStageInv'
  BY <1>7, <1>10, <1>11 DEF UpStageInv
<1>15. UpMoveInv'
  BY <1>11 DEF UpMoveInv
<1>16. UpFreshInv'
  BY <1>1, <1>7 DEF UpFreshInv
<1>17. UpKeptInv'
  <2> SUFFICES ASSUME NEW v \in VMSet, NEW c \in ToSet(Declared(v))
               PROVE  /\ nic[v][c.num] = c.net => nic[v][c.num] = c.net
                      /\ nic[v][c.num] # c.net =>
                           \A k \in Numbers : nic[v][k] = c.net => Detach(v, k) \in Left'
    BY <1>1, <1>2, <1>7 DEF UpKeptInv
  <2> QED BY <1>8, <1>11
<1>18. PlanInv'
  <2> SUFFICES ASSUME NEW a \in Left' PROVE UpAction(a)'
    BY DEF PlanInv
  <2>1. ASSUME NEW n \in NetSet, a \in ToSet(NetworkExists(n)) PROVE UpAction(a)'
    <3>1. a = Act("create", n) \/ a = Act("apply", kind'[n])
      BY <1>1, <2>1, NetworkBlocks
    <3> QED BY <3>1 DEF UpAction
  <2>2. ASSUME NEW v \in VMSet, a \in ToSet(VMExists(v)) PROVE UpAction(a)'
    <3>1. a = Act("clone", v) \/ a = Act("configure", v)
      BY <2>2, VMBlocks
    <3> QED BY <3>1 DEF UpAction
  <2>3. ASSUME NEW v \in VMSet, a \in ToSet(NetworksRemoved(v)) PROVE UpAction(a)'
    <3>1. a = Act("clean", v) /\ ToClean(v)'
      BY <1>7, <2>3, VMBlocks
    <3> QED BY <3>1 DEF UpAction
  <2>4. ASSUME NEW v \in VMSet, a \in ToSet(Connections(v)) PROVE UpAction(a)'
    <3>1. PICK c \in ToSet(Declared(v)) : a \in ToSet(NetworkConnected(v, c))
      BY <2>4, ConnectionBlocks DEF ConnectionsOf
    <3>2. /\ nic[v][c.num] # c.net
          /\ a = Attach(v, c) \/ \E k \in Numbers : nic[v][k] = c.net /\ a = Detach(v, k)
      BY <3>1, DeclaredType, ConnectionBlock
    <3>3. c \in Moves(v)'
      BY <3>2, <1>8
    <3>4. CASE a = Attach(v, c)
      BY <3>3, <3>4 DEF UpAction
    <3>5. CASE \E k \in Numbers : nic[v][k] = c.net /\ a = Detach(v, k)
      <4>1. PICK k \in Numbers : nic[v][k] = c.net /\ a = Detach(v, k)
        BY <3>5
      <4>2. k \in Displaced(v)'
        BY <3>3, <4>1, <1>9
      <4> QED BY <4>1, <4>2 DEF UpAction
    <3> QED BY <3>2, <3>4, <3>5
  <2>5. ASSUME NEW v \in VMSet, a \in ToSet(Power(v, TRUE)) PROVE UpAction(a)'
    <3>1. (a = Act("start", v) /\ wish'[v].running) \/ a = Act("stop", v)
      BY <1>1, <2>5, PowerBlock
    <3> QED BY <3>1 DEF UpAction
  <2> QED BY <1>5, <2>1, <2>2, <2>3, <2>4, <2>5, UpPlanned
<1> QED BY <1>6, <1>12, <1>13, <1>14, <1>15, <1>16, <1>17, <1>18 DEF UpInv

LEMMA DownBegins ==
  ASSUME TypeOK, Plan("down")
  PROVE  DownInv'
<1>1. /\ todo' = Squeeze(DownPlan) /\ seen' = Look
      /\ UNCHANGED <<wish, kind, vm, nic, on, net>>
  BY DEF Plan, input, pve
<1>2. seen'.net = net
  BY <1>1 DEF Look
<1>3. DownPlan \in Seq(Actions) /\ DownOrder(DownPlan)
  BY DownPlanned
<1>4. /\ ToSet(todo') = ToSet(DownPlan)
      /\ \A x, y : Before(todo', x, y) => Before(DownPlan, x, y)
      /\ \A x, y : x.op # "apply" /\ Before(DownPlan, x, y) => Before(todo', x, y)
  BY <1>1, <1>3, Squeezed
<1>5. Left' = ToSet(DownPlan)
  BY <1>4 DEF Left
<1>6. DownOrder(todo)'
  BY <1>3, <1>4 DEF DownOrder
<1>7. \A v \in VMSet : vm[v] # "absent" => Act("destroy", v) \in Left'
  BY <1>5, DownPlanned, VMBlocks
<1>8. DownNetInv'
  <2> SUFFICES ASSUME NEW n \in NetSet, ~Pending(n)'
               PROVE  \/ net[n] = "absent"
                      \/ /\ net[n] = "applied"
                         /\ Before(todo', Act("remove", n), Act("apply", kind[n]))
    BY <1>1 DEF DownNetInv
  <2>1. net[n] \in {"absent", "applied"}
    BY <1>2 DEF Pending, TypeOK
  <2>2. net[n] = "applied" => Listed(n)
    BY DEF Listed
  <2>3. Listed(n) => Before(DownPlan, Act("remove", n), Act("apply", kind[n]))
    BY DownPlanned
  <2>4. Act("remove", n).op # "apply"
    BY ActionFields
  <2> QED BY <2>1, <2>2, <2>3, <2>4, <1>4
<1>9. ASSUME NEW a \in Left' PROVE DownAction(a)'
  <2>1. ASSUME NEW v \in VMSet, a \in ToSet(Power(v, FALSE)) PROVE DownAction(a)'
    <3>1. a = Act("stop", v)
      BY <2>1, PowerBlock
    <3> QED BY <3>1 DEF DownAction
  <2>2. ASSUME NEW v \in VMSet, a \in ToSet(VMNotExists(v)) PROVE DownAction(a)'
    <3>1. a = Act("destroy", v)
      BY <2>2, VMBlocks
    <3> QED BY <3>1 DEF DownAction
  <2>3. ASSUME NEW n \in NetSet, a \in ToSet(NetworkNotExists(n)) PROVE DownAction(a)'
    <3>1. a = Act("remove", n) \/ a = Act("apply", kind'[n])
      BY <1>1, <2>3, NetworkBlocks
    <3> QED BY <3>1 DEF DownAction
  <2> QED BY <1>5, <2>1, <2>2, <2>3, DownPlanned
<1> QED BY <1>1, <1>6, <1>7, <1>8, <1>9 DEF DownInv

-----------------------------------------------------------------------------
(* The theorems *)

LEMMA UpStep ==
  ASSUME TypeOK, AbsentInv, ExecuteAction \/ ActionIgnored, UpInv
  PROVE  UpInv'
<1> DEFINE h == Head(todo)
<1>1. h \in Actions /\ Advance(h) /\ (Done(h) \/ Skipped(h))
  BY Advances
<1>2. /\ PlanInv /\ UpOrder(todo) /\ UpNetInv /\ UpVMInv /\ UpStageInv
      /\ UpMoveInv /\ UpFreshInv /\ UpKeptInv
  BY DEF UpInv
<1> HIDE DEF h
<1>3. /\ PlanInv' /\ UpOrder(todo)'
      /\ UpAction(h) /\ \A b \in Left' : UpRank(h) <= UpRank(b)
  BY <1>1, <1>2, UpPlanStep
<1>4. UpNetInv' /\ UpVMInv'
  BY <1>1, <1>2, <1>3, UpNetStep, UpVMStep
<1>5. UpStageInv'
  BY <1>1, <1>2, <1>3, UpStageStep
<1>6. UpMoveInv'
  BY <1>1, <1>2, <1>3, UpMoveStep
<1>7. \A v \in VMSet : vm'[v] = "absent" \/ vm[v] # "absent" \/ h = Act("clone", v)
  <2> SUFFICES ASSUME NEW v \in VMSet, vm[v] = "absent", vm'[v] # "absent"
               PROVE  h = Act("clone", v)
    OBVIOUS
  <2>1. CASE h.op = "clone"
    <3>1. Clone(h.item) /\ h = Act("clone", h.item)
      BY <1>1, <1>3, <2>1, EffectOf, UpActions DEF Done, Skipped
    <3>2. v = h.item
      BY <3>1 DEF Clone, TypeOK
    <3> QED BY <3>1, <3>2
  <2>2. CASE h.op = "configure" /\ Effect(h)
    <3>1. Configure(h.item)
      BY <2>2, EffectOf
    <3> QED BY <3>1 DEF Configure, TypeOK
  <2>3. CASE h.op \notin {"clone", "configure"} /\ Effect(h)
    <3>1. vm' = vm
      BY <1>1, <1>3, <2>3, EffectOf, UpActions DEF CreateNetwork, Apply, SetDevices, SetPower
    <3> QED BY <3>1
  <2>4. CASE Skipped(h)
    BY <2>4 DEF Skipped
  <2> QED BY <1>1, <2>1, <2>2, <2>3, <2>4 DEF Done
<1>8. UpFreshInv'
  BY <1>1, <1>2, <1>3, <1>7, UpFreshStep
<1>9. UpKeptInv'
  BY <1>1, <1>2, <1>3, UpKeptStep
<1> QED BY <1>3, <1>4, <1>5, <1>6, <1>8, <1>9 DEF UpInv

LEMMA DownStep ==
  ASSUME TypeOK, ExecuteAction \/ ActionIgnored, DownInv
  PROVE  DownInv'
<1> DEFINE h == Head(todo)
<1>1. h \in Actions /\ Advance(h) /\ (Done(h) \/ Skipped(h))
  BY Advances
<1>2. /\ \A a \in Left : DownAction(a)
      /\ DownOrder(todo)
      /\ \A v \in VMSet : vm[v] # "absent" => Act("destroy", v) \in Left
      /\ DownNetInv
  BY DEF DownInv
<1> HIDE DEF h
<1>3. /\ (\A a \in Left : DownAction(a))' /\ DownOrder(todo)'
      /\ DownAction(h)
  BY <1>1, <1>2, DownOrderStep
<1>4. DownNetInv'
  BY <1>1, <1>2, <1>3, DownNetStep
<1>5. (\A v \in VMSet : vm[v] # "absent" => Act("destroy", v) \in Left)'
  BY <1>1, <1>2, <1>3, DownVMStep
<1> QED BY <1>3, <1>4, <1>5 DEF DownInv

LEMMA AbsentInvStep ==
  ASSUME TypeOK, AbsentInv, [Next]_vars
  PROVE  AbsentInv'
<1> USE DEF input, pve, bounds
<1>1. ASSUME NEW goal \in {"up", "down"}, Plan(goal) PROVE AbsentInv'
  <2>1. seen'.vm = vm /\ seen'.nic = nic
    BY <1>1 DEF Plan, Look
  <2>2. AbsentVMs'
    BY <1>1 DEF Plan, AbsentInv, AbsentVMs
  <2>3. \A v \in VMSet : seen'.vm[v] = "absent" => seen'.nic[v] = NoDevice
    BY <2>1 DEF AbsentInv, AbsentVMs
  <2>4. outcome' = "run" /\ target' \in {"up", "down"}
    BY <1>1 DEF Plan
  <2> QED BY <2>2, <2>3, <2>4 DEF AbsentInv
<1>2. CASE ExecuteAction
  <2>1. AbsentVMs'
    BY <1>2, HeadType, AbsentStep DEF ExecuteAction, Running, AbsentInv
  <2> QED BY <1>2, <2>1 DEF ExecuteAction, Running, AbsentInv
<1>3. CASE ActionIgnored
  BY <1>3 DEF ActionIgnored, Running, AbsentInv, AbsentVMs
<1>4. CASE ActionFails
  <2>1. AbsentVMs'
    <3>1. CASE UNCHANGED pve
      BY <3>1 DEF AbsentInv, AbsentVMs
    <3>2. CASE ~Refused(Head(todo)) /\ Effect(Head(todo))
      BY <1>4, <3>2, HeadType, AbsentStep DEF ActionFails, Running, AbsentInv
    <3> QED BY <1>4, <3>1, <3>2 DEF ActionFails
  <2>2. todo' = <<>> /\ outcome' = "failed" /\ seen' = seen
    BY <1>4 DEF ActionFails, Give
  <2> QED BY <2>1, <2>2 DEF AbsentInv
<1>5. CASE Finish
  BY <1>5 DEF Finish, Give, AbsentInv, AbsentVMs
<1>6. ASSUME NEW v \in VMSet, GuestStops(v) PROVE AbsentInv'
  <2>1. \A w \in VMSet : on'[w] => on[w]
    BY <1>6 DEF GuestStops, TypeOK
  <2> QED BY <1>6, <2>1 DEF GuestStops, AbsentInv, AbsentVMs
<1>7. ASSUME NEW v \in VMSet, NEW w \in Wishes, Edit(v, w) PROVE AbsentInv'
  BY <1>7 DEF Edit, AbsentInv, AbsentVMs
<1>8. ASSUME NEW k \in Kinds, OthersApply(k) PROVE AbsentInv'
  BY <1>8 DEF OthersApply, AbsentInv, AbsentVMs
<1>9. CASE UNCHANGED vars
  BY <1>9 DEF vars, AbsentInv, AbsentVMs
<1> QED
  BY <1>1, <1>2, <1>3, <1>4, <1>5, <1>6, <1>7, <1>8, <1>9 DEF Next

LEMMA TransactionStep ==
  ASSUME TransactionInv, [Next]_vars
  PROVE  TransactionInv'
<1> USE DEF input, pve, bounds
<1>1. /\ TypeOK /\ AbsentInv /\ TypeOK' /\ AbsentInv'
      /\ Active("up") => UpInv
      /\ Active("down") => DownInv
  BY TypeStep, AbsentInvStep DEF TransactionInv
<1>2. SUFFICES (Active("up")' => UpInv') /\ (Active("down")' => DownInv')
  BY <1>1 DEF TransactionInv
<1>3. CASE Plan("up")
  BY <1>1, <1>3, UpBegins DEF Plan, Active
<1>4. CASE Plan("down")
  BY <1>1, <1>4, DownBegins DEF Plan, Active
<1>5. CASE ExecuteAction \/ ActionIgnored
  <2>1. \A goal : Active(goal)' => Active(goal)
    BY <1>5 DEF ExecuteAction, ActionIgnored, Active
  <2> QED BY <1>1, <1>5, <2>1, UpStep, DownStep
<1>6. ASSUME outcome' = "failed" PROVE ~Active("up")' /\ ~Active("down")'
  BY <1>6 DEF Active
<1>7. CASE ActionFails
  BY <1>6, <1>7 DEF ActionFails, Give
<1>8. CASE \E v \in VMSet : \E w \in Wishes : Edit(v, w)
  BY <1>6, <1>8 DEF Edit
<1>9. CASE Finish \/ (\E v \in VMSet : GuestStops(v)) \/ (\E k \in Kinds : OthersApply(k))
           \/ UNCHANGED vars
  <2>1. /\ UNCHANGED <<wish, kind, seen, todo, vm, nic, ignored, target>>
        /\ outcome' \in {"run", "done"} => outcome \in {"run", "done"}
        /\ net' = net \/ \E k \in Kinds : net' = Reloaded(k)
    BY <1>9 DEF Finish, Give, GuestStops, OthersApply, vars
  <2>2. \A v \in VMSet : on'[v] => on[v]
    <3>1. CASE \E v \in VMSet : GuestStops(v)
      BY <3>1 DEF GuestStops, TypeOK
    <3>2. CASE on' = on
      BY <3>2
    <3> QED BY <1>9, <3>1, <3>2 DEF Finish, OthersApply, vars
  <2>3. \A goal : Active(goal)' => Active(goal)
    BY <2>1 DEF Active
  <2> QED BY <1>1, <2>1, <2>2, <2>3, UpStays, DownStays
<1> QED
  BY <1>3, <1>4, <1>5, <1>7, <1>8, <1>9 DEF Next

LEMMA TransactionInit == Init => TransactionInv
<1> SUFFICES ASSUME Init PROVE TransactionInv
  OBVIOUS
<1>1. TypeOK
  <2>1. vm \in [VMSet -> {"absent", "cloned", "ready"}] /\ nic \in [VMSet -> Devices]
        /\ on \in [VMSet -> BOOLEAN]
        /\ net \in [NetSet -> {"absent", "declared", "applied", "removing"}]
    BY NoDeviceType DEF Init
  <2>2. todo \in Seq(Actions) /\ runs \in 0 .. MaxRuns /\ faults \in 0 .. MaxFaults
        /\ edits \in 0 .. MaxEdits
    BY PlanAssumption DEF Init
  <2>3. seen \in [vm : [VMSet -> {"absent", "cloned", "ready"}], nic : [VMSet -> Devices],
                  net : [NetSet -> {"absent", "declared", "applied", "removing"}]]
    BY <2>1 DEF Init, Look
  <2> QED BY <2>1, <2>2, <2>3 DEF Init, TypeOK
<1>2. AbsentVMs
  BY DEF Init, AbsentVMs
<1>3. AbsentInv
  BY <1>2 DEF Init, AbsentInv, Look, AbsentVMs
<1>4. ~Active("up") /\ ~Active("down")
  BY PlanAssumption DEF Init, Active
<1> QED BY <1>1, <1>3, <1>4 DEF TransactionInv

(* Every state of every transaction has the types stated.                  *)
THEOREM TypeCorrect == Spec => []TypeOK
<1>1. Init => TypeOK
  BY TransactionInit DEF TransactionInv
<1>2. TypeOK /\ [Next]_vars => TypeOK'
  BY TypeStep
<1> QED BY <1>1, <1>2, PTL DEF Spec

(* Every state satisfies the inductive invariant: as long as a transaction *)
(* runs or after it is complete, what PVE holds and what is left to do add *)
(* up to the goal of the plan, stage by stage.                             *)
THEOREM TransactionInvariant == Spec => []TransactionInv
<1>1. Init => TransactionInv
  BY TransactionInit
<1>2. TransactionInv /\ [Next]_vars => TransactionInv'
  BY TransactionStep
<1> QED BY <1>1, <1>2, PTL DEF Spec

-----------------------------------------------------------------------------
(* What a complete transaction has reached *)

LEMMA Finished ==
  ASSUME AbsentInv, outcome = "done"
  PROVE  Left = {} /\ \A a, b : ~Before(todo, a, b)
<1>1. todo = <<>>
  BY DEF AbsentInv
<1>2. Left = {}
  BY <1>1, Literals DEF Left
<1> QED BY <1>2, BeforeIn DEF Left

LEMMA DownComplete == TransactionInv => DownLeavesNothing
<1> SUFFICES ASSUME TransactionInv, Completed("down") PROVE
      /\ \A v \in VMSet : vm[v] = "absent"
      /\ \A n \in NetSet : net[n] = "absent" \/ Pending(n)
  BY DEF DownLeavesNothing
<1>1. DownInv /\ AbsentInv
  BY DEF TransactionInv, Completed, Active
<1>2. Left = {} /\ \A a, b : ~Before(todo, a, b)
  BY <1>1, Finished DEF Completed
<1> QED BY <1>1, <1>2 DEF DownInv, DownNetInv

(* A complete destruction leaves no VM, and no network but those that PVE  *)
(* may not have told of: the plan names every VM and network it lists, and *)
(* the executor goes through all of it.                                    *)
THEOREM DownTheorem == Spec => []DownLeavesNothing
BY TransactionInvariant, DownComplete, PTL

LEMMA UpComplete == TransactionInv => FreshComplete
<1> SUFFICES ASSUME TransactionInv, Completed("up"), NEW v \in VMSet PROVE
      /\ vm[v] = "ready" \/ seen.vm[v] = "cloned"
      /\ Fresh(v) =>
         /\ Connected(v)
         /\ ~ignored => \A k \in Numbers :
              (\A i \in DOMAIN Declared(v) : Declared(v)[i].num # k) =>
                nic[v][k] = IF wish[v].clean \/ wish[v].nets = <<>> THEN None ELSE Template[k]
  BY DEF FreshComplete
<1>1. UpInv /\ AbsentInv /\ TypeOK
  BY DEF TransactionInv, Completed, Active
<1>2. Left = {} /\ \A a, b : ~Before(todo, a, b)
  BY <1>1, Finished DEF Completed
<1>3. /\ vm[v] \in {"absent", "cloned", "ready"}
      /\ seen.vm[v] \in {"absent", "cloned", "ready"}
  BY <1>1 DEF TypeOK
<1>4. vm[v] # "absent"
  BY <1>1, <1>2 DEF UpInv, UpVMInv
<1>5. vm[v] = "ready" \/ seen.vm[v] = "cloned"
  BY <1>1, <1>2, <1>3, <1>4 DEF UpInv, UpVMInv, Fresh
<1>6. \A i \in DOMAIN Declared(v) : Declared(v)[i] \in ToSet(Declared(v))
  BY DEF ToSet
<1>7. \A c \in ToSet(Declared(v)) : \E i \in DOMAIN Declared(v) : c = Declared(v)[i]
  BY DEF ToSet
<1>8. ASSUME Fresh(v) PROVE Connected(v)
  <2>1. \A c \in ToSet(Declared(v)) : nic[v][c.num] = c.net
    BY <1>1, <1>2, <1>8, NotDisplaced DEF UpInv, UpMoveInv
  <2> QED BY <1>6, <2>1 DEF Connected
<1>9. ASSUME Fresh(v), ~ignored, NEW k \in Numbers,
             \A i \in DOMAIN Declared(v) : Declared(v)[i].num # k
      PROVE  nic[v][k] = IF wish[v].clean \/ wish[v].nets = <<>> THEN None ELSE Template[k]
  <2>1. \A c \in ToSet(Declared(v)) : c.num # k
    BY <1>7, <1>9
  <2> QED BY <1>1, <1>2, <1>4, <1>9, <2>1 DEF UpInv, UpFreshInv, ToClean
<1> QED BY <1>5, <1>8, <1>9

(* A complete deployment has made and configured each missing VM, with the *)
(* connections declared, and left of the template's devices those that the *)
(* configuration leaves; but for VMs that an earlier clone left behind.    *)
THEOREM FreshTheorem == Spec => []FreshComplete
BY TransactionInvariant, UpComplete, PTL

LEMMA KeptComplete == TransactionInv => ExistingReconnected
<1> SUFFICES ASSUME TransactionInv, Completed("up"), ~ignored, NEW v \in VMSet,
                    ~Fresh(v), Untangled(v), NEW i \in DOMAIN Declared(v)
             PROVE LET c == Declared(v)[i]
                       fits == seen.nic[v][c.num] = c.net
                   IN /\ ~(fits /\ wish[v].clean) => nic[v][c.num] = c.net
                      /\ ~fits => \A k \in Numbers : nic[v][k] = c.net => k = c.num
  BY DEF ExistingReconnected
<1> DEFINE c == Declared(v)[i]
           fits == seen.nic[v][c.num] = c.net
<1>1. UpInv /\ AbsentInv /\ TypeOK
  BY DEF TransactionInv, Completed, Active
<1>2. Left = {}
  BY <1>1, Finished DEF Completed
<1>3. c \in ToSet(Declared(v))
  BY DEF ToSet
<1>4. wish[v].nets # <<>>
  <2>1. ASSUME wish[v].nets = <<>> PROVE FALSE
    <3>1. Declared(v) = <<>>
      BY <1>1, <2>1, DeclaredType
    <3> QED BY <3>1, <1>3, Literals
  <2> QED BY <2>1
<1> HIDE DEF c
<1>5. ASSUME ~fits PROVE nic[v][c.num] = c.net
  <2>1. c \in Moves(v)
    BY <1>3, <1>5 DEF Moves
  <2> QED BY <1>1, <1>2, <2>1 DEF UpInv, UpMoveInv
<1>6. ASSUME fits, ~wish[v].clean PROVE nic[v][c.num] = c.net
  BY <1>1, <1>3, <1>4, <1>6 DEF UpInv, UpKeptInv, ToClean
<1>7. ASSUME ~fits, NEW k \in Numbers, nic[v][k] = c.net PROVE k = c.num
  BY <1>1, <1>2, <1>3, <1>7 DEF UpInv, UpKeptInv
<1> QED BY <1>5, <1>6, <1>7 DEF c

(* A complete deployment in which no failure was ignored has moved the     *)
(* devices of the VMs that existed to the networks declared and taken the  *)
(* others off these, for VMs whose devices do not swap networks.           *)
THEOREM ReconnectedTheorem == Spec => []ExistingReconnected
BY TransactionInvariant, KeptComplete, PTL

LEMMA Settled == TransactionInv => UpSettles
<1> SUFFICES ASSUME TransactionInv, Completed("up"), ~ignored,
                    \A n \in NetSet : ~Pending(n),
                    \A v \in VMSet : Fresh(v) /\ ~wish[v].clean /\ wish[v].nets # <<>>,
                    NEW i \in DOMAIN UpPlan
             PROVE  UpPlan[i].op = "start"
  BY DEF UpSettles
<1>1. UpInv /\ AbsentInv /\ TypeOK
  BY DEF TransactionInv, Completed, Active
<1>2. Left = {} /\ \A a, b : ~Before(todo, a, b)
  BY <1>1, Finished DEF Completed
<1> DEFINE a == UpPlan[i]
<1>3. a \in ToSet(UpPlan)
  BY DEF ToSet
<1>4. \A v \in VMSet : vm[v] # "absent" /\ ~ToClean(v)
  BY <1>1, <1>2 DEF UpInv, UpVMInv, ToClean
<1> HIDE DEF a
<1>5. ASSUME NEW n \in NetSet PROVE a \notin ToSet(NetworkExists(n))
  <2>1. net[n] = "applied"
    BY <1>1, <1>2 DEF UpInv, UpNetInv
  <2>2. Listed(n)
    BY <2>1 DEF Listed
  <2> QED BY <1>1, <2>2, NetworkBlocks
<1>6. ASSUME NEW v \in VMSet
      PROVE  a \notin ToSet(VMExists(v)) /\ a \notin ToSet(NetworksRemoved(v))
  BY <1>4, VMBlocks
<1>7. ASSUME NEW v \in VMSet PROVE a \notin ToSet(Connections(v))
  <2>1. \A c \in ToSet(Declared(v)) : nic[v][c.num] = c.net
    BY <1>1, <1>2, NotDisplaced DEF UpInv, UpMoveInv
  <2>2. \A c \in ToSet(Declared(v)) : ToSet(NetworkConnected(v, c)) = {}
    BY <2>1, Literals DEF NetworkConnected
  <2>3. ConnectionsOf(v) = {}
    BY <2>2 DEF ConnectionsOf
  <2> QED BY <1>1, <2>3, ConnectionBlocks
<1>8. ASSUME NEW v \in VMSet, a \in ToSet(Power(v, TRUE)) PROVE a = Act("start", v)
  <2>1. on[v] => wish[v].running
    BY <1>1 DEF UpInv, UpVMInv
  <2> QED BY <1>1, <1>8, <2>1, PowerBlock
<1>9. \E v \in VMSet : a = Act("start", v)
  BY <1>1, <1>3, <1>5, <1>6, <1>7, <1>8, UpPlanned
<1>10. a.op = "start"
  BY <1>9, ActionFields
<1> QED BY <1>10 DEF a

(* Deploying again what was deployed completely, from nothing, plans only  *)
(* starts: the deployment is idempotent but for guests that stopped.       *)
THEOREM SettlesTheorem == Spec => []UpSettles
BY TransactionInvariant, Settled, PTL

-----------------------------------------------------------------------------
(* What an action may do, whether or not the transaction goes on after it  *)

(* The first action is executed, or PVE changes as the world changes it.   *)
Executed(h) ==
  /\ Running /\ h = Head(todo) /\ h \in Actions
  /\ Effect(h) /\ ~Refused(h)

LEMMA Executes ==
  ASSUME TypeOK, [Next]_vars
  PROVE  \/ Executed(Head(todo))
         \/ nic' = nic /\ (net' = net \/ \E k \in Kinds : net' = Reloaded(k))
<1>1. ASSUME ExecuteAction \/ ActionFails
      PROVE  Executed(Head(todo)) \/ (nic' = nic /\ net' = net)
  BY <1>1, HeadType DEF ExecuteAction, ActionFails, Executed, Running, pve
<1>2. CASE Plan("up") \/ Plan("down") \/ ActionIgnored \/ Finish \/ UNCHANGED vars
  BY <1>2 DEF Plan, ActionIgnored, Finish, vars, pve
<1>3. CASE \E v \in VMSet : GuestStops(v) \/ \E w \in Wishes : Edit(v, w)
  BY <1>3 DEF GuestStops, Edit, pve
<1>4. CASE \E k \in Kinds : OthersApply(k)
  BY <1>4 DEF OthersApply
<1> QED BY <1>1, <1>2, <1>3, <1>4 DEF Next

(* It comes before all others that are left.                               *)
LEMMA First ==
  ASSUME TypeOK, Running
  PROVE  /\ Head(todo) \in Left
         /\ \A b \in Left : b = Head(todo) \/ Before(todo, Head(todo), b)
<1>1. todo \in Seq(Actions) /\ todo # <<>>
  BY DEF TypeOK, Running
<1> QED BY <1>1, TailOrder DEF Left

LEMMA ReloadKeeps ==
  ASSUME NEW k, NEW n \in NetSet, net[n] = "applied"
  PROVE  Reloaded(k)[n] = "applied"
BY DEF Reloaded

LEMMA RemovedUnused ==
  ASSUME TransactionInv, [Next]_vars, NEW n \in NetSet,
         net[n] = "applied", net'[n] # "applied"
  PROVE  \A v \in VMSet, k \in Numbers : nic[v][k] # n
<1> DEFINE h == Head(todo)
<1>1. TypeOK /\ AbsentInv
  BY DEF TransactionInv
<1>2. Executed(h)
  BY <1>1, Executes, ReloadKeeps
<1> HIDE DEF h
<1>3. Active("up") \/ Active("down")
  BY <1>1, <1>2 DEF Executed, Running, AbsentInv, Active
<1>4. h \in Left /\ \A b \in Left : b = h \/ Before(todo, h, b)
  BY <1>1, <1>2, First DEF Executed
<1>5. net \in [NetSet -> {"absent", "declared", "applied", "removing"}]
  BY <1>1 DEF TypeOK
<1>6. h.op = "remove"
  <2>1. ASSUME h.op = "create" PROVE FALSE
    <3>1. CreateNetwork(h.item)
      BY <1>2, <2>1, EffectOf DEF Executed
    <3>2. Listed(n)
      BY DEF Listed
    <3> QED BY <1>5, <3>1, <3>2 DEF CreateNetwork
  <2>2. ASSUME h.op = "apply" PROVE FALSE
    <3>1. Apply(h.item)
      BY <1>2, <2>2, EffectOf DEF Executed
    <3> QED BY <3>1, ReloadKeeps DEF Apply
  <2>3. ASSUME h.op \in {"clone", "configure", "clean", "detach", "attach", "start", "stop",
                         "destroy"}
        PROVE  FALSE
    BY <1>2, <2>3, EffectOf
       DEF Executed, Clone, Configure, SetDevices, SetPower, DestroyVM
  <2>4. h.op \in {"create", "remove", "apply", "clone", "configure", "clean", "detach",
                  "attach", "start", "stop", "destroy"}
    BY <1>2 DEF Executed, Actions
  <2> QED BY <2>1, <2>2, <2>3, <2>4
<1>7. ~Active("up")
  BY <1>4, <1>6, UpActions DEF TransactionInv, UpInv, PlanInv
<1>8. DownInv
  BY <1>3, <1>7 DEF TransactionInv
<1>9. DownRank(h) = 3
  BY <1>6 DEF DownRank
<1>10. \A v \in VMSet : vm[v] = "absent"
  <2> SUFFICES ASSUME NEW v \in VMSet, vm[v] # "absent" PROVE FALSE
    OBVIOUS
  <2>1. DownRank(Act("destroy", v)) = 2 /\ Act("destroy", v) \in Left
    BY <1>8, ActionFields DEF DownRank, DownInv
  <2>2. Before(todo, h, Act("destroy", v))
    BY <1>4, <1>9, <2>1
  <2>3. DownRank(h) <= DownRank(Act("destroy", v))
    BY <1>4, <1>8, <2>1, <2>2 DEF DownInv, DownOrder, Left
  <2> QED BY <1>9, <2>1, <2>3
<1> QED BY <1>1, <1>10, PlanAssumption DEF AbsentInv, AbsentVMs, NoDevice

(* A network is taken away only when no VM has a device on it: in a        *)
(* destruction every VM is destroyed before the first network is removed,  *)
(* and no deployment removes one, whatever fails and wherever it stops.    *)
THEOREM UnusedTheorem == Spec => RemoveUnused
<1>1. TransactionInv /\ [Next]_vars =>
        [\A n \in NetSet : net[n] = "applied" /\ net'[n] # "applied" =>
           \A v \in VMSet, k \in Numbers : nic[v][k] # n]_vars
  BY RemovedUnused
<1> QED BY <1>1, TransactionInvariant, PTL DEF Spec, RemoveUnused

LEMMA AttachedLive ==
  ASSUME TransactionInv, [Next]_vars, NEW v \in VMSet, NEW k \in Numbers,
         vm[v] # "absent", nic'[v][k] # nic[v][k], nic'[v][k] \in NetSet
  PROVE  net[nic'[v][k]] = "applied" \/ Pending(nic'[v][k])
<1> DEFINE h == Head(todo)
           n == nic'[v][k]
<1>1. TypeOK /\ AbsentInv
  BY DEF TransactionInv
<1>2. Executed(h)
  BY <1>1, Executes
<1> HIDE DEF h
<1>3. Active("up") \/ Active("down")
  BY <1>1, <1>2 DEF Executed, Running, AbsentInv, Active
<1>4. h \in Left /\ \A b \in Left : b = h \/ Before(todo, h, b)
  BY <1>1, <1>2, First DEF Executed
<1>5. nic \in [VMSet -> Devices] /\ nic[v] \in Devices
      /\ vm \in [VMSet -> {"absent", "cloned", "ready"}]
  BY <1>1 DEF TypeOK
<1>6. None \notin NetSet
  BY PlanAssumption
<1>7. h.op = "attach"
  <2>1. ASSUME h.op \in {"create", "remove", "apply", "configure", "start", "stop"} PROVE FALSE
    BY <1>2, <2>1, EffectOf
       DEF Executed, CreateNetwork, RemoveNetwork, Apply, Configure, SetPower
  <2>2. ASSUME h.op = "clone" PROVE FALSE
    <3>1. Clone(h.item)
      BY <1>2, <2>2, EffectOf DEF Executed
    <3> QED BY <1>5, <3>1 DEF Clone
  <2>3. ASSUME h.op = "clean" PROVE FALSE
    <3>1. SetDevices(h.item, NoDevice)
      BY <1>2, <2>3, EffectOf DEF Executed
    <3> QED BY <1>5, <1>6, <3>1 DEF SetDevices, NoDevice
  <2>4. ASSUME h.op = "detach" PROVE FALSE
    <3>1. SetDevices(h.item, [nic[h.item] EXCEPT ![h.num] = None])
      BY <1>2, <2>4, EffectOf DEF Executed
    <3> QED BY <1>5, <1>6, <3>1 DEF SetDevices, Devices
  <2>5. ASSUME h.op = "destroy" PROVE FALSE
    <3>1. DestroyVM(h.item)
      BY <1>2, <2>5, EffectOf DEF Executed
    <3> QED BY <1>5, <1>6, <3>1 DEF DestroyVM, NoDevice
  <2>6. h.op \in {"create", "remove", "apply", "clone", "configure", "clean", "detach",
                  "attach", "start", "stop", "destroy"}
    BY <1>2 DEF Executed, Actions
  <2> QED BY <2>1, <2>2, <2>3, <2>4, <2>5, <2>6
<1>8. n = h.net
  <2>1. SetDevices(h.item, [nic[h.item] EXCEPT ![h.num] = h.net])
    BY <1>2, <1>7, EffectOf DEF Executed
  <2> QED BY <1>5, <2>1 DEF SetDevices, Devices
<1>9. UpInv
  <2>1. ~Active("down")
    BY <1>4, <1>7, DownActions DEF TransactionInv, DownInv
  <2> QED BY <1>3, <2>1 DEF TransactionInv
<1>10. UpRank(h) = 4
  BY <1>7 DEF UpRank
<1>11. \A b \in Left : UpRank(b) # 1
  <2> SUFFICES ASSUME NEW b \in Left, UpRank(b) = 1 PROVE FALSE
    OBVIOUS
  <2>1. Before(todo, h, b)
    BY <1>4, <1>10
  <2>2. UpRank(h) <= UpRank(b)
    BY <1>4, <1>9, <2>1 DEF UpInv, UpOrder, Left
  <2> QED BY <1>10, <2>2
<1>12. UpRank(Act("apply", kind[n])) = 1
  BY ActionFields DEF UpRank
<1>13. Act("apply", kind[n]) \notin Left
  BY <1>11, <1>12
<1>14. ~Before(todo, Act("create", n), Act("apply", kind[n]))
  BY <1>13, BeforeIn DEF Left
<1> QED BY <1>9, <1>13, <1>14 DEF UpInv, UpNetInv

(* A device of an existing VM is put on a network only once that is        *)
(* applied, whichever of equal reloads were left out of the plan; but for  *)
(* networks that an interrupted transaction left declared or removed.      *)
THEOREM LiveTheorem == Spec => AttachLive
<1>1. TransactionInv /\ [Next]_vars =>
        [\A v \in VMSet, k \in Numbers :
           vm[v] # "absent" /\ nic'[v][k] # nic[v][k] /\ nic'[v][k] \in NetSet =>
             net[nic'[v][k]] = "applied" \/ Pending(nic'[v][k])]_vars
  BY AttachedLive
<1> QED BY <1>1, TransactionInvariant, PTL DEF Spec, AttachLive
=============================================================================
