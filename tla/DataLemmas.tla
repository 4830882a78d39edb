------------------------------ MODULE DataLemmas ------------------------------
(***************************************************************************)
(* What the proofs about data rest on: induction and primitive recursion   *)
(* over the natural numbers, and a few facts about sequences.              *)
(*                                                                         *)
(* Induction and recursion are stated with sets and functions in the place *)
(* of operators, so that the provers can instantiate them.  The library    *)
(* states both with an operator as the parameter; what it says of          *)
(* well-founded relations has none, and all else follows from that.        *)
(***************************************************************************)
EXTENDS Integers, SequencesExt, WellFoundedInduction, TLAPS

\* A smaller number is below a larger one in the library's relation.
LEMMA LessIsRelated == \A x, y \in Nat : x < y => <<x, y>> \in OpToRel(<, Nat)
  BY DEF OpToRel

\* A set of natural numbers that is not empty has a least one.
LEMMA LeastNumber ==
    ASSUME NEW T \in SUBSET Nat, T # {}
    PROVE  \E x \in T : \A y \in T : x <= y
  <1> DEFINE R == OpToRel(<, Nat)
  <1>1. IsWellFoundedOn(R, Nat)
    BY NatLessThanWellFounded
  <1>2. \A x, y \in Nat : x < y => <<x, y>> \in R
    BY LessIsRelated
  <1> HIDE DEF R
  <1>3. \E x \in T : \A y \in T : ~(<<y, x>> \in R)
    BY <1>1, WFMin
  <1>4. PICK x \in T : \A y \in T : ~(<<y, x>> \in R)
    BY <1>3
  <1>5. ASSUME NEW y \in T PROVE x <= y
    <2>1. x \in Nat /\ y \in Nat
      OBVIOUS
    <2>2. ~(<<y, x>> \in R)
      BY <1>4
    <2>3. ~(y < x)
      BY <1>2, <2>1, <2>2, Zenon
    <2>4. QED
      BY <2>1, <2>3
  <1>6. QED
    BY <1>5

\* Induction: a set that has zero, and with a number its successor, has all.
LEMMA SetInduction ==
    ASSUME NEW S, 0 \in S, \A n \in Nat : n \in S => n + 1 \in S
    PROVE  Nat \subseteq S
  <1> SUFFICES ASSUME Nat \ S # {} PROVE FALSE
    OBVIOUS
  <1>1. PICK m \in Nat \ S : \A y \in Nat \ S : m <= y
    BY LeastNumber
  <1>2. m # 0 /\ m - 1 \in Nat /\ m - 1 \in S
    BY <1>1
  <1>3. QED
    BY <1>1, <1>2

-----------------------------------------------------------------------------
(* Primitive recursion.                                                     *)

\* Up to k, g is what start and step make of it.
Follows(g, k, start, step) ==
    \A i \in 0 .. k : g[i] = IF i = 0 THEN start ELSE step[i - 1][g[i - 1]]

\* Up to any number there is a function that follows the steps.
LEMMA FollowsUpTo ==
    ASSUME NEW V, NEW start \in V, NEW step \in [Nat -> [V -> V]]
    PROVE  \A k \in Nat : \E g \in [Nat -> V] : Follows(g, k, start, step)
  <1> DEFINE S == {k \in Nat : \E g \in [Nat -> V] : Follows(g, k, start, step)}
  <1>1. 0 \in S
    <2>1. /\ [i \in Nat |-> start] \in [Nat -> V]
          /\ Follows([i \in Nat |-> start], 0, start, step)
      BY DEF Follows
    <2>2. QED
      BY <2>1
  <1>2. ASSUME NEW k \in Nat, k \in S PROVE k + 1 \in S
    <2>1. PICK g \in [Nat -> V] : Follows(g, k, start, step)
      BY <1>2
    <2> DEFINE h == [g EXCEPT ![k + 1] = step[k][g[k]]]
    <2>2. h \in [Nat -> V]
      OBVIOUS
    <2>3. \A i \in 0 .. k : h[i] = g[i]
      OBVIOUS
    <2>4. h[k + 1] = step[k][g[k]]
      OBVIOUS
    <2> HIDE DEF h
    <2>5. Follows(h, k + 1, start, step)
      BY <2>1, <2>3, <2>4 DEF Follows
    <2>6. QED
      BY <2>2, <2>5
  <1> HIDE DEF S
  <1>3. Nat \subseteq S
    BY <1>1, <1>2, SetInduction
  <1>4. QED
    BY <1>3 DEF S

\* Two functions that follow the same steps agree as far as both do.
LEMMA FollowersAgree ==
    ASSUME NEW start, NEW step, NEW g, NEW h, NEW k \in Nat, NEW m \in Nat, k <= m,
           Follows(g, k, start, step), Follows(h, m, start, step)
    PROVE  \A i \in 0 .. k : g[i] = h[i]
  <1> DEFINE S == {i \in Nat : i <= k => g[i] = h[i]}
  <1>1. 0 \in S
    BY DEF Follows
  <1>2. ASSUME NEW i \in Nat, i \in S PROVE i + 1 \in S
    <2>1. CASE i + 1 <= k
      <3>1. i + 1 \in 0 .. k /\ i + 1 \in 0 .. m /\ i + 1 # 0 /\ (i + 1) - 1 = i
        BY <2>1
      <3>2. g[i + 1] = step[i][g[i]] /\ h[i + 1] = step[i][h[i]]
        BY <3>1 DEF Follows
      <3>3. g[i] = h[i]
        BY <1>2, <2>1
      <3>4. QED
        BY <3>2, <3>3
    <2>2. QED
      BY <2>1
  <1> HIDE DEF S
  <1>3. Nat \subseteq S
    BY <1>1, <1>2, SetInduction
  <1>4. QED
    BY <1>3 DEF S

\* The function on the numbers that start and the steps define.
IsRecursion(f, V, start, step) ==
    /\ f \in [Nat -> V]
    /\ f[0] = start /\ \A i \in Nat : f[i + 1] = step[i][f[i]]

\* A value to start from and a step for each number define a function.
THEOREM PrimitiveRecursion ==
    ASSUME NEW V, NEW start, NEW step, start \in V, step \in [Nat -> [V -> V]]
    PROVE  \E f : IsRecursion(f, V, start, step)
  <1> DEFINE G(k) == CHOOSE g \in [Nat -> V] : Follows(g, k, start, step)
             f == [k \in Nat |-> G(k)[k]]
  <1>1. \A k \in Nat : G(k) \in [Nat -> V] /\ Follows(G(k), k, start, step)
    BY FollowsUpTo
  <1> HIDE DEF G
  <1>2. f \in [Nat -> V]
    BY <1>1
  <1>3. f[0] = start
    BY <1>1 DEF Follows
  <1>4. ASSUME NEW i \in Nat PROVE f[i + 1] = step[i][f[i]]
    <2>1. \A j \in 0 .. i : G(i)[j] = G(i + 1)[j]
      BY <1>1, FollowersAgree
    <2>2. G(i + 1)[i + 1] = step[i][G(i + 1)[i]]
      <3>1. i + 1 \in 0 .. i + 1 /\ i + 1 # 0 /\ (i + 1) - 1 = i
        OBVIOUS
      <3>2. QED
        BY <1>1, <3>1 DEF Follows
    <2>3. QED
      BY <2>1, <2>2
  <1>5. QED
    BY <1>2, <1>3, <1>4 DEF IsRecursion

\* A set of natural numbers that is bounded and not empty has a greatest one.
LEMMA GreatestNumber ==
    ASSUME NEW T \in SUBSET Nat, T # {}, NEW m \in Nat, \A x \in T : x <= m
    PROVE  \E x \in T : \A y \in T : y <= x
  <1> DEFINE gaps == {m - x : x \in T}
  <1>1. gaps \in SUBSET Nat /\ gaps # {}
    <2>1. \A x \in T : x \in Nat /\ m - x \in Nat
      OBVIOUS
    <2>2. QED
      BY <2>1
  <1> HIDE DEF gaps
  <1>2. PICK g \in gaps : \A h \in gaps : g <= h
    BY <1>1, LeastNumber
  <1>3. PICK x \in T : g = m - x
    BY <1>2 DEF gaps
  <1>4. ASSUME NEW y \in T PROVE y <= x
    <2>1. m - x <= m - y
      BY <1>2, <1>3 DEF gaps
    <2>2. x \in Nat /\ y \in Nat
      OBVIOUS
    <2>3. QED
      BY <2>1, <2>2
  <1>5. QED
    BY <1>4

------------------------------------------------------------------------------
(* Sequences *)

\* The elements of a sequence are in the set it is over.
LEMMA Elements ==
    ASSUME NEW S, NEW s \in Seq(S)
    PROVE  \A k \in DOMAIN s : s[k] \in S
  OBVIOUS

\* What Append does, element by element.
LEMMA Appended ==
    ASSUME NEW S, NEW s \in Seq(S), NEW e \in S
    PROVE  /\ Append(s, e) \in Seq(S) /\ Len(Append(s, e)) = Len(s) + 1
           /\ DOMAIN Append(s, e) = 1 .. Len(s) + 1 /\ DOMAIN s = 1 .. Len(s)
           /\ \A k \in 1 .. Len(s) : Append(s, e)[k] = s[k]
           /\ Append(s, e)[Len(s) + 1] = e
  OBVIOUS

\* What joining sequences does, element by element.
LEMMA Joined ==
    ASSUME NEW S, NEW a \in Seq(S), NEW b \in Seq(S)
    PROVE  /\ a \o b \in Seq(S) /\ Len(a \o b) = Len(a) + Len(b)
           /\ \A j \in 1 .. Len(a) : (a \o b)[j] = a[j]
           /\ \A j \in 1 .. Len(b) : (a \o b)[Len(a) + j] = b[j]
  OBVIOUS

\* What RemoveAt does, element by element.
LEMMA Removed ==
    ASSUME NEW S, NEW s \in Seq(S), NEW k \in DOMAIN s
    PROVE  /\ RemoveAt(s, k) \in Seq(S) /\ Len(RemoveAt(s, k)) = Len(s) - 1
           /\ DOMAIN RemoveAt(s, k) = 1 .. Len(s) - 1
           /\ \A j \in 1 .. Len(s) - 1 : RemoveAt(s, k)[j] = s[IF j < k THEN j ELSE j + 1]
  <1>1. k \in 1 .. Len(s) /\ Len(s) \in Nat
    OBVIOUS
  <1>2. /\ SubSeq(s, 1, k - 1) \in Seq(S) /\ Len(SubSeq(s, 1, k - 1)) = k - 1
        /\ \A j \in 1 .. k - 1 : SubSeq(s, 1, k - 1)[j] = s[j]
    BY <1>1
  <1>3. /\ SubSeq(s, k + 1, Len(s)) \in Seq(S) /\ Len(SubSeq(s, k + 1, Len(s))) = Len(s) - k
        /\ \A j \in 1 .. Len(s) - k : SubSeq(s, k + 1, Len(s))[j] = s[j + k]
    BY <1>1
  <1> DEFINE a == SubSeq(s, 1, k - 1)
             b == SubSeq(s, k + 1, Len(s))
             c == RemoveAt(s, k)
  <1>4. a \in Seq(S) /\ b \in Seq(S) /\ c = a \o b
    BY <1>2, <1>3 DEF RemoveAt
  <1>5. /\ Len(a) = k - 1 /\ \A j \in 1 .. k - 1 : a[j] = s[j]
        /\ Len(b) = Len(s) - k /\ \A j \in 1 .. Len(s) - k : b[j] = s[j + k]
    BY <1>2, <1>3
  <1> HIDE DEF a, b, c
  <1>6. /\ c \in Seq(S) /\ Len(c) = Len(a) + Len(b)
        /\ \A j \in 1 .. Len(a) : c[j] = a[j]
        /\ \A j \in 1 .. Len(b) : c[Len(a) + j] = b[j]
    BY ONLY <1>4, Joined
  <1>7. Len(c) = Len(s) - 1 /\ DOMAIN c = 1 .. Len(s) - 1
    BY <1>1, <1>5, <1>6
  <1>8. ASSUME NEW j \in 1 .. Len(s) - 1 PROVE c[j] = s[IF j < k THEN j ELSE j + 1]
    <2>1. CASE j < k
      <3>1. j \in 1 .. Len(a) /\ j \in 1 .. k - 1
        BY <1>1, <1>5, <2>1
      <3>2. c[j] = a[j]
        BY <1>6, <3>1
      <3>3. a[j] = s[j]
        BY <1>5, <3>1
      <3>4. QED
        BY <2>1, <3>2, <3>3
    <2>2. CASE ~(j < k)
      <3>1. /\ j - (k - 1) \in 1 .. Len(s) - k /\ (j - (k - 1)) + k = j + 1
            /\ (k - 1) + (j - (k - 1)) = j
        BY <1>1, <2>2
      <3>2. b[j - (k - 1)] = s[j + 1]
        BY <1>5, <3>1
      <3>3. j - (k - 1) \in 1 .. Len(b) /\ Len(a) = k - 1
        BY <1>5, <3>1
      <3>4. c[Len(a) + (j - (k - 1))] = b[j - (k - 1)]
        BY <1>6, <3>3
      <3>5. QED
        BY <2>2, <3>1, <3>2, <3>3, <3>4
    <2>3. QED
      BY <2>1, <2>2
  <1>9. QED
    BY <1>6, <1>7, <1>8 DEF c

\* What Reverse does, element by element, and once more.
LEMMA Reversed ==
    ASSUME NEW S, NEW s \in Seq(S)
    PROVE  /\ Reverse(s) \in Seq(S) /\ Len(Reverse(s)) = Len(s)
           /\ Reverse(Reverse(s)) = s
           /\ Reverse(s) = <<>> <=> s = <<>>
           /\ s # <<>> => Reverse(s)[1] = s[Len(s)] /\ Reverse(s)[Len(s)] = s[1]
  <1> DEFINE r == Reverse(s)
             b == Reverse(r)
  <1>1. Len(s) \in Nat /\ \A i \in 1 .. Len(s) : s[i] \in S
    BY Elements
  <1>2. \A i \in 1 .. Len(s) : (Len(s) - i) + 1 \in 1 .. Len(s)
    BY <1>1
  <1>3. r = [i \in 1 .. Len(s) |-> s[(Len(s) - i) + 1]]
    BY DEF Reverse
  <1>4. r \in Seq(S) /\ Len(r) = Len(s)
    BY <1>1, <1>2, <1>3
  <1>5. b = [i \in 1 .. Len(s) |-> r[(Len(s) - i) + 1]]
    BY <1>4 DEF Reverse
  <1> HIDE DEF r, b
  <1>6. b \in Seq(S) /\ Len(b) = Len(s)
    BY <1>1, <1>2, <1>4, <1>5
  <1>7. ASSUME NEW i \in 1 .. Len(s) PROVE b[i] = s[i]
    <2> DEFINE j == (Len(s) - i) + 1
    <2>1. j \in 1 .. Len(s) /\ (Len(s) - j) + 1 = i
      BY <1>1
    <2>2. b[i] = r[j]
      BY <1>5
    <2> HIDE DEF j
    <2>3. r[j] = s[(Len(s) - j) + 1]
      BY <1>3, <2>1
    <2>4. QED
      BY <2>1, <2>2, <2>3
  <1>8. b = s
    BY <1>6, <1>7
  <1>9. r = <<>> <=> s = <<>>
    BY <1>4
  <1>10. ASSUME s # <<>> PROVE r[1] = s[Len(s)] /\ r[Len(s)] = s[1]
    <2>1. /\ 1 \in 1 .. Len(s) /\ Len(s) \in 1 .. Len(s)
          /\ (Len(s) - 1) + 1 = Len(s) /\ (Len(s) - Len(s)) + 1 = 1
      BY <1>1, <1>10
    <2>2. r[1] = s[(Len(s) - 1) + 1] /\ r[Len(s)] = s[(Len(s) - Len(s)) + 1]
      BY <1>3, <2>1
    <2>3. QED
      BY <2>1, <2>2
  <1>11. QED
    BY <1>4, <1>8, <1>9, <1>10 DEF r, b

------------------------------------------------------------------------------
(* Prefixes and codes *)

\* A prefix, element by element.
LEMMA PrefixIs ==
    ASSUME NEW S, NEW s \in Seq(S), NEW t \in Seq(S)
    PROVE  IsPrefix(s, t) <=> Len(s) <= Len(t) /\ \A i \in 1 .. Len(s) : s[i] = t[i]
  <1>1. ASSUME Len(s) <= Len(t)
        PROVE  SubSeq(s, 1, Len(s)) = SubSeq(t, 1, Len(s)) <=>
                    \A i \in 1 .. Len(s) : s[i] = t[i]
    <2> DEFINE a == SubSeq(s, 1, Len(s))
               b == SubSeq(t, 1, Len(s))
    <2>1. /\ a \in Seq(S) /\ Len(a) = Len(s) /\ \A i \in 1 .. Len(s) : a[i] = s[i]
          /\ b \in Seq(S) /\ Len(b) = Len(s) /\ \A i \in 1 .. Len(s) : b[i] = t[i]
      BY <1>1
    <2> HIDE DEF a, b
    <2>2. a = b <=> \A i \in 1 .. Len(s) : a[i] = b[i]
      BY <2>1
    <2>3. QED
      BY <2>1, <2>2 DEF a, b
  <1>2. QED
    BY <1>1 DEF IsPrefix

\* A prefix of a prefix, and two prefixes of one sequence.
LEMMA PrefixesOf ==
    ASSUME NEW S, NEW s \in Seq(S), NEW t \in Seq(S), NEW w \in Seq(S), IsPrefix(t, w)
    PROVE  /\ IsPrefix(s, t) => IsPrefix(s, w)
           /\ IsPrefix(s, w) => IsPrefix(s, t) \/ IsPrefix(t, s)
  <1>1. Len(s) \in Nat /\ Len(t) \in Nat /\ Len(w) \in Nat
    OBVIOUS
  <1>2. Len(t) <= Len(w) /\ \A i \in 1 .. Len(t) : t[i] = w[i]
    BY PrefixIs
  <1>3. ASSUME IsPrefix(s, t) PROVE IsPrefix(s, w)
    <2>1. Len(s) <= Len(t) /\ \A i \in 1 .. Len(s) : s[i] = t[i]
      BY <1>3, PrefixIs
    <2>2. Len(s) <= Len(w) /\ \A i \in 1 .. Len(s) : s[i] = w[i]
      BY <1>1, <1>2, <2>1
    <2>3. QED
      BY <2>2, PrefixIs
  <1>4. ASSUME IsPrefix(s, w) PROVE IsPrefix(s, t) \/ IsPrefix(t, s)
    <2>1. Len(s) <= Len(w) /\ \A i \in 1 .. Len(s) : s[i] = w[i]
      BY <1>4, PrefixIs
    <2>2. CASE Len(s) <= Len(t)
      <3>1. \A i \in 1 .. Len(s) : s[i] = t[i]
        BY <1>1, <1>2, <2>1, <2>2
      <3>2. QED
        BY <2>2, <3>1, PrefixIs
    <2>3. CASE Len(t) <= Len(s)
      <3>1. \A i \in 1 .. Len(t) : t[i] = s[i]
        BY <1>1, <1>2, <2>1, <2>3
      <3>2. QED
        BY <2>3, <3>1, PrefixIs
    <2>4. QED
      BY <1>1, <2>2, <2>3
  <1>5. QED
    BY <1>3, <1>4

\* What is put before two sequences leaves the one a prefix of the other, or not.
LEMMA PrefixAfter ==
    ASSUME NEW S, NEW s \in Seq(S), NEW t \in Seq(S), NEW a \in Seq(S)
    PROVE  /\ IsPrefix(a, a \o s)
           /\ IsPrefix(a \o s, a \o t) => IsPrefix(s, t)
  <1> DEFINE as == a \o s
             at == a \o t
  <1>1. /\ as \in Seq(S) /\ Len(as) = Len(a) + Len(s)
        /\ \A j \in 1 .. Len(a) : as[j] = a[j]
        /\ \A j \in 1 .. Len(s) : as[Len(a) + j] = s[j]
    BY Joined
  <1>2. /\ at \in Seq(S) /\ Len(at) = Len(a) + Len(t)
        /\ \A j \in 1 .. Len(t) : at[Len(a) + j] = t[j]
    BY Joined
  <1>3. Len(a) \in Nat /\ Len(s) \in Nat /\ Len(t) \in Nat
    OBVIOUS
  <1> HIDE DEF as, at
  <1>4. IsPrefix(a, as)
    <2>1. Len(a) <= Len(as)
      BY ONLY <1>1, <1>3
    <2>2. \A j \in 1 .. Len(a) : a[j] = as[j]
      BY ONLY <1>1
    <2>3. QED
      BY <1>1, <2>1, <2>2, PrefixIs
  <1>5. ASSUME IsPrefix(as, at) PROVE IsPrefix(s, t)
    <2>1. Len(as) <= Len(at) /\ \A i \in 1 .. Len(as) : as[i] = at[i]
      <3>1. as \in Seq(S) /\ at \in Seq(S)
        BY <1>1, <1>2
      <3>2. \A x, y \in Seq(S) : IsPrefix(x, y) =>
                Len(x) <= Len(y) /\ \A i \in 1 .. Len(x) : x[i] = y[i]
        BY PrefixIs
      <3>3. QED
        BY ONLY <3>1, <3>2, <1>5
    <2>2. Len(s) <= Len(t)
      BY <1>1, <1>2, <1>3, <2>1
    <2>3. ASSUME NEW j \in 1 .. Len(s) PROVE s[j] = t[j]
      <3>1. Len(a) + j \in 1 .. Len(as) /\ j \in 1 .. Len(t)
        BY <1>1, <1>3, <2>2
      <3>2. as[Len(a) + j] = at[Len(a) + j]
        BY <2>1, <3>1
      <3>3. QED
        BY <1>1, <1>2, <3>1, <3>2
    <2>4. QED
      BY <2>2, <2>3, PrefixIs
  <1>6. QED
    BY <1>4, <1>5 DEF as, at

\* The sequences s starts with, joined: f[i] joins the first i of them.
Joins(f, s, S) ==
    /\ f \in [Nat -> Seq(S)] /\ f[0] = <<>>
    /\ \A i \in Nat : i + 1 \in 1 .. Len(s) => f[i + 1] = f[i] \o s[i + 1]

\* FlattenSeq joins all of them.
LEMMA FlattenIs ==
    ASSUME NEW S, NEW s \in Seq(Seq(S))
    PROVE  \E f : Joins(f, s, S) /\ FlattenSeq(s) = f[Len(s)]
  <1> DEFINE V == Seq(S)
             Step(i, v) == IF i + 1 \in 1 .. Len(s) THEN v \o s[i + 1] ELSE v
             step == [i \in Nat |-> [v \in V |-> Step(i, v)]]
             Is(g) == g = [i \in 1 .. Len(s) |-> IF i = 1 THEN s[i] ELSE g[i - 1] \o s[i]]
  <1>1. \A i \in 1 .. Len(s) : s[i] \in V
    BY Elements
  <1>2. \A i \in Nat : \A v \in V : Step(i, v) \in V
    BY <1>1
  <1>3. <<>> \in V /\ step \in [Nat -> [V -> V]]
    BY <1>2
  <1> HIDE DEF step, Step, V
  <1>4. PICK f : IsRecursion(f, V, <<>>, step)
    BY <1>3, PrimitiveRecursion
  <1>5. /\ f \in [Nat -> V] /\ f[0] = <<>>
        /\ \A i \in Nat : f[i + 1] = Step(i, f[i])
    BY <1>4 DEF IsRecursion, step
  <1>6. Joins(f, s, S)
    BY <1>5 DEF Joins, Step, V
  <1>7. CASE Len(s) = 0
    <2>1. s = <<>> /\ FlattenSeq(s) = s
      BY <1>7 DEF FlattenSeq
    <2>2. QED
      BY <1>5, <1>6, <1>7, <2>1
  <1>8. CASE Len(s) # 0
    <2> DEFINE h == [i \in 1 .. Len(s) |-> f[i]]
               flatten == CHOOSE g : Is(g)
    <2>1. Len(s) \in Nat /\ Len(s) \in 1 .. Len(s)
      BY <1>8
    <2>2. \A i \in 1 .. Len(s) : h[i] = IF i = 1 THEN s[i] ELSE h[i - 1] \o s[i]
      <3> SUFFICES ASSUME NEW i \in 1 .. Len(s)
                   PROVE  h[i] = IF i = 1 THEN s[i] ELSE h[i - 1] \o s[i]
        OBVIOUS
      <3>1. i - 1 \in Nat /\ (i - 1) + 1 = i
        OBVIOUS
      <3>2. h[i] = f[i - 1] \o s[i]
        BY <1>5, <3>1 DEF Step
      <3>3. CASE i = 1
        <4>1. <<>> \o s[i] = s[i]
          BY <1>1 DEF V
        <4>2. i - 1 = 0 /\ f[i - 1] = <<>>
          BY <1>5, <3>3
        <4>3. QED
          BY <3>2, <3>3, <4>1, <4>2
      <3>4. CASE i # 1
        <4>1. i - 1 \in 1 .. Len(s)
          BY <3>4
        <4>2. QED
          BY <3>2, <3>4, <4>1
      <3>5. QED
        BY <3>3, <3>4
    <2>3. Is(h)
      BY <2>2
    <2>4. Is(flatten)
      BY <2>3
    <2>5. \A i \in 1 .. Len(s) : flatten[i] = IF i = 1 THEN s[i] ELSE flatten[i - 1] \o s[i]
      BY <2>4
    <2> HIDE DEF flatten
    <2> DEFINE T == {i \in Nat : i + 1 \in 1 .. Len(s) => flatten[i + 1] = h[i + 1]}
    <2>6. 0 \in T
      <3>1. 1 \in 1 .. Len(s) /\ 0 + 1 = 1
        BY <2>1
      <3>2. h[1] = s[1] /\ flatten[1] = s[1]
        <4> HIDE DEF h
        <4>1. QED
          BY <2>2, <2>5, <3>1
      <3>3. QED
        BY <3>1, <3>2
    <2>7. ASSUME NEW i \in Nat, i \in T PROVE i + 1 \in T
      <3>1. CASE (i + 1) + 1 \in 1 .. Len(s)
        <4>1. i + 1 \in 1 .. Len(s) /\ ((i + 1) + 1) - 1 = i + 1 /\ (i + 1) + 1 # 1
          BY <2>1, <3>1
        <4>2. flatten[i + 1] = h[i + 1]
          BY <2>7, <4>1
        <4> HIDE DEF h
        <4>3. QED
          BY <2>2, <2>5, <3>1, <4>1, <4>2
      <3>2. QED
        BY <3>1
    <2> HIDE DEF T
    <2>8. Nat \subseteq T
      BY <2>6, <2>7, SetInduction
    <2>9. Len(s) - 1 \in T /\ (Len(s) - 1) + 1 = Len(s)
      BY <2>1, <2>8
    <2>10. flatten[Len(s)] = f[Len(s)]
      BY <2>1, <2>9 DEF T
    <2>11. FlattenSeq(s) = flatten[Len(s)]
      BY <1>8 DEF FlattenSeq, flatten
    <2>12. QED
      BY <1>6, <2>10, <2>11
  <1>9. QED
    BY <1>7, <1>8

\* What is joined first is a prefix of all that is joined later.
LEMMA JoinsGrow ==
    ASSUME NEW S, NEW f, NEW s \in Seq(Seq(S)), Joins(f, s, S), NEW k \in Nat
    PROVE  \A m \in Nat : k <= m /\ m <= Len(s) => IsPrefix(f[k], f[m])
  <1> DEFINE T == {m \in Nat : k <= m /\ m <= Len(s) => IsPrefix(f[k], f[m])}
  <1>1. f \in [Nat -> Seq(S)] /\ Len(s) \in Nat
    BY DEF Joins
  <1>2. IsPrefix(f[k], f[k])
    BY <1>1, PrefixIs
  <1>3. 0 \in T
    BY <1>2
  <1>4. ASSUME NEW m \in Nat, m \in T PROVE m + 1 \in T
    <2>1. CASE k <= m /\ m + 1 <= Len(s)
      <3>1. m + 1 \in 1 .. Len(s) /\ m <= Len(s)
        BY <1>1, <2>1
      <3>2. f[m + 1] = f[m] \o s[m + 1]
        BY <3>1 DEF Joins
      <3>3. IsPrefix(f[k], f[m])
        BY <1>4, <2>1, <3>1
      <3> HIDE DEF T
      <3>4. s[m + 1] \in Seq(S)
        BY <3>1, Elements
      <3>5. f[k] \in Seq(S) /\ f[m] \in Seq(S) /\ f[m + 1] \in Seq(S)
        BY <1>1
      <3>6. IsPrefix(f[m], f[m + 1])
        BY <3>2, <3>4, <3>5, PrefixAfter
      <3>7. QED
        BY <3>3, <3>5, <3>6, PrefixesOf DEF T
    <2>2. CASE k = m + 1
      BY <1>2, <2>2
    <2>3. CASE ~(k <= m + 1 /\ m + 1 <= Len(s))
      BY <2>3
    <2>4. QED
      BY <2>1, <2>2, <2>3
  <1> HIDE DEF T
  <1>5. Nat \subseteq T
    BY <1>3, <1>4, SetInduction
  <1>6. QED
    BY <1>5 DEF T

\* A text with each character replaced by its code.
Coded(c, text) == FlattenSeq([i \in DOMAIN text |-> c[text[i]]])

\* With codes none of which begins another, the code of a text begins the code
\* of another just when the text begins the other.
THEOREM CodedPrefix ==
    ASSUME NEW C, NEW S, NEW c \in [C -> Seq(S) \ {<<>>}],
           \A a, b \in C : IsPrefix(c[a], c[b]) => a = b,
           NEW u \in Seq(C), NEW v \in Seq(C)
    PROVE  IsPrefix(Coded(c, u), Coded(c, v)) <=> IsPrefix(u, v)
  <1> DEFINE cu == [i \in DOMAIN u |-> c[u[i]]]
             cv == [i \in DOMAIN v |-> c[v[i]]]
             m == Len(u)
             n == Len(v)
  <1>1. /\ m \in Nat /\ DOMAIN u = 1 .. m /\ \A i \in 1 .. m : u[i] \in C
        /\ n \in Nat /\ DOMAIN v = 1 .. n /\ \A i \in 1 .. n : v[i] \in C
    BY Elements
  <1>2. \A a \in C : c[a] \in Seq(S) /\ c[a] # <<>>
    OBVIOUS
  <1>3. cu \in Seq(Seq(S)) /\ Len(cu) = m /\ \A i \in 1 .. m : cu[i] = c[u[i]]
    BY <1>1, <1>2
  <1>4. cv \in Seq(Seq(S)) /\ Len(cv) = n /\ \A i \in 1 .. n : cv[i] = c[v[i]]
    BY <1>1, <1>2
  <1> HIDE DEF cu, cv, m, n
  <1>5. PICK f : Joins(f, cu, S) /\ FlattenSeq(cu) = f[m]
    BY <1>3, FlattenIs
  <1>6. PICK g : Joins(g, cv, S) /\ FlattenSeq(cv) = g[n]
    BY <1>4, FlattenIs
  <1>types. \A i \in Nat : f[i] \in Seq(S) /\ g[i] \in Seq(S)
    BY <1>5, <1>6 DEF Joins
  <1>7. f[0] = <<>> /\ \A i \in Nat : i + 1 \in 1 .. m => f[i + 1] = f[i] \o c[u[i + 1]]
    BY <1>3, <1>5 DEF Joins
  <1>8. g[0] = <<>> /\ \A i \in Nat : i + 1 \in 1 .. n => g[i + 1] = g[i] \o c[v[i + 1]]
    BY <1>4, <1>6 DEF Joins
  <1>9. \A i, j \in Nat : i <= j /\ j <= m => IsPrefix(f[i], f[j])
    BY <1>3, <1>5, JoinsGrow
  <1>10. \A i, j \in Nat : i <= j /\ j <= n => IsPrefix(g[i], g[j])
    BY <1>4, <1>6, JoinsGrow
  <1>11. ASSUME IsPrefix(u, v) PROVE IsPrefix(f[m], g[n])
    <2>1. m <= n /\ \A i \in 1 .. m : u[i] = v[i]
      BY <1>11, PrefixIs DEF m, n
    <2> DEFINE T == {i \in Nat : i <= m => f[i] = g[i]}
    <2>2. 0 \in T
      BY <1>7, <1>8
    <2>3. ASSUME NEW i \in Nat, i \in T PROVE i + 1 \in T
      <3>1. CASE i + 1 <= m
        <4>1. i + 1 \in 1 .. m /\ i + 1 \in 1 .. n /\ i <= m
          BY <1>1, <2>1, <3>1
        <4>2. f[i] = g[i] /\ u[i + 1] = v[i + 1]
          BY <2>1, <2>3, <4>1
        <4> HIDE DEF T
        <4>3. f[i + 1] = f[i] \o c[u[i + 1]] /\ g[i + 1] = g[i] \o c[v[i + 1]]
          BY <1>7, <1>8, <4>1
        <4>4. f[i + 1] = g[i + 1]
          BY <4>2, <4>3
        <4>5. QED
          BY <4>4 DEF T
      <3>2. QED
        BY <3>1
    <2> HIDE DEF T
    <2>4. m \in T
      BY <1>1, <2>2, <2>3, SetInduction
    <2>5. f[m] = g[m]
      BY <1>1, <2>4 DEF T
    <2>6. QED
      BY <1>1, <1>10, <2>1, <2>5
  <1>12. ASSUME IsPrefix(f[m], g[n]) PROVE IsPrefix(u, v)
    <2> DEFINE T == {i \in Nat : i <= m =>
                        i <= n /\ f[i] = g[i] /\ \A j \in 1 .. i : u[j] = v[j]}
    <2>1. 0 \in T
      BY <1>1, <1>7, <1>8
    <2>2. ASSUME NEW i \in Nat, i \in T PROVE i + 1 \in T
      <3>1. CASE i + 1 <= m
        <4>1. /\ i <= n /\ f[i] = g[i] /\ \A j \in 1 .. i : u[j] = v[j]
              /\ i + 1 \in 1 .. m
          BY <1>1, <2>2, <3>1
        <4> HIDE DEF T
        <4>2. f[i + 1] = g[i] \o c[u[i + 1]] /\ u[i + 1] \in C
          BY <1>1, <1>7, <4>1
        <4>3. f[i] \in Seq(S) /\ f[i + 1] \in Seq(S) /\ f[m] \in Seq(S) /\ g[n] \in Seq(S)
          BY <1>1, <1>types
        <4>4. IsPrefix(f[i + 1], g[n])
          <5>1. IsPrefix(f[i + 1], f[m])
            BY <1>1, <1>9, <3>1
          <5>2. QED
            BY <1>12, <4>3, <5>1, PrefixesOf
        <4>5. c[u[i + 1]] \in Seq(S) /\ c[u[i + 1]] # <<>>
          BY <1>2, <4>2
        <4>6. i # n
          <5>1. ASSUME i = n PROVE FALSE
            <6>1. Len(f[i + 1]) <= Len(g[n])
              BY <4>4 DEF IsPrefix
            <6>2. Len(f[i + 1]) = Len(g[n]) + Len(c[u[i + 1]])
              BY <4>2, <4>3, <4>5, <5>1, Joined
            <6>3. /\ Len(c[u[i + 1]]) \in Nat \ {0} /\ Len(g[n]) \in Nat
                  /\ Len(f[i + 1]) \in Nat
              BY <4>3, <4>5
            <6>4. \A x, y, z \in Nat : z <= x /\ z = x + y => y = 0
              OBVIOUS
            <6>5. Len(c[u[i + 1]]) = 0
              BY ONLY <6>1, <6>2, <6>3, <6>4
            <6>6. QED
              BY ONLY <6>3, <6>5
          <5>2. QED
            BY <5>1
        <4>7. i + 1 \in 1 .. n /\ i + 1 <= n
          BY <1>1, <4>1, <4>6
        <4>8. g[i + 1] = g[i] \o c[v[i + 1]] /\ v[i + 1] \in C
          BY <1>1, <1>8, <4>7
        <4>9. g[i] \in Seq(S) /\ g[i + 1] \in Seq(S)
          BY <1>types
        <4>10. IsPrefix(g[i + 1], g[n])
          BY <1>1, <1>10, <4>7
        <4>11. IsPrefix(f[i + 1], g[i + 1]) \/ IsPrefix(g[i + 1], f[i + 1])
          BY <4>3, <4>4, <4>9, <4>10, PrefixesOf
        <4>12. c[v[i + 1]] \in Seq(S)
          BY <1>2, <4>8
        <4>13. IsPrefix(c[u[i + 1]], c[v[i + 1]]) \/ IsPrefix(c[v[i + 1]], c[u[i + 1]])
          BY <4>2, <4>5, <4>8, <4>9, <4>11, <4>12, PrefixAfter
        <4>14. u[i + 1] = v[i + 1]
          BY <4>2, <4>8, <4>13
        <4>15. f[i + 1] = g[i + 1]
          BY <4>2, <4>8, <4>14
        <4>16. \A j \in 1 .. i + 1 : u[j] = v[j]
          <5>1. \A j \in 1 .. i + 1 : j \in 1 .. i \/ j = i + 1
            OBVIOUS
          <5>2. QED
            BY <4>1, <4>14, <5>1
        <4>17. QED
          BY <4>7, <4>15, <4>16 DEF T
      <3>2. QED
        BY <3>1
    <2> HIDE DEF T
    <2>3. m \in T
      BY <1>1, <2>1, <2>2, SetInduction
    <2>4. m <= n /\ \A i \in 1 .. m : u[i] = v[i]
      BY <1>1, <2>3 DEF T
    <2>5. QED
      BY <2>4, PrefixIs DEF m, n
  <1>13. QED
    BY <1>5, <1>6, <1>11, <1>12 DEF Coded, cu, cv
=============================================================================
