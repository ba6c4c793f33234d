---------------------------- MODULE DataInduction ----------------------------
(***************************************************************************)
(* Induction over numbers and recursion, stated without a parameter that is *)
(* an operator: a property is the set of the numbers that have it, and a    *)
(* step of a recursion is a function.  The least element of a set takes the *)
(* place of the induction rule.                                             *)
(***************************************************************************)
EXTENDS Integers, FiniteSetsExt, WellFoundedInduction, TLAPS

(* A set of integers that is bounded below has a least element.            *)
LEMMA Least ==
    ASSUME NEW lo \in Int, NEW T \in SUBSET Int, T # {}, \A m \in T : lo <= m
    PROVE  \E n \in T : \A m \in T : n <= m
<1> DEFINE D == {k \in Nat : lo + k \in T}
<1>1. D # {} /\ D \subseteq Nat
  <2>1. PICK m \in T : TRUE
    OBVIOUS
  <2>2. m - lo \in Nat /\ lo + (m - lo) = m
    OBVIOUS
  <2>3. m - lo \in D
    BY <2>2
  <2>4. D \subseteq Nat
    OBVIOUS
  <2> QED BY <2>3, <2>4
<1>2. PICK k \in D : \A j \in D : ~(<<j, k>> \in OpToRel(<, Nat))
  <2> HIDE DEF D
  <2> QED BY <1>1, WFMin, NatLessThanWellFounded, Zenon
<1>3. \A j \in D : ~(j < k)
  BY <1>2 DEF OpToRel
<1>4. ASSUME NEW m \in T PROVE lo + k <= m
  <2>1. m - lo \in D
    OBVIOUS
  <2> QED BY <2>1, <1>3
<1> QED
  BY <1>4

(* Min and Max of a set that is bounded on the side in question.           *)
LEMMA MinOf ==
    ASSUME NEW lo \in Int, NEW S \in SUBSET Int, S # {}, \A x \in S : lo <= x
    PROVE  Min(S) \in S /\ Min(S) \in Int /\ \A x \in S : Min(S) <= x
<1>1. \E n \in S : \A m \in S : n <= m
  BY Least
<1>2. Min(S) \in S /\ \A x \in S : Min(S) <= x
  BY <1>1, Zenon DEF Min
<1> QED
  BY <1>2

LEMMA MaxOf ==
    ASSUME NEW hi \in Int, NEW S \in SUBSET Int, S # {}, \A x \in S : x <= hi
    PROVE  Max(S) \in S /\ Max(S) \in Int /\ \A x \in S : x <= Max(S)
<1> DEFINE D == {n \in Int : -n \in S}
<1>1. D # {} /\ \A n \in D : -hi <= n
  <2>1. PICK x \in S : TRUE
    OBVIOUS
  <2>2. x \in Int /\ -x \in Int /\ -(-x) = x
    OBVIOUS
  <2>3. -x \in D
    BY <2>2
  <2> QED BY <2>3
<1>2. PICK n \in D : \A m \in D : n <= m
  <2> HIDE DEF D
  <2>1. D \in SUBSET Int
    BY DEF D
  <2> QED BY <1>1, <2>1, Least
<1>3. -n \in S /\ \A x \in S : -n >= x
  <2>1. ASSUME NEW x \in S PROVE -n >= x
    <3>1. x \in Int /\ -x \in Int /\ -(-x) = x
      OBVIOUS
    <3>2. -x \in D
      BY <3>1
    <3>3. n \in Int /\ n <= -x
      BY <3>2, <1>2
    <3> HIDE DEF D
    <3> QED BY <3>1, <3>3
  <2> QED BY <2>1
<1>4. Max(S) \in S /\ \A x \in S : Max(S) >= x
  BY <1>3, Zenon DEF Max
<1> QED
  BY <1>4

(* What is true of the first number and passes from each to the next is    *)
(* true of all.                                                            *)
LEMMA UpFrom ==
    ASSUME NEW lo \in Int, NEW hi \in Int, NEW T, lo \in T,
           \A n \in lo .. hi - 1 : n \in T => n + 1 \in T
    PROVE  \A n \in lo .. hi : n \in T
<1> DEFINE Bad == {k \in Nat : lo + k <= hi /\ lo + k \notin T}
<1> SUFFICES ASSUME NEW n \in lo .. hi, n \notin T PROVE FALSE
  OBVIOUS
<1>1. n - lo \in Bad
  OBVIOUS
<1>2. PICK k \in Bad : \A m \in Bad : k <= m
  <2> HIDE DEF Bad
  <2>1. Bad \in SUBSET Int /\ \A m \in Bad : 0 <= m
    BY DEF Bad
  <2> QED BY <1>1, <2>1, Least
<1>3. k # 0
  BY <1>2
<1>4. k - 1 \notin Bad /\ k - 1 \in Nat
  BY <1>2, <1>3
<1>5. lo + (k - 1) \in T
  BY <1>4, <1>2
<1>6. lo + (k-1) + 1 \in T
  BY <1>5, <1>2, <1>3
<1> QED
  BY <1>6, <1>2

(* A recursion whose step is a function *)
Iterates(f, a, Step, n) ==
    /\ f[0] = a
    /\ \A k \in 1 .. n : f[k] = Step[<<f[k - 1], k>>]

LEMMA Recursion ==
    ASSUME NEW S, NEW a \in S, NEW N \in Nat, NEW Step \in [S \X (1 .. N) -> S]
    PROVE  \E f \in [0 .. N -> S] : Iterates(f, a, Step, N)
<1> DEFINE T == {n \in Nat : \E f \in [0 .. n -> S] : Iterates(f, a, Step, n)}
<1>1. 0 \in T
  <2> DEFINE g == [i \in 0 .. 0 |-> a]
  <2>1. g \in [0 .. 0 -> S] /\ g[0] = a
    OBVIOUS
  <2>2. Iterates(g, a, Step, 0)
    BY <2>1 DEF Iterates
  <2> HIDE DEF g
  <2> QED BY <2>1, <2>2
<1>2. ASSUME NEW n \in 0 .. N - 1, n \in T PROVE n + 1 \in T
  <2>1. PICK f \in [0 .. n -> S] : Iterates(f, a, Step, n)
    BY <1>2
  <2> DEFINE g == [i \in 0 .. n + 1 |-> IF i = n + 1 THEN Step[<<f[n], n + 1>>] ELSE f[i]]
  <2>2. n \in 0 .. n /\ f[n] \in S /\ n + 1 \in 1 .. N
    BY <2>1
  <2>3. Step[<<f[n], n + 1>>] \in S
    BY <2>2
  <2>4. g \in [0 .. n + 1 -> S]
    BY <2>1, <2>3
  <2>5. g[n] = f[n] /\ g[0] = f[0] /\ f[0] = a
    BY <2>1 DEF Iterates
  <2>6. g[n + 1] = Step[<<g[n], n + 1>>]
    <3>1. g[n + 1] = Step[<<f[n], n + 1>>]
      OBVIOUS
    <3> HIDE DEF g
    <3> QED BY <2>5, <3>1
  <2>7. ASSUME NEW k \in 1 .. n PROVE g[k] = Step[<<g[k - 1], k>>]
    <3>1. g[k] = f[k] /\ g[k - 1] = f[k - 1]
      BY <2>7
    <3> QED BY <3>1, <2>1 DEF Iterates
  <2>8. Iterates(g, a, Step, n + 1)
    <3> HIDE DEF g
    <3>1. ASSUME NEW k \in 1 .. n + 1 PROVE g[k] = Step[<<g[k - 1], k>>]
      <4>1. CASE k = n + 1
        <5>1. k - 1 = n
          BY <4>1
        <5> QED BY <5>1, <4>1, <2>6
      <4>2. CASE k \in 1 .. n
        BY <4>2, <2>7
      <4> QED BY <4>1, <4>2
    <3> QED BY <2>5, <3>1 DEF Iterates
  <2> HIDE DEF g
  <2> QED BY <2>4, <2>8
<1>3. N \in T
  <2> HIDE DEF T
  <2>1. \A n \in 0 .. N : n \in T
    BY <1>1, <1>2, UpFrom
  <2> QED BY <2>1
<1> QED
  BY <1>3

(* Two runs that begin alike and go on alike are alike.                    *)
GoOnAlike(f, g, n) ==
    /\ f[0] = g[0]
    /\ \A k \in 1 .. n : f[k - 1] = g[k - 1] => f[k] = g[k]

Alike(f, g, n) == \A k \in 0 .. n : f[k] = g[k]

LEMMA RunsAgree ==
    ASSUME NEW N \in Nat, NEW f, NEW g, GoOnAlike(f, g, N)
    PROVE  Alike(f, g, N)
<1> DEFINE T == {k \in Nat : f[k] = g[k]}
<1>1. 0 \in T
  BY DEF GoOnAlike
<1>2. \A k \in 0 .. N - 1 : k \in T => k + 1 \in T
  <2> SUFFICES ASSUME NEW k \in 0 .. N - 1, f[k] = g[k] PROVE f[k + 1] = g[k + 1]
    OBVIOUS
  <2>1. k + 1 \in 1 .. N /\ (k + 1) - 1 = k
    OBVIOUS
  <2> QED BY <2>1 DEF GoOnAlike
<1> HIDE DEF T
<1>3. 0 \in Int /\ N \in Int
  OBVIOUS
<1>4. \A k \in 0 .. N : k \in T
  BY <1>1, <1>2, <1>3, UpFrom
<1> QED BY <1>4 DEF T, Alike
=============================================================================
