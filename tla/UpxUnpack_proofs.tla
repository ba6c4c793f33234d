-------------------------- MODULE UpxUnpack_proofs --------------------------
(***************************************************************************)
(* For every value of the constants: the call-trick filters are undone to    *)
(* the byte; every match has one code; and the loader reads the tables that  *)
(* are rebuilt as the packer was given them, the blocks of relocations, the  *)
(* import tables and the tree of resources.                                  *)
(***************************************************************************)
EXTENDS Static, DataInduction, FiniteSetTheorems

-----------------------------------------------------------------------------
(* The call-trick filters *)

Bytes == 0 .. Byte - 1

\* A number is its remainder and its quotient
LEMMA DivMod ==
    ASSUME NEW b \in Nat \ {0}, NEW lo \in 0 .. b - 1, NEW hi \in Nat
    PROVE  (lo + b * hi) % b = lo /\ (lo + b * hi) \div b = hi
<1> DEFINE x == lo + b * hi
           q == x \div b
           r == x % b
<1>1. x \in Nat /\ b * hi \in Nat
  OBVIOUS
<1>2. q \in Int /\ r \in 0 .. b - 1 /\ x = b * q + r
  <2> HIDE DEF x
  <2> QED BY <1>1
<1>3. b * (hi - q) = r - lo
  <2> HIDE DEF q, r
  <2> QED BY <1>2
<1>4. hi - q = 0
  <2> DEFINE d == hi - q
  <2>1. d \in Int
    BY <1>2
  <2>2. b * d < b /\ -b < b * d
    <3> HIDE DEF q, r
    <3> QED BY <1>2, <1>3
  <2>3. ~(d >= 1)
    <3>1. ASSUME d >= 1 PROVE b * d >= b
      <4> HIDE DEF d
      <4>1. d - 1 \in Nat BY <2>1, <3>1
      <4>2. b * (d - 1) \in Nat BY <4>1
      <4>3. b * d = b * (d - 1) + b BY <2>1
      <4> QED BY <4>2, <4>3
    <3> HIDE DEF d
    <3> QED BY <2>1, <2>2, <3>1
  <2>4. ~(d <= -1)
    <3>1. ASSUME d <= -1 PROVE b * d <= -b
      <4> HIDE DEF d
      <4>1. -1 - d \in Nat BY <2>1, <3>1
      <4>2. b * (-1 - d) \in Nat BY <4>1
      <4>3. b * (-1 - d) = -b - b * d BY <2>1
      <4>4. b * d \in Int BY <2>1
      <4> QED BY <4>2, <4>3, <4>4
    <3> HIDE DEF d
    <3> QED BY <2>1, <2>2, <3>1
  <2> HIDE DEF d
  <2>5. d = 0
    BY <2>1, <2>3, <2>4
  <2> QED BY <2>5 DEF d
<1>5. hi = q
  <2> HIDE DEF q
  <2> QED BY <1>2, <1>4
<1>6. r = lo
  <2> HIDE DEF q, r
  <2> QED BY <1>2, <1>5
<1> QED
  BY <1>5, <1>6

\* What is added on a ring is taken away again
LEMMA AddedTakenAway ==
    ASSUME NEW m \in Nat \ {0}, NEW d \in 0 .. m - 1, NEW k \in Int
    PROVE  (((d + k) % m) - k) % m = d
<1> DEFINE x == d + k
           q == x \div m
           r == x % m
           y == r - k
           q2 == y \div m
           r2 == y % m
<1>1. q \in Int /\ r \in 0 .. m - 1 /\ x = m * q + r
  <2>1. x \in Int OBVIOUS
  <2> HIDE DEF x
  <2> QED BY <2>1
<1>2. q2 \in Int /\ r2 \in 0 .. m - 1 /\ y = m * q2 + r2
  <2>1. y \in Int BY <1>1
  <2> HIDE DEF y
  <2> QED BY <2>1
<1> DEFINE e == q2 + q
<1>3. m * e = d - r2 /\ e \in Int
  <2>1. m * (q2 + q) = m * q2 + m * q
    BY <1>1, <1>2
  <2>2. m * q2 \in Int /\ m * q \in Int
    BY <1>1, <1>2
  <2> HIDE DEF q, r, q2, r2
  <2> QED BY <1>1, <1>2, <2>1, <2>2
<1>4. -m < m * e /\ m * e < m
  <2> HIDE DEF e, r2
  <2> QED BY <1>2, <1>3
<1>5. ~(e >= 1)
  <2> SUFFICES ASSUME e >= 1 PROVE FALSE OBVIOUS
  <2> HIDE DEF e
  <2>1. e - 1 \in Nat BY <1>3
  <2>2. m * (e - 1) \in Nat BY <2>1
  <2>3. m * e = m * (e - 1) + m BY <1>3
  <2> QED BY <1>4, <2>2, <2>3
<1>6. ~(e <= -1)
  <2> SUFFICES ASSUME e <= -1 PROVE FALSE OBVIOUS
  <2> HIDE DEF e
  <2>1. -1 - e \in Nat BY <1>3
  <2>2. m * (-1 - e) \in Nat BY <2>1
  <2>3. m * (-1 - e) = -m - m * e BY <1>3
  <2>4. m * e \in Int BY <1>3
  <2> QED BY <1>4, <2>2, <2>3, <2>4
<1>7. e = 0
  <2> HIDE DEF e
  <2> QED BY <1>3, <1>5, <1>6
<1>8. r2 = d
  <2> HIDE DEF e, r2
  <2> QED BY <1>2, <1>3, <1>7
<1> QED
  BY <1>8

\* Where a walk over a region of L bytes may be
Walks(L) == [code : [1 .. L -> Int], ic : Nat, lastcall : Nat, ok : BOOLEAN]

WalkBegin(region) == [code |-> region, ic |-> 0, lastcall |-> 0, ok |-> TRUE]

LEMMA RegionLen ==
    ASSUME NEW L \in Nat, NEW c \in [1 .. L -> Int]
    PROVE  c \in Seq(Int) /\ Len(c) = L /\ DOMAIN c = 1 .. L
OBVIOUS

LEMMA WalkMoves ==
    ASSUME NEW L \in Nat, NEW w \in Walks(L), NEW c \in [1 .. L -> Int],
           NEW i \in Nat, NEW l \in Nat, NEW o \in BOOLEAN
    PROVE  /\ [w EXCEPT !.ic = i] \in Walks(L)
           /\ [w EXCEPT !.ic = i, !.ok = o] \in Walks(L)
           /\ [w EXCEPT !.code = c, !.ic = i, !.lastcall = l] \in Walks(L)
BY DEF Walks

LEMMA FilterByteType ==
    ASSUME NEW filter, NEW L \in Nat, NEW w \in Walks(L), w.ic + 3 < L
    PROVE  FilterByte(filter, w) \in Walks(L)
<1>1. w.code \in [1 .. L -> Int] /\ w.ic \in Nat /\ w.lastcall \in Nat /\ w.ok \in BOOLEAN
  BY DEF Walks
<1>2. Byte \in Nat \ {0} /\ CodeBase \in Int /\ Mark \in Int
  BY FilterAssumption
<1> DEFINE goal == (Disp(w.code, w.ic) + w.ic + 1) % (Byte * Byte)
<1>3. goal \in Int
  <2>1. w.ic + 2 \in 1 .. L /\ w.ic + 3 \in 1 .. L
    BY <1>1
  <2>2. w.code[w.ic + 2] \in Int /\ w.code[w.ic + 3] \in Int
    BY <1>1, <2>1
  <2>3. Byte * Byte \in Nat \ {0} /\ Byte * w.code[w.ic + 3] \in Int
    BY <1>2, <2>2
  <2>4. Disp(w.code, w.ic) \in Int
    BY <2>2, <2>3 DEF Disp
  <2>5. Disp(w.code, w.ic) + w.ic + 1 \in Int
    <3> HIDE DEF goal
    <3> QED BY <1>1, <2>4
  <2> HIDE DEF Walks
  <2> QED BY <2>3, <2>5
<1> HIDE DEF goal
<1>4. SetDisp(w.code, w.ic, Mark, goal + CodeBase) \in [1 .. L -> Int]
  <2>1. goal + CodeBase \in Int
    BY <1>2, <1>3
  <2> QED BY <1>1, <1>2, <2>1 DEF SetDisp
<1>5. FilterByte(filter, w) =
        IF ~CallSite(filter, w.code, w.ic, w.lastcall) THEN [w EXCEPT !.ic = @ + 1]
        ELSE IF goal < Len(w.code)
        THEN [w EXCEPT !.code = SetDisp(@, w.ic, Mark, goal + CodeBase),
                       !.ic = @ + 3, !.lastcall = w.ic + 3]
        ELSE [w EXCEPT !.ic = @ + 1, !.ok = @ /\ w.code[w.ic + 2] # Mark]
  BY DEF FilterByte, goal
<1>6. (w.ok /\ w.code[w.ic + 2] # Mark) \in BOOLEAN
  BY <1>1
<1>7. w.ic + 1 \in Nat /\ w.ic + 3 \in Nat
  BY <1>1
<1> DEFINE c == SetDisp(w.code, w.ic, Mark, goal + CodeBase)
           o == w.ok /\ w.code[w.ic + 2] # Mark
<1>8. /\ [w EXCEPT !.ic = w.ic + 1] \in Walks(L)
      /\ [w EXCEPT !.ic = w.ic + 1, !.ok = o] \in Walks(L)
      /\ [w EXCEPT !.code = c, !.ic = w.ic + 3, !.lastcall = w.ic + 3] \in Walks(L)
  <2>1. c \in [1 .. L -> Int] /\ o \in BOOLEAN
    BY <1>4, <1>6
  <2> HIDE DEF c, o
  <2> QED BY <1>7, <2>1, WalkMoves, Zenon
<1> QED
  BY <1>5, <1>8

LEMMA UnfilterByteType ==
    ASSUME NEW filter, NEW L \in Nat, NEW w \in Walks(L), w.ic + 3 < L
    PROVE  UnfilterByte(filter, w) \in Walks(L)
<1>1. w.code \in [1 .. L -> Int] /\ w.ic \in Nat /\ w.lastcall \in Nat /\ w.ok \in BOOLEAN
  BY DEF Walks
<1>2. Byte \in Nat \ {0} /\ CodeBase \in Int
  BY FilterAssumption
<1> DEFINE rel == (w.code[w.ic + 3] - CodeBase - w.ic - 1) % (Byte * Byte)
<1>3. rel \in Int
  <2>1. w.ic + 3 \in 1 .. L
    BY <1>1
  <2>2. w.code[w.ic + 3] - CodeBase - w.ic - 1 \in Int
    <3> DEFINE x == w.code[w.ic + 3]
               i == w.ic
    <3>1. x \in Int /\ i \in Int
      BY <1>1, <2>1
    <3> HIDE DEF x, i
    <3>2. x - CodeBase - i - 1 \in Int
      BY <1>2, <3>1
    <3> QED BY <3>2 DEF x, i
  <2>3. Byte * Byte \in Nat \ {0}
    BY <1>2
  <2> QED BY <2>2, <2>3
<1> HIDE DEF rel
<1>4. rel % Byte \in Int /\ rel \div Byte \in Int
  BY <1>2, <1>3
<1>5. SetDisp(w.code, w.ic, rel % Byte, rel \div Byte) \in [1 .. L -> Int]
  BY <1>1, <1>4 DEF SetDisp
<1>6. UnfilterByte(filter, w) =
        IF CallSite(filter, w.code, w.ic, w.lastcall) /\ w.code[w.ic + 2] = Mark
        THEN [w EXCEPT !.code = SetDisp(@, w.ic, rel % Byte, rel \div Byte),
                       !.ic = @ + 3, !.lastcall = w.ic + 3]
        ELSE [w EXCEPT !.ic = @ + 1]
  BY DEF UnfilterByte, rel
<1>7. w.ic + 1 \in Nat /\ w.ic + 3 \in Nat
  BY <1>1
<1> DEFINE c == SetDisp(w.code, w.ic, rel % Byte, rel \div Byte)
<1>8. /\ [w EXCEPT !.ic = w.ic + 1] \in Walks(L)
      /\ [w EXCEPT !.code = c, !.ic = w.ic + 3, !.lastcall = w.ic + 3] \in Walks(L)
  <2>1. c \in [1 .. L -> Int] /\ TRUE \in BOOLEAN
    BY <1>5
  <2> HIDE DEF c
  <2> QED BY <1>7, <2>1, WalkMoves, Zenon
<1> QED
  BY <1>6, <1>8

LEMMA FilterRunIs ==
    ASSUME NEW filter, NEW L \in Nat, NEW region \in [1 .. L -> Int]
    PROVE  LET run == FilterWalk(filter, region)
           IN /\ run \in [0 .. L -> Walks(L)]
              /\ run[0] = WalkBegin(region)
              /\ \A n \in 1 .. L :
                    run[n] = IF run[n - 1].ic + 3 < L THEN FilterByte(filter, run[n - 1])
                             ELSE run[n - 1]
<1> DEFINE Step == [p \in Walks(L) \X (1 .. L) |->
                        IF p[1].ic + 3 < L THEN FilterByte(filter, p[1]) ELSE p[1]]
           F(f) == [n \in 0 .. L |-> IF n = 0 THEN WalkBegin(region)
                                     ELSE IF f[n - 1].ic + 3 < L THEN FilterByte(filter, f[n - 1])
                                     ELSE f[n - 1]]
           run == FilterWalk(filter, region)
<1>1. Len(region) = L
  BY RegionLen
<1>2. Step \in [Walks(L) \X (1 .. L) -> Walks(L)]
  BY FilterByteType
<1>3. WalkBegin(region) \in Walks(L)
  BY DEF WalkBegin, Walks
<1>4. PICK f \in [0 .. L -> Walks(L)] : Iterates(f, WalkBegin(region), Step, L)
  <2> HIDE DEF Step
  <2> QED BY <1>2, <1>3, Recursion
<1>5. f = F(f)
  <2>1. ASSUME NEW n \in 0 .. L PROVE f[n] = F(f)[n]
    <3>1. CASE n = 0
      BY <1>4, <3>1 DEF Iterates
    <3>2. CASE n # 0
      <4>1. n - 1 \in 0 .. L /\ n \in 1 .. L
        BY <3>2
      <4>2. f[n - 1] \in Walks(L)
        BY <4>1
      <4>3. f[n] = Step[<<f[n - 1], n>>]
        BY <1>4, <4>1 DEF Iterates
      <4> QED BY <4>1, <4>2, <4>3, <3>2
    <3> QED BY <3>1, <3>2
  <2> QED BY <1>4, <2>1
<1>6. run = CHOOSE g : g = F(g)
  BY <1>1 DEF FilterWalk, Walk, WalkBegin
<1>7. run = F(run)
  <2> HIDE DEF F, run
  <2> QED BY <1>5, <1>6, Zenon
<1>8. /\ run[0] = WalkBegin(region)
      /\ \A n \in 1 .. L : run[n] = IF run[n - 1].ic + 3 < L THEN FilterByte(filter, run[n - 1])
                                    ELSE run[n - 1]
  <2> HIDE DEF run
  <2>1. run[0] = F(run)[0] /\ \A n \in 1 .. L : run[n] = F(run)[n]
    <3> HIDE DEF F
    <3> QED BY <1>7
  <2>2. F(run)[0] = WalkBegin(region)
    OBVIOUS
  <2>3. \A n \in 1 .. L :
            F(run)[n] = IF run[n - 1].ic + 3 < L THEN FilterByte(filter, run[n - 1])
                        ELSE run[n - 1]
    OBVIOUS
  <2> HIDE DEF F
  <2> QED BY <2>1, <2>2, <2>3
<1>9. \A n \in 0 .. L : run[n] \in Walks(L)
  <2> DEFINE T == {n \in Nat : run[n] \in Walks(L)}
  <2> HIDE DEF run
  <2>1. 0 \in T
    BY <1>3, <1>8
  <2>2. ASSUME NEW n \in 0 .. L - 1, n \in T PROVE n + 1 \in T
    <3>1. n + 1 \in 1 .. L /\ (n + 1) - 1 = n /\ n + 1 \in Nat
      OBVIOUS
    <3>2. run[n + 1] = IF run[n].ic + 3 < L THEN FilterByte(filter, run[n]) ELSE run[n]
      BY <3>1, <1>8
    <3>3. run[n] \in Walks(L)
      BY <2>2
    <3>4. run[n + 1] \in Walks(L)
      BY <3>2, <3>3, FilterByteType
    <3> QED BY <3>1, <3>4
  <2> HIDE DEF T
  <2>3. \A n \in 0 .. L - 1 : n \in T => n + 1 \in T
    BY <2>2
  <2>4. \A n \in 0 .. L : n \in T
    <3>1. 0 \in Int /\ L \in Int
      OBVIOUS
    <3> QED BY <2>1, <2>3, <3>1, UpFrom
  <2> QED BY <2>4 DEF T
<1>10. run = [n \in 0 .. L |-> run[n]]
  <2> HIDE DEF run
  <2> QED BY <1>7
<1> QED
  <2> HIDE DEF run, F, Step
  <2>1. run \in [0 .. L -> Walks(L)]
    BY <1>9, <1>10
  <2> QED BY <1>8, <2>1 DEF run

LEMMA UnfilterRunIs ==
    ASSUME NEW filter, NEW L \in Nat, NEW region \in [1 .. L -> Int]
    PROVE  LET run == UnfilterWalk(filter, region)
           IN /\ run \in [0 .. L -> Walks(L)]
              /\ run[0] = WalkBegin(region)
              /\ \A n \in 1 .. L :
                    run[n] = IF run[n - 1].ic + 3 < L THEN UnfilterByte(filter, run[n - 1])
                             ELSE run[n - 1]
<1> DEFINE Step == [p \in Walks(L) \X (1 .. L) |->
                        IF p[1].ic + 3 < L THEN UnfilterByte(filter, p[1]) ELSE p[1]]
           F(f) == [n \in 0 .. L |-> IF n = 0 THEN WalkBegin(region)
                                     ELSE IF f[n - 1].ic + 3 < L THEN UnfilterByte(filter, f[n - 1])
                                     ELSE f[n - 1]]
           run == UnfilterWalk(filter, region)
<1>1. Len(region) = L
  BY RegionLen
<1>2. Step \in [Walks(L) \X (1 .. L) -> Walks(L)]
  BY UnfilterByteType
<1>3. WalkBegin(region) \in Walks(L)
  BY DEF WalkBegin, Walks
<1>4. PICK f \in [0 .. L -> Walks(L)] : Iterates(f, WalkBegin(region), Step, L)
  <2> HIDE DEF Step
  <2> QED BY <1>2, <1>3, Recursion
<1>5. f = F(f)
  <2>1. ASSUME NEW n \in 0 .. L PROVE f[n] = F(f)[n]
    <3>1. CASE n = 0
      BY <1>4, <3>1 DEF Iterates
    <3>2. CASE n # 0
      <4>1. n - 1 \in 0 .. L /\ n \in 1 .. L
        BY <3>2
      <4>2. f[n - 1] \in Walks(L)
        BY <4>1
      <4>3. f[n] = Step[<<f[n - 1], n>>]
        BY <1>4, <4>1 DEF Iterates
      <4> QED BY <4>1, <4>2, <4>3, <3>2
    <3> QED BY <3>1, <3>2
  <2> QED BY <1>4, <2>1
<1>6. run = CHOOSE g : g = F(g)
  BY <1>1 DEF UnfilterWalk, Walk, WalkBegin
<1>7. run = F(run)
  <2> HIDE DEF F, run
  <2> QED BY <1>5, <1>6, Zenon
<1>8. /\ run[0] = WalkBegin(region)
      /\ \A n \in 1 .. L : run[n] = IF run[n - 1].ic + 3 < L THEN UnfilterByte(filter, run[n - 1])
                                    ELSE run[n - 1]
  <2> HIDE DEF run
  <2>1. run[0] = F(run)[0] /\ \A n \in 1 .. L : run[n] = F(run)[n]
    <3> HIDE DEF F
    <3> QED BY <1>7
  <2>2. F(run)[0] = WalkBegin(region)
    OBVIOUS
  <2>3. \A n \in 1 .. L :
            F(run)[n] = IF run[n - 1].ic + 3 < L THEN UnfilterByte(filter, run[n - 1])
                        ELSE run[n - 1]
    OBVIOUS
  <2> HIDE DEF F
  <2> QED BY <2>1, <2>2, <2>3
<1>9. \A n \in 0 .. L : run[n] \in Walks(L)
  <2> DEFINE T == {n \in Nat : run[n] \in Walks(L)}
  <2> HIDE DEF run
  <2>1. 0 \in T
    BY <1>3, <1>8
  <2>2. ASSUME NEW n \in 0 .. L - 1, n \in T PROVE n + 1 \in T
    <3>1. n + 1 \in 1 .. L /\ (n + 1) - 1 = n /\ n + 1 \in Nat
      OBVIOUS
    <3>2. run[n + 1] = IF run[n].ic + 3 < L THEN UnfilterByte(filter, run[n]) ELSE run[n]
      BY <3>1, <1>8
    <3>3. run[n] \in Walks(L)
      BY <2>2
    <3>4. run[n + 1] \in Walks(L)
      BY <3>2, <3>3, UnfilterByteType
    <3> QED BY <3>1, <3>4
  <2> HIDE DEF T
  <2>3. \A n \in 0 .. L - 1 : n \in T => n + 1 \in T
    BY <2>2
  <2>4. \A n \in 0 .. L : n \in T
    <3>1. 0 \in Int /\ L \in Int
      OBVIOUS
    <3> QED BY <2>1, <2>3, <3>1, UpFrom
  <2> QED BY <2>4 DEF T
<1>10. run = [n \in 0 .. L |-> run[n]]
  <2> HIDE DEF run
  <2> QED BY <1>7
<1> QED
  <2> HIDE DEF run, F, Step
  <2>1. run \in [0 .. L -> Walks(L)]
    BY <1>9, <1>10
  <2> QED BY <1>8, <2>1 DEF run

Site(filter, w) == CallSite(filter, w.code, w.ic, w.lastcall)

Target(w) == (Disp(w.code, w.ic) + w.ic + 1) % (Byte * Byte)

Rel(w) == (w.code[w.ic + 3] - CodeBase - w.ic - 1) % (Byte * Byte)

\* A byte is passed, or the displacement behind it written
LEMMA FilterByteDoes ==
    ASSUME NEW filter, NEW L \in Nat, NEW w \in Walks(L), w.ic + 3 < L
    PROVE  LET v == FilterByte(filter, w)
           IN /\ v.ok => w.ok
              /\ \/ /\ v.code = w.code /\ v.ic = w.ic + 1 /\ v.lastcall = w.lastcall
                    /\ Site(filter, w) /\ v.ok => w.code[w.ic + 2] # Mark
                 \/ /\ Site(filter, w) /\ v.ic = w.ic + 3 /\ v.lastcall = w.ic + 3
                    /\ v.code = SetDisp(w.code, w.ic, Mark, Target(w) + CodeBase)
<1> DEFINE c == SetDisp(w.code, w.ic, Mark, Target(w) + CodeBase)
<1>1. FilterByte(filter, w) =
        IF ~Site(filter, w) THEN [w EXCEPT !.ic = w.ic + 1]
        ELSE IF Target(w) < Len(w.code)
        THEN [w EXCEPT !.code = c, !.ic = w.ic + 3, !.lastcall = w.ic + 3]
        ELSE [w EXCEPT !.ic = w.ic + 1, !.ok = w.ok /\ w.code[w.ic + 2] # Mark]
  BY DEF FilterByte, Site, Target, Walks
<1> HIDE DEF c
<1>2. CASE FilterByte(filter, w) = [w EXCEPT !.ic = w.ic + 1] /\ ~Site(filter, w)
  BY <1>2 DEF Walks
<1>3. CASE /\ FilterByte(filter, w) = [w EXCEPT !.code = c, !.ic = w.ic + 3, !.lastcall = w.ic + 3]
           /\ Site(filter, w)
  BY <1>3 DEF Walks, c
<1>4. CASE FilterByte(filter, w) = [w EXCEPT !.ic = w.ic + 1, !.ok = w.ok /\ w.code[w.ic + 2] # Mark]
  BY <1>4 DEF Walks
<1> QED
  BY <1>1, <1>2, <1>3, <1>4

LEMMA UnfilterByteDoes ==
    ASSUME NEW filter, NEW L \in Nat, NEW w \in Walks(L), w.ic + 3 < L
    PROVE  LET v == UnfilterByte(filter, w)
           IN IF Site(filter, w) /\ w.code[w.ic + 2] = Mark
              THEN /\ v.ic = w.ic + 3 /\ v.lastcall = w.ic + 3
                   /\ v.code = SetDisp(w.code, w.ic, Rel(w) % Byte, Rel(w) \div Byte)
              ELSE v.code = w.code /\ v.ic = w.ic + 1 /\ v.lastcall = w.lastcall
<1> DEFINE c == SetDisp(w.code, w.ic, Rel(w) % Byte, Rel(w) \div Byte)
<1>1. UnfilterByte(filter, w) =
        IF Site(filter, w) /\ w.code[w.ic + 2] = Mark
        THEN [w EXCEPT !.code = c, !.ic = w.ic + 3, !.lastcall = w.ic + 3]
        ELSE [w EXCEPT !.ic = w.ic + 1]
  BY DEF UnfilterByte, Site, Rel, Walks
<1> HIDE DEF c
<1>2. CASE UnfilterByte(filter, w) = [w EXCEPT !.ic = w.ic + 1] /\ ~(Site(filter, w) /\ w.code[w.ic + 2] = Mark)
  BY <1>2 DEF Walks
<1>3. CASE /\ UnfilterByte(filter, w) = [w EXCEPT !.code = c, !.ic = w.ic + 3, !.lastcall = w.ic + 3]
           /\ Site(filter, w) /\ w.code[w.ic + 2] = Mark
  BY <1>3 DEF Walks, c
<1> QED
  BY <1>1, <1>2, <1>3

LEMMA SetDispAt ==
    ASSUME NEW L \in Nat, NEW c \in [1 .. L -> Int], NEW ic \in Nat, ic + 3 < L,
           NEW a \in Int, NEW b \in Int
    PROVE  /\ SetDisp(c, ic, a, b) \in [1 .. L -> Int]
           /\ SetDisp(c, ic, a, b)[ic + 2] = a /\ SetDisp(c, ic, a, b)[ic + 3] = b
           /\ \A p \in 1 .. L : p \notin {ic + 2, ic + 3} => SetDisp(c, ic, a, b)[p] = c[p]
BY DEF SetDisp

LEMMA WrittenAt ==
    ASSUME NEW L \in Nat, NEW w \in Walks(L), w.ic + 3 < L, NEW a, NEW b, a \in Int, b \in Int
    PROVE  /\ SetDisp(w.code, w.ic, a, b)[w.ic + 2] = a
           /\ SetDisp(w.code, w.ic, a, b)[w.ic + 3] = b
           /\ \A p \in 1 .. L : p \notin {w.ic + 2, w.ic + 3} =>
                 SetDisp(w.code, w.ic, a, b)[p] = w.code[p]
<1> DEFINE c == w.code
           i == w.ic
<1>1. c \in [1 .. L -> Int] /\ i \in Nat /\ i + 3 < L
  BY DEF Walks
<1> HIDE DEF c, i
<1>2. /\ SetDisp(c, i, a, b)[i + 2] = a /\ SetDisp(c, i, a, b)[i + 3] = b
      /\ \A p \in 1 .. L : p \notin {i + 2, i + 3} => SetDisp(c, i, a, b)[p] = c[p]
  BY <1>1, SetDispAt, SMTT(60)
<1> QED BY <1>2 DEF c, i

LEMMA TargetInt ==
    ASSUME NEW L \in Nat, NEW w \in Walks(L), w.ic + 3 < L
    PROVE  /\ Target(w) + CodeBase \in Int /\ Mark \in Int
           /\ Rel(w) % Byte \in Int /\ Rel(w) \div Byte \in Int
<1>1. w.code \in [1 .. L -> Int] /\ w.ic \in Nat
  BY DEF Walks
<1>2. Byte \in Nat \ {0} /\ CodeBase \in Int /\ Mark \in Int
  BY FilterAssumption
<1>3. w.ic + 2 \in 1 .. L /\ w.ic + 3 \in 1 .. L
  BY <1>1
<1>4. w.code[w.ic + 2] \in Int /\ w.code[w.ic + 3] \in Int
  BY <1>1, <1>3
<1>5. Byte * Byte \in Nat \ {0} /\ Byte * w.code[w.ic + 3] \in Int
  BY <1>2, <1>4
<1>6. Disp(w.code, w.ic) \in Int
  BY <1>4, <1>5 DEF Disp
<1>7. Disp(w.code, w.ic) + w.ic + 1 \in Int /\ w.code[w.ic + 3] - CodeBase - w.ic - 1 \in Int
  <2>1. Disp(w.code, w.ic) + w.ic + 1 \in Int
    BY <1>1, <1>6
  <2>2. w.code[w.ic + 3] - CodeBase - w.ic - 1 \in Int
    <3> DEFINE x == w.code[w.ic + 3]
    <3>1. x \in Int BY <1>4
    <3> HIDE DEF x
    <3>2. x - CodeBase - w.ic - 1 \in Int BY <1>1, <1>2, <3>1
    <3> QED BY <3>2 DEF x
  <2> QED BY <2>1, <2>2
<1>8. Target(w) \in Int /\ Rel(w) \in Int
  BY <1>5, <1>7 DEF Target, Rel
<1> QED
  BY <1>2, <1>8

LEMMA WrittenElsewhere ==
    ASSUME NEW L \in Nat, NEW w \in Walks(L), w.ic + 3 < L
    PROVE  \A p \in 1 .. L : p \notin {w.ic + 2, w.ic + 3} =>
              SetDisp(w.code, w.ic, Mark, Target(w) + CodeBase)[p] = w.code[p]
<1> DEFINE c == w.code
           i == w.ic
           a == Mark
           b == Target(w) + CodeBase
<1>1. c \in [1 .. L -> Int] /\ i \in Nat /\ i + 3 < L
  BY DEF Walks
<1>2. a \in Int /\ b \in Int
  BY TargetInt
<1> HIDE DEF a, b, c, i
<1>3. \A p \in 1 .. L : p \notin {i + 2, i + 3} => SetDisp(c, i, a, b)[p] = c[p]
  BY <1>1, <1>2, SetDispAt, SMTT(60)
<1> QED BY <1>3 DEF a, b, c, i

\* Where a walk is, a byte is the program's own if it has not been passed, and
\* the byte just passed is unless it ends a displacement
Ahead(w, o, L) ==
    /\ \A p \in 1 .. L : p > w.ic => w.code[p] = o[p]
    /\ w.ic > 0 /\ w.lastcall # w.ic => w.code[w.ic] = o[w.ic]
    /\ w.ic <= L

LEMMA AheadStep ==
    ASSUME NEW filter, NEW L \in Nat, NEW o \in [1 .. L -> Int], NEW w \in Walks(L),
           Ahead(w, o, L), w.ic + 3 < L
    PROVE  Ahead(FilterByte(filter, w), o, L)
<1>1. w.ic \in Nat /\ w.code \in [1 .. L -> Int]
  BY DEF Walks
<1> DEFINE v == FilterByte(filter, w)
           c == SetDisp(w.code, w.ic, Mark, Target(w) + CodeBase)
<1>2. CASE v.code = w.code /\ v.ic = w.ic + 1
  <2> HIDE DEF v
  <2>1. w.ic + 1 \in 1 .. L /\ w.code[w.ic + 1] = o[w.ic + 1]
    BY <1>1 DEF Ahead
  <2>2. \A p \in 1 .. L : p > w.ic + 1 => p > w.ic
    <3> DEFINE i == w.ic
    <3>1. i \in Nat
      BY <1>1
    <3> HIDE DEF i
    <3>2. \A p \in 1 .. L : p > i + 1 => p > i
      BY <3>1
    <3> QED BY <3>2 DEF i
  <2> QED BY <1>1, <1>2, <2>1, <2>2 DEF Ahead, v
<1>3. CASE v.code = c /\ v.ic = w.ic + 3 /\ v.lastcall = w.ic + 3
  <2>1. \A p \in 1 .. L : p \notin {w.ic + 2, w.ic + 3} => c[p] = w.code[p]
    BY WrittenElsewhere
  <2> HIDE DEF v, c
  <2>2. \A p \in 1 .. L : p > w.ic + 3 => p > w.ic /\ p \notin {w.ic + 2, w.ic + 3}
    <3> DEFINE i == w.ic
    <3>1. i \in Nat
      BY <1>1
    <3> HIDE DEF i
    <3>2. \A p \in 1 .. L : p > i + 3 => p > i /\ p \notin {i + 2, i + 3}
      BY <3>1
    <3> QED BY <3>2 DEF i
  <2>3. w.ic + 3 <= L
    BY <1>1
  <2> QED BY <1>1, <1>3, <2>1, <2>2, <2>3 DEF Ahead, v
<1> QED
  BY <1>2, <1>3, FilterByteDoes

LEMMA FilterAhead ==
    ASSUME NEW filter, NEW L \in Nat, NEW o \in [1 .. L -> Int]
    PROVE  LET run == FilterWalk(filter, o)
           IN \A n \in 0 .. L : Ahead(run[n], o, L)
<1> DEFINE run == FilterWalk(filter, o)
           T == {n \in 0 .. L : Ahead(run[n], o, L)}
<1>1. /\ run \in [0 .. L -> Walks(L)] /\ run[0] = WalkBegin(o)
      /\ \A n \in 1 .. L :
            run[n] = IF run[n - 1].ic + 3 < L THEN FilterByte(filter, run[n - 1]) ELSE run[n - 1]
  BY FilterRunIs
<1> HIDE DEF run
<1>2. 0 \in T
  BY <1>1 DEF WalkBegin, Ahead
<1>3. ASSUME NEW n \in 0 .. L - 1, n \in T PROVE n + 1 \in T
  <2>1. n + 1 \in 1 .. L /\ n + 1 \in 0 .. L /\ (n + 1) - 1 = n /\ n \in 0 .. L
    OBVIOUS
  <2> DEFINE w == run[n]
             v == run[n + 1]
  <2>2. w \in Walks(L) /\ v \in Walks(L) /\ Ahead(w, o, L)
    BY <1>1, <1>3, <2>1
  <2>3. v = IF w.ic + 3 < L THEN FilterByte(filter, w) ELSE w
    BY <1>1, <2>1
  <2> HIDE DEF w, v
  <2>4. Ahead(v, o, L)
    BY <2>2, <2>3, AheadStep
  <2> QED BY <2>1, <2>4 DEF v
<1>4. \A n \in 0 .. L - 1 : n \in T => n + 1 \in T
  BY <1>3
<1>5. 0 \in Int /\ L \in Int
  OBVIOUS
<1> HIDE DEF T
<1>6. \A n \in 0 .. L : n \in T
  BY <1>2, <1>4, <1>5, UpFrom
<1> QED
  BY <1>6 DEF T, run

\* What has been passed, and the byte that is next, stay as they are
Kept(w, v, L) ==
    /\ w.ic <= v.ic /\ (v.ok => w.ok)
    /\ \A p \in 1 .. L : p <= w.ic + 1 => v.code[p] = w.code[p]

LEMMA KeptStep ==
    ASSUME NEW filter, NEW L \in Nat, NEW u \in Walks(L), NEW w \in Walks(L),
           Kept(u, w, L), w.ic + 3 < L
    PROVE  Kept(u, FilterByte(filter, w), L)
<1>1. w.ic \in Nat /\ u.ic \in Nat /\ w.code \in [1 .. L -> Int] /\ u.ic <= w.ic
  BY DEF Walks, Kept
<1> DEFINE v == FilterByte(filter, w)
           c == SetDisp(w.code, w.ic, Mark, Target(w) + CodeBase)
<1>2. v.ok => w.ok
  BY FilterByteDoes
<1>3. CASE v.code = w.code /\ v.ic = w.ic + 1
  <2> HIDE DEF v
  <2>1. u.ic <= w.ic + 1
    BY <1>1
  <2> QED BY <1>2, <1>3, <2>1 DEF Kept, v
<1>4. CASE v.code = c /\ v.ic = w.ic + 3
  <2>1. \A p \in 1 .. L : p \notin {w.ic + 2, w.ic + 3} => c[p] = w.code[p]
    BY WrittenElsewhere
  <2> HIDE DEF v, c
  <2>2. \A p \in 1 .. L : p <= u.ic + 1 => p \notin {w.ic + 2, w.ic + 3}
    BY <1>1
  <2>3. u.ic <= w.ic + 3
    BY <1>1
  <2> QED BY <1>2, <1>4, <2>1, <2>2, <2>3 DEF Kept, v
<1> QED
  BY <1>3, <1>4, FilterByteDoes

LEMMA FilterKeeps ==
    ASSUME NEW filter, NEW L \in Nat, NEW o \in [1 .. L -> Int]
    PROVE  LET run == FilterWalk(filter, o)
           IN \A n \in 0 .. L : Kept(run[n], run[L], L)
<1> DEFINE run == FilterWalk(filter, o)
<1>1. /\ run \in [0 .. L -> Walks(L)] /\ run[0] = WalkBegin(o)
      /\ \A n \in 1 .. L :
            run[n] = IF run[n - 1].ic + 3 < L THEN FilterByte(filter, run[n - 1]) ELSE run[n - 1]
  BY FilterRunIs
<1> HIDE DEF run
<1> SUFFICES ASSUME NEW k \in 0 .. L PROVE Kept(run[k], run[L], L)
  BY DEF run
<1> DEFINE T == {n \in k .. L : Kept(run[k], run[n], L)}
<1>2. k \in T
  <2>1. run[k] \in Walks(L)
    BY <1>1
  <2>2. run[k].ic \in Int
    BY <2>1 DEF Walks
  <2> QED BY <2>2 DEF Kept
<1>3. ASSUME NEW n \in k .. L - 1, n \in T PROVE n + 1 \in T
  <2>1. n + 1 \in 1 .. L /\ n + 1 \in k .. L /\ (n + 1) - 1 = n /\ n \in 0 .. L /\ n + 1 \in 0 .. L
    OBVIOUS
  <2> DEFINE u == run[k]
             w == run[n]
             v == run[n + 1]
  <2>2. u \in Walks(L) /\ w \in Walks(L) /\ v \in Walks(L) /\ Kept(u, w, L)
    BY <1>1, <1>3, <2>1
  <2>3. v = IF w.ic + 3 < L THEN FilterByte(filter, w) ELSE w
    BY <1>1, <2>1
  <2> HIDE DEF u, w, v
  <2>4. Kept(u, v, L)
    BY <2>2, <2>3, KeptStep
  <2> QED BY <2>1, <2>4 DEF u, v
<1>4. \A n \in k .. L - 1 : n \in T => n + 1 \in T
  BY <1>3
<1>5. k \in Int /\ L \in Int /\ L \in k .. L
  OBVIOUS
<1> HIDE DEF T
<1>6. \A n \in k .. L : n \in T
  BY <1>2, <1>4, <1>5, UpFrom
<1> QED
  BY <1>5, <1>6 DEF T

\* The two walks go side by side: behind them the program's bytes, before them
\* what the packer has made of them (f)
Paired(w, u, o, f, L) ==
    /\ u.ic = w.ic /\ u.lastcall = w.lastcall
    /\ \A p \in 1 .. L : u.code[p] = IF p <= w.ic THEN o[p] ELSE f[p]

LEMMA SameSite ==
    ASSUME NEW filter, NEW c, NEW d, NEW i \in Nat, NEW last,
           c[i + 1] = d[i + 1], i > 0 /\ last # i => c[i] = d[i]
    PROVE  CallSite(filter, c, i, last) <=> CallSite(filter, d, i, last)
BY DEF CallSite

LEMMA DisplacementBack ==
    ASSUME NEW i \in Nat, NEW lo \in Bytes, NEW hi \in Bytes
    PROVE  LET d == lo + Byte * hi
               rel == ((((d + i + 1) % (Byte * Byte)) + CodeBase) - CodeBase - i - 1) % (Byte * Byte)
           IN rel % Byte = lo /\ rel \div Byte = hi
<1> DEFINE d == lo + Byte * hi
           m == Byte * Byte
           t == (d + i + 1) % m
           rel == ((t + CodeBase) - CodeBase - i - 1) % m
<1>1. Byte \in Nat \ {0} /\ CodeBase \in Int
  BY FilterAssumption
<1>2. m \in Nat \ {0}
  BY <1>1
<1>3. d \in 0 .. m - 1
  <2>1. lo \in 0 .. Byte - 1 /\ hi \in 0 .. Byte - 1
    BY DEF Bytes
  <2>2. Byte * hi \in Nat /\ Byte * (Byte - 1 - hi) \in Nat
    BY <1>1, <2>1
  <2>3. Byte * (Byte - 1 - hi) = Byte * Byte - Byte - Byte * hi
    BY <1>1, <2>1
  <2> QED BY <1>1, <2>1, <2>2, <2>3
<1>4. d + i + 1 = d + (i + 1) /\ i + 1 \in Int
  BY <1>3
<1>5. t \in Int
  <2>1. d + i + 1 \in Int
    <3> HIDE DEF d, m
    <3> QED BY <1>2, <1>3
  <2> HIDE DEF d, m
  <2> QED BY <1>2, <2>1
<1>6. (t + CodeBase) - CodeBase - i - 1 = t - (i + 1)
  <2> HIDE DEF t
  <2> QED BY <1>1, <1>5
<1>7. rel = d
  <2>1. t = (d + (i + 1)) % m
    BY <1>4
  <2>2. rel = (t - (i + 1)) % m
    <3> HIDE DEF t, m
    <3> QED BY <1>6
  <2> HIDE DEF d, m, rel, t
  <2>3. (((d + (i + 1)) % m) - (i + 1)) % m = d
    BY <1>2, <1>3, <1>4, AddedTakenAway
  <2> QED BY <2>1, <2>2, <2>3
<1>8. d % Byte = lo /\ d \div Byte = hi
  BY <1>1, DivMod DEF Bytes
<1> HIDE DEF rel
<1>9. rel % Byte = lo /\ rel \div Byte = hi
  BY <1>7, <1>8
<1> QED BY <1>9 DEF rel

LEMMA PairedStep ==
    ASSUME NEW filter, NEW L \in Nat, NEW o \in [1 .. L -> Bytes],
           NEW w \in Walks(L), NEW u \in Walks(L), NEW z \in Walks(L), z.ok,
           w.ic + 3 < L, Ahead(w, o, L), Kept(w, z, L),
           Kept(FilterByte(filter, w), z, L), Paired(w, u, o, z.code, L)
    PROVE  Paired(FilterByte(filter, w), UnfilterByte(filter, u), o, z.code, L)
<1> DEFINE i == w.ic
           v == FilterByte(filter, w)
           x == UnfilterByte(filter, u)
<1>1. /\ i \in Nat /\ i + 3 < L /\ u.ic = i /\ u.lastcall = w.lastcall
      /\ {i + 1, i + 2, i + 3} \subseteq 1 .. L
  <2>1. i \in Nat /\ i + 3 < L
    BY DEF Walks
  <2>2. u.ic = i /\ u.lastcall = w.lastcall
    BY DEF Paired
  <2>3. {i + 1, i + 2, i + 3} \subseteq 1 .. L
    <3> HIDE DEF i
    <3> QED BY <2>1
  <2> QED BY <2>1, <2>2, <2>3
<1>2. v.ok => w.ok
  BY FilterByteDoes
<1>3. /\ \A p \in 1 .. L : p > i => w.code[p] = o[p]
      /\ i > 0 /\ w.lastcall # i => w.code[i] = o[i]
  BY DEF Ahead
<1>4. \A p \in 1 .. L : p <= i + 1 => z.code[p] = w.code[p]
  BY DEF Kept
<1>5. \A p \in 1 .. L : u.code[p] = IF p <= i THEN o[p] ELSE z.code[p]
  BY DEF Paired
<1>6. \A p \in 1 .. L : p <= v.ic + 1 => z.code[p] = v.code[p]
  BY DEF Kept
<1>7. v.ok
  BY DEF Kept
<1>8. u.code[i + 1] = o[i + 1] /\ z.code[i + 1] = o[i + 1]
  <2> HIDE DEF i
  <2> QED BY <1>1, <1>3, <1>4, <1>5
<1>9. Site(filter, u) <=> Site(filter, w)
  <2>1. u.code[i + 1] = w.code[i + 1]
    <3> HIDE DEF i
    <3> QED BY <1>1, <1>3, <1>8
  <2>2. i > 0 /\ w.lastcall # i => u.code[i] = w.code[i]
    <3> HIDE DEF i
    <3> QED BY <1>1, <1>3, <1>5
  <2>3. CallSite(filter, u.code, i, w.lastcall) <=> CallSite(filter, w.code, i, w.lastcall)
    <3> HIDE DEF i
    <3> QED BY <1>1, <2>1, <2>2, SameSite
  <2> QED BY <1>1, <2>3 DEF Site
<1>10. CASE /\ v.code = w.code /\ v.ic = i + 1 /\ v.lastcall = w.lastcall
            /\ Site(filter, w) /\ v.ok => w.code[i + 2] # Mark
  <2>1. u.code[i + 2] = w.code[i + 2]
    <3> HIDE DEF i, v
    <3> QED BY <1>1, <1>5, <1>6, <1>10
  <2>2. ~(Site(filter, u) /\ u.code[i + 2] = Mark)
    BY <1>7, <1>9, <1>10, <2>1
  <2>3. x.code = u.code /\ x.ic = i + 1 /\ x.lastcall = w.lastcall
    <3>1. u.ic + 3 < L
      BY <1>1
    <3>2. ~(Site(filter, u) /\ u.code[u.ic + 2] = Mark)
      BY <1>1, <2>2
    <3>3. x.code = u.code /\ x.ic = u.ic + 1 /\ x.lastcall = u.lastcall
      BY <3>1, <3>2, UnfilterByteDoes
    <3> QED BY <1>1, <3>3
  <2>4. \A p \in 1 .. L : x.code[p] = IF p <= i + 1 THEN o[p] ELSE z.code[p]
    <3> HIDE DEF i, x
    <3>1. \A p \in 1 .. L : p <= i + 1 => p <= i \/ p = i + 1
      BY <1>1
    <3>2. \A p \in 1 .. L : p <= i => p <= i + 1
      BY <1>1
    <3> QED BY <1>5, <1>8, <2>3, <3>1, <3>2
  <2> HIDE DEF v, x, i
  <2>5. Paired(v, x, o, z.code, L)
    BY <1>10, <2>3, <2>4 DEF Paired
  <2> QED BY <2>5 DEF v, x
<1>11. CASE /\ Site(filter, w) /\ v.ic = i + 3 /\ v.lastcall = i + 3
            /\ v.code = SetDisp(w.code, i, Mark, Target(w) + CodeBase)
  <2>1. v.code[i + 2] = Mark /\ v.code[i + 3] = Target(w) + CodeBase
    BY <1>11, TargetInt, WrittenAt
  <2>2. u.code[i + 2] = Mark /\ u.code[i + 3] = Target(w) + CodeBase
    <3> HIDE DEF i, v
    <3> QED BY <1>1, <1>5, <1>6, <1>11, <2>1
  <2>3. /\ x.ic = i + 3 /\ x.lastcall = i + 3
        /\ x.code = SetDisp(u.code, i, Rel(u) % Byte, Rel(u) \div Byte)
    <3>1. u.ic + 3 < L /\ Site(filter, u) /\ u.code[u.ic + 2] = Mark
      BY <1>1, <1>9, <1>11, <2>2
    <3>2. /\ x.ic = u.ic + 3 /\ x.lastcall = u.ic + 3
          /\ x.code = SetDisp(u.code, u.ic, Rel(u) % Byte, Rel(u) \div Byte)
      BY <3>1, UnfilterByteDoes
    <3> QED BY <1>1, <3>2
  <2>4. Rel(u) % Byte = o[i + 2] /\ Rel(u) \div Byte = o[i + 3]
    <3>1. o[i + 2] \in Bytes /\ o[i + 3] \in Bytes
      BY <1>1
    <3>2. w.code[i + 2] = o[i + 2] /\ w.code[i + 3] = o[i + 3]
      <4> HIDE DEF i
      <4> QED BY <1>1, <1>3
    <3>3. Target(w) = (o[i + 2] + Byte * o[i + 3] + i + 1) % (Byte * Byte)
      BY <3>2 DEF Target, Disp
    <3>4. Rel(u) = (u.code[i + 3] - CodeBase - i - 1) % (Byte * Byte)
      BY <1>1 DEF Rel
    <3> HIDE DEF i
    <3>5. Rel(u) = (((((o[i + 2] + Byte * o[i + 3]) + i + 1) % (Byte * Byte)) + CodeBase)
                        - CodeBase - i - 1) % (Byte * Byte)
      BY <2>2, <3>3, <3>4
    <3> QED BY <1>1, <3>1, <3>5, DisplacementBack
  <2>5. \A p \in 1 .. L : x.code[p] = IF p <= i + 3 THEN o[p] ELSE z.code[p]
    <3>1. /\ x.code[i + 2] = o[i + 2] /\ x.code[i + 3] = o[i + 3]
          /\ \A p \in 1 .. L : p \notin {i + 2, i + 3} => x.code[p] = u.code[p]
      <4>1. u.ic + 3 < L /\ Rel(u) % Byte \in Int /\ Rel(u) \div Byte \in Int
        BY <1>1, TargetInt
      <4> DEFINE a == Rel(u) % Byte
                 b == Rel(u) \div Byte
      <4>2. a \in Int /\ b \in Int /\ a = o[i + 2] /\ b = o[i + 3]
        BY <2>4, <4>1
      <4> HIDE DEF a, b
      <4>3. /\ SetDisp(u.code, u.ic, a, b)[u.ic + 2] = a
            /\ SetDisp(u.code, u.ic, a, b)[u.ic + 3] = b
            /\ \A p \in 1 .. L : p \notin {u.ic + 2, u.ic + 3} =>
                  SetDisp(u.code, u.ic, a, b)[p] = u.code[p]
        BY <4>1, <4>2, WrittenAt
      <4>4. x.code = SetDisp(u.code, i, a, b)
        BY <2>3 DEF a, b
      <4> HIDE DEF i, x
      <4> QED BY <1>1, <4>2, <4>3, <4>4
    <3> HIDE DEF i, x
    <3>2. \A p \in 1 .. L : p <= i + 3 => p <= i \/ p = i + 1 \/ p = i + 2 \/ p = i + 3
      BY <1>1
    <3>3. \A p \in 1 .. L : p <= i => p <= i + 3 /\ p \notin {i + 2, i + 3}
      BY <1>1
    <3>4. i + 1 \notin {i + 2, i + 3}
      BY <1>1
    <3>5. \A p \in 1 .. L : ~(p <= i + 3) => p \notin {i + 2, i + 3} /\ ~(p <= i)
      BY <1>1
    <3> QED BY <1>1, <1>5, <1>8, <3>1, <3>2, <3>3, <3>4, <3>5
  <2> HIDE DEF v, x, i
  <2>6. Paired(v, x, o, z.code, L)
    BY <1>11, <2>3, <2>5 DEF Paired
  <2> QED BY <2>6 DEF v, x
<1> QED
  BY <1>10, <1>11, FilterByteDoes

\* After every round the two walks are at the same byte
LEMMA Lockstep ==
    ASSUME NEW filter, NEW L \in Nat, NEW o \in [1 .. L -> Bytes],
           FilterWalk(filter, o)[L].ok
    PROVE  LET f == FilterWalk(filter, o)
           IN Paired(f[L], UnfilterWalk(filter, f[L].code)[L], o, f[L].code, L)
<1> DEFINE f == FilterWalk(filter, o)
           z == f[L]
           g == UnfilterWalk(filter, z.code)
           T == {n \in 0 .. L : Paired(f[n], g[n], o, z.code, L)}
<1>1. Bytes \subseteq Int
  BY FilterAssumption DEF Bytes
<1>2. o \in [1 .. L -> Int]
  BY <1>1
<1>3. /\ f \in [0 .. L -> Walks(L)] /\ f[0] = WalkBegin(o)
      /\ \A n \in 1 .. L :
            f[n] = IF f[n - 1].ic + 3 < L THEN FilterByte(filter, f[n - 1]) ELSE f[n - 1]
  BY <1>2, FilterRunIs
<1>4. \A n \in 0 .. L : Ahead(f[n], o, L) /\ Kept(f[n], f[L], L)
  BY <1>2, FilterAhead, FilterKeeps
<1>5. z \in Walks(L) /\ z.ok
  <2>1. f[L] \in Walks(L)
    BY <1>3
  <2> QED BY <2>1
<1>6. z.code \in [1 .. L -> Int]
  BY <1>5 DEF Walks
<1>7. /\ g \in [0 .. L -> Walks(L)] /\ g[0] = WalkBegin(z.code)
      /\ \A n \in 1 .. L :
            g[n] = IF g[n - 1].ic + 3 < L THEN UnfilterByte(filter, g[n - 1]) ELSE g[n - 1]
  BY <1>6, UnfilterRunIs
<1>8. \A n \in 0 .. L : Ahead(f[n], o, L) /\ Kept(f[n], z, L)
  BY <1>4
<1> HIDE DEF f, z, g
<1>9. 0 \in T
  <2>1. \A p \in 1 .. L : ~(p <= 0)
    OBVIOUS
  <2>2. Paired(f[0], g[0], o, z.code, L)
    BY <1>3, <1>7, <2>1 DEF WalkBegin, Paired
  <2> QED BY <2>2
<1>10. ASSUME NEW n \in 0 .. L - 1, n \in T PROVE n + 1 \in T
  <2>1. n + 1 \in 1 .. L /\ n + 1 \in 0 .. L /\ (n + 1) - 1 = n /\ n \in 0 .. L
    OBVIOUS
  <2> DEFINE w == f[n]
             v == f[n + 1]
             u == g[n]
             x == g[n + 1]
  <2>2. w \in Walks(L) /\ u \in Walks(L) /\ Paired(w, u, o, z.code, L)
    BY <1>3, <1>7, <1>10, <2>1
  <2>3. v = IF w.ic + 3 < L THEN FilterByte(filter, w) ELSE w
    BY <1>3, <2>1
  <2>4. x = IF u.ic + 3 < L THEN UnfilterByte(filter, u) ELSE u
    BY <1>7, <2>1
  <2>5. Ahead(w, o, L) /\ Kept(w, z, L) /\ Kept(v, z, L)
    BY <1>8, <2>1
  <2> HIDE DEF w, v, u, x
  <2>6. u.ic = w.ic
    BY <2>2 DEF Paired
  <2>7. Paired(v, x, o, z.code, L)
    <3>1. CASE w.ic + 3 < L
      <4>1. v = FilterByte(filter, w) /\ x = UnfilterByte(filter, u)
        BY <2>3, <2>4, <2>6, <3>1
      <4>2. Kept(FilterByte(filter, w), z, L)
        BY <2>5, <4>1
      <4>3. Paired(FilterByte(filter, w), UnfilterByte(filter, u), o, z.code, L)
        BY <1>5, <2>2, <2>5, <3>1, <4>2, PairedStep
      <4> QED BY <4>1, <4>3
    <3>2. CASE ~(w.ic + 3 < L)
      BY <2>2, <2>3, <2>4, <2>6, <3>2
    <3> QED BY <3>1, <3>2
  <2> QED BY <2>1, <2>7 DEF v, x
<1>11. \A n \in 0 .. L - 1 : n \in T => n + 1 \in T
  BY <1>10
<1>12. 0 \in Int /\ L \in Int
  OBVIOUS
<1> HIDE DEF T
<1>13. \A n \in 0 .. L : n \in T
  BY <1>9, <1>11, <1>12, UpFrom
<1>14. L \in T
  BY <1>13
<1>15. Paired(f[L], g[L], o, z.code, L)
  BY <1>14 DEF T
<1> QED
  BY <1>15 DEF f, z, g

LEMMA SameCode ==
    ASSUME NEW L \in Nat, NEW c \in [1 .. L -> Int], NEW d \in [1 .. L -> Int],
           \A p \in 1 .. L : c[p] = d[p]
    PROVE  c = d
OBVIOUS

\* What the filter has made of a program, the unfilter undoes
LEMMA Undone ==
    ASSUME NEW filter, NEW original \in Codes, Filtered(filter, original).ok
    PROVE  Unfiltered(filter, Filtered(filter, original).code).code = original
<1> DEFINE L == Len(original)
           f == FilterWalk(filter, original)[L]
           c == f.code
           u == UnfilterWalk(filter, c)[L]
<1>1. original \in Seq(Bytes)
  BY FilterAssumption DEF Bytes
<1>2. L \in Nat /\ original \in [1 .. L -> Bytes]
  BY <1>1
<1>3. Bytes \subseteq Int
  BY FilterAssumption DEF Bytes
<1>4. original \in [1 .. L -> Int]
  BY <1>2, <1>3
<1>5. f \in Walks(L) /\ Ahead(f, original, L)
  <2>1. L \in 0 .. L
    BY <1>2
  <2>2. FilterWalk(filter, original) \in [0 .. L -> Walks(L)]
    BY <1>2, <1>4, FilterRunIs
  <2>3. \A n \in 0 .. L : Ahead(FilterWalk(filter, original)[n], original, L)
    BY <1>2, <1>4, FilterAhead
  <2> QED BY <2>1, <2>2, <2>3
<1>6. c \in [1 .. L -> Int]
  BY <1>5 DEF Walks
<1>7. Len(c) = L
  BY <1>2, <1>6, RegionLen
<1>8. u \in Walks(L)
  <2>1. UnfilterWalk(filter, c) \in [0 .. L -> Walks(L)]
    BY <1>2, <1>6, UnfilterRunIs
  <2> QED BY <1>2, <2>1
<1>9. f.ok
  BY DEF Filtered
<1>10. Paired(f, u, original, c, L)
  <2> HIDE DEF L
  <2> QED BY <1>2, <1>9, Lockstep
<1>11. f.ic \in Nat /\ u.code \in [1 .. L -> Int]
  BY <1>5, <1>8 DEF Walks
<1> HIDE DEF f, u, c
<1>12. c = f.code
  BY DEF c
<1>13. \A p \in 1 .. L : u.code[p] = original[p]
  <2> SUFFICES ASSUME NEW p \in 1 .. L PROVE u.code[p] = original[p]
    OBVIOUS
  <2> HIDE DEF L
  <2>1. u.code[p] = IF p <= f.ic THEN original[p] ELSE c[p]
    BY <1>10 DEF Paired
  <2>2. p > f.ic => f.code[p] = original[p]
    BY <1>5 DEF Ahead
  <2>3. p <= f.ic \/ p > f.ic
    BY <1>2, <1>11
  <2> QED BY <1>12, <2>1, <2>2, <2>3
<1>14. u.code = original
  <2> DEFINE b == u.code
  <2>1. b \in [1 .. L -> Int]
    BY <1>11
  <2>3. \A p \in 1 .. L : b[p] = original[p]
    BY <1>13
  <2> HIDE DEF L, b
  <2>2. b = original
    BY <1>2, <1>4, <2>1, <2>3, SameCode
  <2> QED BY <2>2 DEF b
<1>15. Filtered(filter, original).code = c
  BY DEF Filtered, c, f
<1>16. Unfiltered(filter, c) = u
  BY <1>7 DEF Unfiltered, u
<1> QED
  BY <1>14, <1>15, <1>16

\* What the decoder has left is what the filter made of a program
FilteredCode(filter, w) ==
    \E original \in Codes :
        /\ Filtered(filter, original).ok
        /\ w = [code |-> Filtered(filter, original).code, was |-> original]

FilterInv ==
    /\ phase = "filter" /\ file.filter \in {"cto", "ctok"} => FilteredCode(file.filter, work)
    /\ UnfilterRestores

LEMMA ElsewhereKeeps ==
    ASSUME phase' \notin {"filter", "filtered"}
    PROVE  FilterInv'
BY DEF FilterInv, UnfilterRestores

LEMMA UnfilterKeeps ==
    ASSUME FilterInv, Unfilter
    PROVE  FilterInv'
<1>1. CASE file.filter \in {"cto", "ctok"}
  <2>1. PICK original \in Codes :
          /\ Filtered(file.filter, original).ok
          /\ work = [code |-> Filtered(file.filter, original).code, was |-> original]
    BY <1>1 DEF Unfilter, FilterInv, FilteredCode
  <2>2. /\ phase' = "filtered"
        /\ work' = [work EXCEPT !.code = Unfiltered(file.filter, work.code).code]
    BY <1>1 DEF Unfilter, Go
  <2>3. Unfiltered(file.filter, work.code).code = original
    BY <2>1, Undone
  <2>4. work' = [work EXCEPT !.code = original]
    BY <2>2, <2>3
  <2>5. work'.code = work'.was
    BY <2>1, <2>4
  <2> QED BY <2>2, <2>5 DEF FilterInv, UnfilterRestores
<1>2. CASE file.filter = "unknown"
  <2>1. phase' = "failed"
    BY <1>2 DEF Unfilter, Fail, Go
  <2> QED BY <2>1, ElsewhereKeeps
<1>3. CASE file.filter \notin {"cto", "ctok", "unknown"}
  <2>1. file' = file
    BY <1>3 DEF Unfilter
  <2>2. phase' = "filtered"
    BY <1>3 DEF Unfilter, Go
  <2> QED BY <1>3, <2>1, <2>2 DEF FilterInv, UnfilterRestores
<1> QED BY <1>1, <1>2, <1>3

LEMMA DecodeKeeps == ASSUME Decode PROVE FilterInv'
<1>1. CASE Fail
  BY <1>1, ElsewhereKeeps DEF Fail, Go
<1>2. CASE /\ Go("filter") /\ UNCHANGED file
           /\ IF file.filter \in {"cto", "ctok"}
              THEN \E original \in Codes :
                     LET f == Filtered(file.filter, original)
                     IN f.ok /\ work' = [code |-> f.code, was |-> original]
              ELSE work' = {}
  BY <1>2 DEF FilterInv, FilteredCode, UnfilterRestores, Go
<1> QED
  BY <1>1, <1>2 DEF Decode

LEMMA UpxKeeps ==
    ASSUME FilterInv, UpxNext
    PROVE  FilterInv'
<1>1. CASE FindHeader
  BY <1>1, ElsewhereKeeps DEF FindHeader, Fail, Go
<1>2. CASE Decode
  BY <1>2, DecodeKeeps
<1>3. CASE Unfilter
  BY <1>3, UnfilterKeeps
<1>4. CASE BeginImports
  BY <1>4, ElsewhereKeeps DEF BeginImports, Go
<1>5. CASE RebuildDll
  BY <1>5, ElsewhereKeeps DEF RebuildDll
<1>6. CASE BeginRelocs
  BY <1>6, ElsewhereKeeps DEF BeginRelocs, Go
<1>7. CASE DecodeDelta
  BY <1>7, ElsewhereKeeps DEF DecodeDelta, Fail, Go
<1>8. CASE BuildBlocks
  BY <1>8, ElsewhereKeeps DEF BuildBlocks, Go
<1>9. CASE BeginResources
  BY <1>9, ElsewhereKeeps DEF BeginResources, Go
<1>10. CASE BuildNode
  BY <1>10, ElsewhereKeeps DEF BuildNode, Fail, Go
<1>11. CASE PhaseDone
  BY <1>11, ElsewhereKeeps DEF PhaseDone, PhaseOver, Go
<1>12. CASE Assemble
  <2>1. \E table \in SectionTables : phase' \in {"failed", "done"}
    BY <1>12 DEF Assemble, Go
  <2> QED BY <2>1, ElsewhereKeeps
<1> QED
  BY <1>1, <1>2, <1>3, <1>4, <1>5, <1>6, <1>7, <1>8, <1>9, <1>10, <1>11, <1>12 DEF UpxNext

LEMMA FilterInvInit == Init => FilterInv
BY DEF Init, UpxInit, FilterInv, UnfilterRestores

LEMMA FilterInvStep == FilterInv /\ [Next]_vars => FilterInv'
<1> SUFFICES ASSUME FilterInv, [Next]_vars PROVE FilterInv'
  OBVIOUS
<1>1. CASE UpxNext
  BY <1>1, UpxKeeps
<1>2. CASE StartUpx
  BY <1>2, ElsewhereKeeps, Zenon DEF StartUpx, BeginUpx, Go
<1>3. CASE UpxReturns
  BY <1>3, ElsewhereKeeps DEF UpxReturns
<1>4. CASE UNCHANGED upxVars
  BY <1>4 DEF upxVars, FilterInv, FilteredCode, UnfilterRestores
<1> QED
  BY <1>1, <1>2, <1>3, <1>4, Zenon DEF Next, vars, StartDump, DumpReturns

\* The filter is undone to the byte: at every byte of the code the walk of the
\* unfilter stands where that of the packer stood, takes the same byte for a
\* call site, and the target it finds leads back to the displacement, whatever
\* the number of bytes and whatever the code is made of.  (filter.rs)
THEOREM TheFilterIsUndone == Spec => []UnfilterRestores
<1>1. FilterInv => UnfilterRestores
  BY DEF FilterInv
<1> QED
  BY <1>1, FilterInvInit, FilterInvStep, PTL DEF Spec

-----------------------------------------------------------------------------
(* The codes of a match: two walks over bits that end at one number go back  *)
(* to 1 through the same bits                                               *)

Bits == Seq({0, 1})

LEMMA NextIn ==
    ASSUME NEW N \in Nat, NEW k \in 0 .. N - 1
    PROVE  k + 1 \in 1 .. N /\ (k + 1) - 1 = k
OBVIOUS

LEMMA BackBoth ==
    ASSUME NEW N \in Nat, NEW M \in Nat, N <= M, NEW j \in 0 .. (N - 1) - 1
    PROVE  /\ N - j \in 2 .. N /\ M - j \in 2 .. M
           /\ (N - j) - 1 = N - (j + 1) /\ (M - j) - 1 = M - (j + 1)
           /\ (N - j) - 1 \in 0 .. N /\ (M - j) - 1 \in 0 .. M
OBVIOUS

LEMMA ThirdOf ==
    ASSUME NEW n \in Nat, n % 3 = 2
    PROVE  (n + 1) \div 3 \in Nat \ {0} /\ n + 1 = 3 * ((n + 1) \div 3)
OBVIOUS

LEMMA BitAt ==
    ASSUME NEW bits \in Bits, NEW i \in 1 .. Len(bits)
    PROVE  bits[i] \in {0, 1} /\ bits[i] \in Int
BY DEF Bits

(* What a code of rounds runs through, from 1.                             *)
ExtendedRun(f, bits, n) ==
    /\ f \in [0 .. n -> Nat \ {0}]
    /\ f[0] = 1
    /\ \A k \in 1 .. n : f[k] = 2 * f[k - 1] + bits[2 * k - 1]

LEMMA ExtendedRuns ==
    ASSUME NEW bits \in Bits, NEW N \in Nat, N = Len(bits) \div 2
    PROVE  \E f : ExtendedRun(f, bits, N) /\ Extended(bits) = f[N]
<1> DEFINE S == Nat \ {0}
           Step == [p \in S \X (1 .. N) |-> 2 * p[1] + bits[2 * p[2] - 1]]
           F(f) == [k \in 0 .. N |-> IF k = 0 THEN 1 ELSE 2 * f[k - 1] + bits[2 * k - 1]]
           run == CHOOSE g : g = F(g)
<1>1. \A k \in 1 .. N : 2 * k - 1 \in 1 .. Len(bits)
  <2>1. Len(bits) \in Nat
    BY DEF Bits
  <2> QED BY <2>1
<1>2. Step \in [S \X (1 .. N) -> S]
  <2>1. ASSUME NEW p \in S \X (1 .. N) PROVE 2 * p[1] + bits[2 * p[2] - 1] \in S
    <3>1. p[1] \in S /\ p[2] \in 1 .. N
      OBVIOUS
    <3>2. bits[2 * p[2] - 1] \in {0, 1}
      BY <1>1, <3>1, BitAt
    <3> QED BY <3>1, <3>2
  <2> QED BY <2>1
<1>3. PICK f \in [0 .. N -> S] : Iterates(f, 1, Step, N)
  <2>1. 1 \in S
    OBVIOUS
  <2> HIDE DEF Step, S
  <2> QED BY <1>2, <2>1, Recursion
<1>4. \A k \in 1 .. N : f[k] = 2 * f[k - 1] + bits[2 * k - 1]
  <2> SUFFICES ASSUME NEW k \in 1 .. N PROVE f[k] = 2 * f[k - 1] + bits[2 * k - 1]
    OBVIOUS
  <2>1. f[k - 1] \in S
    BY <1>3
  <2>2. f[k] = Step[<<f[k - 1], k>>]
    BY <1>3 DEF Iterates
  <2> QED BY <2>1, <2>2
<1>5. f[0] = 1
  BY <1>3 DEF Iterates
<1>6. f = F(f)
  BY <1>3, <1>4, <1>5
<1>7. run = F(run)
  <2> HIDE DEF F
  <2> QED BY <1>6
<1>8. Extended(bits) = run[N]
  BY DEF Extended
<1>9. run[0] = 1 /\ \A k \in 1 .. N : run[k] = 2 * run[k - 1] + bits[2 * k - 1]
  <2>1. F(run)[0] = 1 /\ \A k \in 1 .. N : F(run)[k] = 2 * run[k - 1] + bits[2 * k - 1]
    <3> HIDE DEF run
    <3> QED OBVIOUS
  <2> HIDE DEF F, run
  <2> QED BY <1>7, <2>1
<1> HIDE DEF run
<1>10. \A k \in 0 .. N : run[k] = f[k]
  <2> DEFINE T == {k \in Nat : run[k] = f[k]}
  <2>1. 0 \in T
    BY <1>5, <1>9
  <2>2. \A k \in 0 .. N - 1 : k \in T => k + 1 \in T
    <3> SUFFICES ASSUME NEW k \in 0 .. N - 1, run[k] = f[k] PROVE run[k + 1] = f[k + 1]
      OBVIOUS
    <3>1. k + 1 \in 1 .. N /\ (k + 1) - 1 = k
      OBVIOUS
    <3> QED BY <1>4, <1>9, <3>1
  <2> HIDE DEF T
  <2>3. \A k \in 0 .. N : k \in T
    <3>1. 0 \in Int /\ N \in Int
      OBVIOUS
    <3> QED BY <2>1, <2>2, <3>1, UpFrom
  <2> QED BY <2>3 DEF T
<1>11. ExtendedRun(f, bits, N)
  BY <1>3, <1>4, <1>5 DEF ExtendedRun
<1>12. N \in 0 .. N
  OBVIOUS
<1> QED BY <1>8, <1>10, <1>11, <1>12

LEMMA ExtendedType ==
    ASSUME NEW bits \in Bits, IsExtended(bits)
    PROVE  Extended(bits) \in Nat /\ Extended(bits) >= 2
<1> DEFINE N == Len(bits) \div 2
<1>1. N \in Nat \ {0}
  BY DEF Bits, IsExtended
<1>2. PICK f : ExtendedRun(f, bits, N) /\ Extended(bits) = f[N]
  BY <1>1, ExtendedRuns
<1>3. f[N] = 2 * f[N - 1] + bits[2 * N - 1] /\ f[N - 1] \in Nat \ {0}
  <2> HIDE DEF N
  <2> QED BY <1>1, <1>2 DEF ExtendedRun
<1>4. bits[2 * N - 1] \in {0, 1}
  <2>1. 2 * N - 1 \in 1 .. Len(bits)
    BY DEF Bits, IsExtended
  <2> HIDE DEF N
  <2> QED BY <2>1, BitAt
<1> QED BY <1>2, <1>3, <1>4

(* Going back from the end two runs of one value take the same bits, and   *)
(* arrive at 1 together.                                                   *)
LEMMA RunsBack ==
    ASSUME NEW b \in Bits, NEW c \in Bits, NEW N \in Nat, NEW M \in Nat, N <= M,
           2 * N <= Len(b), 2 * M <= Len(c),
           NEW f, NEW g, ExtendedRun(f, b, N), ExtendedRun(g, c, M), f[N] = g[M]
    PROVE  N = M /\ \A k \in 1 .. N : b[2 * k - 1] = c[2 * k - 1]
<1> DEFINE Met(j) == /\ f[N - j] = g[M - j]
                      /\ \A i \in 0 .. j - 1 : b[2 * (N - i) - 1] = c[2 * (M - i) - 1]
           T == {j \in Nat : Met(j)}
<1>1. 0 \in T
  OBVIOUS
<1>2. \A j \in 0 .. N - 1 : j \in T => j + 1 \in T
  <2> SUFFICES ASSUME NEW j \in 0 .. N - 1, Met(j) PROVE Met(j + 1)
    OBVIOUS
  <2>1. /\ N - j \in 1 .. N /\ M - j \in 1 .. M
        /\ (N - j) - 1 = N - (j + 1) /\ (M - j) - 1 = M - (j + 1)
    OBVIOUS
  <2>2. /\ f[N - j] = 2 * f[N - (j + 1)] + b[2 * (N - j) - 1]
        /\ g[M - j] = 2 * g[M - (j + 1)] + c[2 * (M - j) - 1]
    BY <2>1 DEF ExtendedRun
  <2>3. f[N - (j + 1)] \in Nat /\ g[M - (j + 1)] \in Nat
    BY DEF ExtendedRun
  <2>4. b[2 * (N - j) - 1] \in {0, 1} /\ c[2 * (M - j) - 1] \in {0, 1}
    <3>1. Len(b) \in Nat /\ Len(c) \in Nat
      BY DEF Bits
    <3>2. 2 * (N - j) - 1 \in 1 .. Len(b) /\ 2 * (M - j) - 1 \in 1 .. Len(c)
      BY <2>1, <3>1
    <3> QED BY <3>2, BitAt
  <2>5. f[N - (j + 1)] = g[M - (j + 1)] /\ b[2 * (N - j) - 1] = c[2 * (M - j) - 1]
    <3> DEFINE x == f[N - (j + 1)]
               y == g[M - (j + 1)]
               u == b[2 * (N - j) - 1]
               v == c[2 * (M - j) - 1]
    <3>1. 2 * x + u = 2 * y + v
      BY <2>2
    <3>2. x \in Nat /\ y \in Nat /\ u \in {0, 1} /\ v \in {0, 1}
      BY <2>3, <2>4
    <3> HIDE DEF x, y, u, v
    <3>3. x = y /\ u = v
      BY <3>1, <3>2
    <3> QED BY <3>3 DEF x, y, u, v
  <2>6. \A i \in 0 .. (j + 1) - 1 : i \in 0 .. j - 1 \/ i = j
    OBVIOUS
  <2>7. \A i \in 0 .. (j + 1) - 1 : b[2 * (N - i) - 1] = c[2 * (M - i) - 1]
    BY <2>5, <2>6
  <2> QED BY <2>5, <2>7
<1> HIDE DEF T
<1>3. N \in T
  <2>1. 0 \in Int /\ N \in Int /\ N \in 0 .. N
    OBVIOUS
  <2>2. \A j \in 0 .. N : j \in T
    BY <1>1, <1>2, <2>1, UpFrom
  <2> QED BY <2>1, <2>2
<1>4. Met(N)
  BY <1>3 DEF T
<1>5. g[M - N] = 1
  BY <1>4 DEF ExtendedRun
<1>6. N = M
  <2> SUFFICES ASSUME N < M PROVE FALSE
    OBVIOUS
  <2>1. M - N \in 1 .. M
    OBVIOUS
  <2>2. g[M - N] = 2 * g[M - N - 1] + c[2 * (M - N) - 1] /\ g[M - N - 1] \in Nat \ {0}
    BY <2>1 DEF ExtendedRun
  <2>3. c[2 * (M - N) - 1] \in {0, 1}
    <3>1. Len(c) \in Nat
      BY DEF Bits
    <3>2. 2 * (M - N) - 1 \in 1 .. Len(c)
      BY <2>1, <3>1
    <3> QED BY <3>2, BitAt
  <2> QED BY <1>5, <2>2, <2>3
<1>7. \A k \in 1 .. N : b[2 * k - 1] = c[2 * k - 1]
  <2> SUFFICES ASSUME NEW k \in 1 .. N PROVE b[2 * k - 1] = c[2 * k - 1]
    OBVIOUS
  <2>1. N - k \in 0 .. N - 1 /\ N - (N - k) = k
    OBVIOUS
  <2> QED BY <1>4, <1>6, <2>1
<1> QED BY <1>6, <1>7

(* A code of rounds stands for no number twice.                            *)
LEMMA ExtendedOnce ==
    ASSUME NEW b \in Bits, NEW c \in Bits, IsExtended(b), IsExtended(c), Extended(b) = Extended(c)
    PROVE  b = c
<1>1. PICK N \in Nat : Len(b) = 2 * N /\ N = Len(b) \div 2
  BY DEF IsExtended, Bits
<1>2. PICK M \in Nat : Len(c) = 2 * M /\ M = Len(c) \div 2
  BY DEF IsExtended, Bits
<1>3. PICK f : ExtendedRun(f, b, N) /\ Extended(b) = f[N]
  BY <1>1, ExtendedRuns
<1>4. PICK g : ExtendedRun(g, c, M) /\ Extended(c) = g[M]
  BY <1>2, ExtendedRuns
<1>5. N = M /\ \A k \in 1 .. N : b[2 * k - 1] = c[2 * k - 1]
  <2>0. 2 * N <= Len(b) /\ 2 * M <= Len(c) /\ f[N] = g[M]
    <3>1. Len(b) = 2 * N /\ Len(c) = 2 * M
      BY <1>1, <1>2
    <3>2. f[N] = g[M]
      BY <1>3, <1>4, Zenon
    <3> QED BY <3>1, <3>2
  <2>1. CASE N <= M
    BY <2>0, <2>1, <1>3, <1>4, RunsBack
  <2>2. CASE M <= N
    BY <2>0, <2>2, <1>3, <1>4, RunsBack
  <2> QED BY <2>1, <2>2
<1>6. \A k \in 1 .. N : b[2 * k] = c[2 * k]
  <2>1. \A k \in 1 .. N : b[2 * k] = (IF 2 * k = 2 * N THEN 1 ELSE 0)
    BY <1>1 DEF IsExtended
  <2>2. \A k \in 1 .. N : c[2 * k] = (IF 2 * k = 2 * N THEN 1 ELSE 0)
    BY <1>2, <1>5 DEF IsExtended
  <2> QED BY <2>1, <2>2
<1>7. \A i \in 1 .. Len(b) : b[i] = c[i]
  <2> SUFFICES ASSUME NEW i \in 1 .. 2 * N PROVE b[i] = c[i]
    BY <1>1
  <2>1. PICK k \in 1 .. N : i = 2 * k \/ i = 2 * k - 1
    <3>1. (i + 1) \div 2 \in 1 .. N /\ (i = 2 * ((i + 1) \div 2) \/ i = 2 * ((i + 1) \div 2) - 1)
      OBVIOUS
    <3> QED BY <3>1
  <2> QED BY <2>1, <1>5, <1>6
<1> QED BY <1>1, <1>2, <1>5, <1>7 DEF Bits

(* The shortest codes of rounds.                                           *)
LEMMA OneRound ==
    ASSUME NEW a \in {0, 1}
    PROVE  /\ <<a, 1>> \in Bits /\ IsExtended(<<a, 1>>)
           /\ Extended(<<a, 1>>) = 2 + a
<1> DEFINE b == <<a, 1>>
<1>1. b \in Bits /\ Len(b) = 2 /\ Len(b) \div 2 = 1
  BY DEF Bits
<1>2. IsExtended(b)
  BY <1>1 DEF IsExtended
<1>3. PICK f : ExtendedRun(f, b, 1) /\ Extended(b) = f[1]
  <2> HIDE DEF b
  <2> QED BY <1>1, ExtendedRuns
<1>4. f[1] = 2 * f[0] + b[1] /\ f[0] = 1
  <2> HIDE DEF b
  <2>1. 1 \in 1 .. 1 /\ 2 * 1 - 1 = 1 /\ 1 - 1 = 0
    OBVIOUS
  <2> QED BY <1>3, <2>1 DEF ExtendedRun
<1> QED BY <1>1, <1>2, <1>3, <1>4

LEMMA TwoRounds ==
    ASSUME NEW a \in {0, 1}, NEW c \in {0, 1}
    PROVE  /\ <<a, 0, c, 1>> \in Bits /\ IsExtended(<<a, 0, c, 1>>)
           /\ Extended(<<a, 0, c, 1>>) = 4 + 2 * a + c
<1> DEFINE b == <<a, 0, c, 1>>
<1>1. b \in Bits /\ Len(b) = 4 /\ Len(b) \div 2 = 2
  BY DEF Bits
<1>2. IsExtended(b)
  <2>1. \A k \in 1 .. 2 : k = 1 \/ k = 2
    OBVIOUS
  <2> QED BY <1>1, <2>1 DEF IsExtended
<1>3. PICK f : ExtendedRun(f, b, 2) /\ Extended(b) = f[2]
  <2> HIDE DEF b
  <2> QED BY <1>1, ExtendedRuns
<1>4. f[1] = 2 * f[0] + b[1] /\ f[0] = 1 /\ f[2] = 2 * f[1] + b[3]
  <2> HIDE DEF b
  <2>1. /\ 1 \in 1 .. 2 /\ 2 * 1 - 1 = 1 /\ 1 - 1 = 0
        /\ 2 \in 1 .. 2 /\ 2 * 2 - 1 = 3 /\ 2 - 1 = 1
    OBVIOUS
  <2> QED BY <1>3, <2>1 DEF ExtendedRun
<1>5. f[1] = 2 + a
  BY <1>4
<1> QED BY <1>1, <1>2, <1>3, <1>4, <1>5

LEMMA ThreeRounds ==
    ASSUME NEW a \in {0, 1}, NEW c \in {0, 1}, NEW d \in {0, 1}
    PROVE  /\ <<a, 0, c, 0, d, 1>> \in Bits /\ IsExtended(<<a, 0, c, 0, d, 1>>)
           /\ Extended(<<a, 0, c, 0, d, 1>>) = 8 + 4 * a + 2 * c + d
<1> DEFINE b == <<a, 0, c, 0, d, 1>>
<1>1. b \in Bits /\ Len(b) = 6 /\ Len(b) \div 2 = 3
  BY DEF Bits
<1>2. IsExtended(b)
  <2>1. \A k \in 1 .. 3 : k = 1 \/ k = 2 \/ k = 3
    OBVIOUS
  <2> QED BY <1>1, <2>1 DEF IsExtended
<1>3. PICK f : ExtendedRun(f, b, 3) /\ Extended(b) = f[3]
  <2> HIDE DEF b
  <2> QED BY <1>1, ExtendedRuns
<1>4. f[1] = 2 * f[0] + b[1] /\ f[0] = 1 /\ f[2] = 2 * f[1] + b[3] /\ f[3] = 2 * f[2] + b[5]
  <2> HIDE DEF b
  <2>1. /\ 1 \in 1 .. 3 /\ 2 * 1 - 1 = 1 /\ 1 - 1 = 0
        /\ 2 \in 1 .. 3 /\ 2 * 2 - 1 = 3 /\ 2 - 1 = 1
        /\ 3 \in 1 .. 3 /\ 2 * 3 - 1 = 5 /\ 3 - 1 = 2
    OBVIOUS
  <2> QED BY <1>3, <2>1 DEF ExtendedRun
<1>5. f[1] = 2 + a
  BY <1>4
<1>6. f[2] = 4 + 2 * a + c
  BY <1>4, <1>5
<1> QED BY <1>1, <1>2, <1>3, <1>4, <1>6

-----------------------------------------------------------------------------
(* The offsets of D and E *)

NextOffset(m, bits, k) ==
    2 * (IF k = 1 THEN 1 ELSE 2 * (m - 1) + bits[3 * k - 3]) + bits[3 * k - 2]

OffsetRun(f, bits, n) ==
    /\ f \in [0 .. n -> Int]
    /\ f[0] = 1
    /\ \A k \in 1 .. n : f[k] = NextOffset(f[k - 1], bits, k) /\ f[k] >= 2

LEMMA OffsetStep ==
    ASSUME NEW b, NEW N \in Nat, NEW f, OffsetRun(f, b, N), NEW n \in 1 .. N
    PROVE  f[n] = NextOffset(f[n - 1], b, n) /\ f[n - 1] \in Int /\ f[n] \in Int /\ f[n] >= 2
<1>1. n - 1 \in 0 .. N /\ n \in 0 .. N
  OBVIOUS
<1> QED BY <1>1 DEF OffsetRun

\* The stop bits of D and E
IsOffset(bits) ==
    /\ Len(bits) % 3 = 2
    /\ \A k \in 1 .. (Len(bits) + 1) \div 3 :
          bits[3 * k - 1] = (IF k = (Len(bits) + 1) \div 3 THEN 1 ELSE 0)

LEMMA NextOffsetType ==
    ASSUME NEW bits \in Bits, NEW N \in Nat, Len(bits) + 1 = 3 * N, NEW k \in 1 .. N, NEW m \in Int
    PROVE  /\ NextOffset(m, bits, k) \in Int
           /\ k > 1 /\ m >= 2 => NextOffset(m, bits, k) >= 4
           /\ k = 1 => NextOffset(m, bits, k) \in 2 .. 3
<1> DEFINE u == bits[3 * k - 2]
           v == bits[3 * k - 3]
<1>1. Len(bits) \in Nat
  BY DEF Bits
<1>2. u \in {0, 1}
  <2>1. 3 * k - 2 \in 1 .. Len(bits)
    BY <1>1
  <2> QED BY <2>1, BitAt
<1>3. k # 1 => v \in {0, 1}
  <2> SUFFICES ASSUME k # 1 PROVE v \in {0, 1}
    OBVIOUS
  <2>1. 3 * k - 3 \in 1 .. Len(bits)
    BY <1>1
  <2> QED BY <2>1, BitAt
<1>4. NextOffset(m, bits, k) = 2 * (IF k = 1 THEN 1 ELSE 2 * (m - 1) + v) + u
  BY DEF NextOffset
<1> HIDE DEF u, v
<1> QED BY <1>2, <1>3, <1>4

LEMMA OffsetRuns ==
    ASSUME NEW bits \in Bits, IsOffset(bits), NEW method \in {"N2d", "N2e"},
           NEW N \in Nat, Len(bits) + 1 = 3 * N
    PROVE  \E f : OffsetRun(f, bits, N) /\ OffsetOf(method, bits) = f[N]
<1> DEFINE Step == [p \in Int \X (1 .. N) |-> NextOffset(p[1], bits, p[2])]
           F(f) == [k \in 0 .. N |-> IF k = 0 THEN 1 ELSE NextOffset(f[k - 1], bits, k)]
           run == CHOOSE g : g = F(g)
<1>1. Step \in [Int \X (1 .. N) -> Int]
  BY NextOffsetType
<1>2. PICK f \in [0 .. N -> Int] : Iterates(f, 1, Step, N)
  <2>1. 1 \in Int
    OBVIOUS
  <2> HIDE DEF Step
  <2> QED BY <1>1, <2>1, Recursion
<1>3. f[0] = 1
  BY <1>2 DEF Iterates
<1>4. \A k \in 1 .. N : f[k] = NextOffset(f[k - 1], bits, k)
  <2> SUFFICES ASSUME NEW k \in 1 .. N PROVE f[k] = NextOffset(f[k - 1], bits, k)
    OBVIOUS
  <2>1. f[k - 1] \in Int
    BY <1>2
  <2>2. f[k] = Step[<<f[k - 1], k>>]
    BY <1>2 DEF Iterates
  <2> QED BY <2>1, <2>2
<1>5. \A k \in 1 .. N : f[k] >= 2
  <2> DEFINE T == {k \in Nat : k >= 1 => f[k] >= 2}
  <2>1. 0 \in T
    OBVIOUS
  <2>2. \A k \in 0 .. N - 1 : k \in T => k + 1 \in T
    <3> SUFFICES ASSUME NEW k \in 0 .. N - 1, k >= 1 => f[k] >= 2
                 PROVE  f[k + 1] >= 2
      OBVIOUS
    <3>1. k + 1 \in 1 .. N /\ (k + 1) - 1 = k
      OBVIOUS
    <3>2. f[k] \in Int /\ f[k + 1] = NextOffset(f[k], bits, k + 1)
      BY <3>1, <1>2, <1>4
    <3>3. /\ NextOffset(f[k], bits, k + 1) \in Int
          /\ k + 1 > 1 /\ f[k] >= 2 => NextOffset(f[k], bits, k + 1) >= 4
          /\ k + 1 = 1 => NextOffset(f[k], bits, k + 1) \in 2 .. 3
      BY <3>1, <3>2, NextOffsetType
    <3> QED BY <3>2, <3>3
  <2> HIDE DEF T
  <2>3. \A k \in 0 .. N : k \in T
    <3>1. 0 \in Int /\ N \in Int
      OBVIOUS
    <3> QED BY <2>1, <2>2, <3>1, UpFrom
  <2> QED BY <2>3 DEF T
<1>6. f = F(f)
  <2>1. \A k \in 0 .. N : f[k] = F(f)[k]
    BY <1>3, <1>4
  <2> QED BY <1>2, <2>1
<1>7. run = F(run)
  <2> HIDE DEF F
  <2> QED BY <1>6
<1>8. OffsetOf(method, bits) = run[N]
  <2>1. (Len(bits) + 1) \div 3 = N
    <3>1. Len(bits) \in Nat
      BY DEF Bits
    <3> QED BY <3>1
  <2> QED BY <2>1 DEF OffsetOf, IsOffset, NextOffset
<1>9. run[0] = 1 /\ \A k \in 1 .. N : run[k] = NextOffset(run[k - 1], bits, k)
  <2>1. F(run)[0] = 1 /\ \A k \in 1 .. N : F(run)[k] = NextOffset(run[k - 1], bits, k)
    <3> HIDE DEF run
    <3> QED OBVIOUS
  <2> HIDE DEF F, run
  <2> QED BY <1>7, <2>1
<1> HIDE DEF run, F
<1>11. \A k \in 0 .. N : run[k] = f[k]
  <2> DEFINE T == {k \in Nat : run[k] = f[k]}
  <2>1. 0 \in T
    BY <1>3, <1>9
  <2>2. \A k \in 0 .. N - 1 : k \in T => k + 1 \in T
    <3> SUFFICES ASSUME NEW k \in 0 .. N - 1, run[k] = f[k] PROVE run[k + 1] = f[k + 1]
      OBVIOUS
    <3>1. k + 1 \in 1 .. N /\ (k + 1) - 1 = k
      BY NextIn
    <3> QED BY <1>4, <1>9, <3>1
  <2> HIDE DEF T
  <2>3. \A k \in 0 .. N : k \in T
    <3>1. 0 \in Int /\ N \in Int
      OBVIOUS
    <3> QED BY <2>1, <2>2, <3>1, UpFrom
  <2> QED BY <2>3 DEF T
<1>12. OffsetRun(f, bits, N)
  BY <1>2, <1>3, <1>4, <1>5 DEF OffsetRun
<1>13. N \in 0 .. N
  OBVIOUS
<1> QED BY <1>8, <1>11, <1>12, <1>13

(* Going back from the end, two runs of one value take the same bits.      *)
LEMMA OffsetsBack ==
    ASSUME NEW b \in Bits, NEW c \in Bits, NEW N \in Nat \ {0}, NEW M \in Nat, N <= M,
           Len(b) + 1 = 3 * N, Len(c) + 1 = 3 * M,
           NEW f, NEW g, OffsetRun(f, b, N), OffsetRun(g, c, M), f[N] = g[M]
    PROVE  /\ N = M
           /\ \A k \in 1 .. N : b[3 * k - 2] = c[3 * k - 2]
           /\ \A k \in 2 .. N : b[3 * k - 3] = c[3 * k - 3]
<1>0. Len(b) \in Nat /\ Len(c) \in Nat
  BY DEF Bits
<1> DEFINE Met(j) == /\ f[N - j] = g[M - j]
                      /\ \A i \in 0 .. j - 1 : /\ b[3 * (N - i) - 2] = c[3 * (M - i) - 2]
                                               /\ b[3 * (N - i) - 3] = c[3 * (M - i) - 3]
           T == {j \in Nat : Met(j)}
<1>1. 0 \in T
  OBVIOUS
<1>2. \A j \in 0 .. (N - 1) - 1 : j \in T => j + 1 \in T
  <2> SUFFICES ASSUME NEW j \in 0 .. (N - 1) - 1, Met(j) PROVE Met(j + 1)
    <3>1. \A j \in 0 .. (N - 1) - 1 : j \in Nat /\ j + 1 \in Nat
      OBVIOUS
    <3> HIDE DEF Met
    <3> QED BY <3>1 DEF T
  <2> DEFINE n == N - j
             m == M - j
  <2>1. n \in 2 .. N /\ m \in 2 .. M /\ n - 1 = N - (j + 1) /\ m - 1 = M - (j + 1)
    BY BackBoth
  <2>2. /\ f[n] = NextOffset(f[n - 1], b, n) /\ f[n - 1] \in Int
        /\ g[m] = NextOffset(g[m - 1], c, m) /\ g[m - 1] \in Int
    <3>1. n \in 1 .. N /\ m \in 1 .. M /\ N \in Nat
      BY <2>1
    <3> HIDE DEF n, m, Met
    <3>2. f[n] = NextOffset(f[n - 1], b, n) /\ f[n - 1] \in Int
      BY <3>1, OffsetStep
    <3>3. g[m] = NextOffset(g[m - 1], c, m) /\ g[m - 1] \in Int
      BY <3>1, OffsetStep
    <3> QED BY <3>2, <3>3
  <2>3. /\ b[3 * n - 2] \in {0, 1} /\ b[3 * n - 3] \in {0, 1}
        /\ c[3 * m - 2] \in {0, 1} /\ c[3 * m - 3] \in {0, 1}
    <3>1. /\ 3 * n - 2 \in 1 .. Len(b) /\ 3 * n - 3 \in 1 .. Len(b)
          /\ 3 * m - 2 \in 1 .. Len(c) /\ 3 * m - 3 \in 1 .. Len(c)
      BY <1>0, <2>1
    <3> QED BY <3>1, BitAt
  <2>4. f[n - 1] = g[m - 1] /\ b[3 * n - 2] = c[3 * m - 2] /\ b[3 * n - 3] = c[3 * m - 3]
    <3> DEFINE x == f[n - 1]
               y == g[m - 1]
               u == b[3 * n - 2]
               v == c[3 * m - 2]
               s == b[3 * n - 3]
               t == c[3 * m - 3]
    <3>1. f[n] = 2 * (2 * (x - 1) + s) + u
      <4> HIDE DEF n
      <4> QED BY <2>1, <2>2 DEF NextOffset
    <3>2. g[m] = 2 * (2 * (y - 1) + t) + v
      <4> HIDE DEF m
      <4> QED BY <2>1, <2>2 DEF NextOffset
    <3>3. f[n] = g[m]
      OBVIOUS
    <3>4. x \in Int /\ y \in Int /\ u \in {0, 1} /\ v \in {0, 1} /\ s \in {0, 1} /\ t \in {0, 1}
      BY <2>2, <2>3
    <3> HIDE DEF x, y, u, v, s, t
    <3>5. 2 * (2 * (x - 1) + s) + u = 2 * (2 * (y - 1) + t) + v
      BY <3>1, <3>2, <3>3
    <3>6. x = y /\ u = v /\ s = t
      BY <3>4, <3>5
    <3> QED BY <3>6 DEF x, y, u, v, s, t
  <2>5. \A i \in 0 .. (j + 1) - 1 : i \in 0 .. j - 1 \/ i = j
    OBVIOUS
  <2> QED BY <2>1, <2>4, <2>5
<1> HIDE DEF T
<1>3. N - 1 \in T
  <2>1. 0 \in Int /\ N - 1 \in Int
    OBVIOUS
  <2>2. \A j \in 0 .. N - 1 : j \in T
    BY <1>1, <1>2, <2>1, UpFrom
  <2> QED BY <2>2
<1>4. Met(N - 1)
  BY <1>3 DEF T
<1>5. f[1] = g[M - N + 1]
  <2>1. N - (N - 1) = 1 /\ M - (N - 1) = M - N + 1
    OBVIOUS
  <2> QED BY <1>4, <2>1
<1>6. f[1] \in 2 .. 3 /\ f[1] = 2 + b[1]
  <2>1. f[1] = NextOffset(f[0], b, 1) /\ f[0] \in Int /\ 1 \in 1 .. N
    <3>1. 1 - 1 = 0 /\ 1 \in 1 .. N
      OBVIOUS
    <3> QED BY <3>1 DEF OffsetRun
  <2>2. f[1] \in 2 .. 3
    BY <2>1, NextOffsetType
  <2>3. 3 * 1 - 2 = 1 /\ 1 \in 1 .. Len(b)
    BY <1>0
  <2>4. b[1] \in {0, 1}
    BY <2>3, BitAt
  <2> QED BY <2>1, <2>2, <2>3, <2>4 DEF NextOffset
<1>7. N = M
  <2> SUFFICES ASSUME N < M PROVE FALSE
    OBVIOUS
  <2> DEFINE k == M - N + 1
  <2>1. k \in 2 .. M /\ k - 1 \in 1 .. M
    OBVIOUS
  <2>2. g[k] = NextOffset(g[k - 1], c, k) /\ g[k - 1] \in Int /\ g[k - 1] >= 2
    <3> HIDE DEF k
    <3> QED BY <2>1, SMTT(30) DEF OffsetRun
  <2>3. NextOffset(g[k - 1], c, k) >= 4
    <3> HIDE DEF k
    <3>1. k \in 1 .. M /\ k > 1
      BY <2>1
    <3> QED BY <2>2, <3>1, NextOffsetType
  <2>4. g[k] \in 2 .. 3
    BY <1>5, <1>6
  <2> HIDE DEF k
  <2> QED BY <2>2, <2>3, <2>4
<1>8. g[1] = 2 + c[1]
  <2>1. g[1] = NextOffset(g[0], c, 1) /\ g[0] \in Int /\ 1 \in 1 .. M
    <3>1. 1 - 1 = 0 /\ 1 \in 1 .. M
      OBVIOUS
    <3> QED BY <3>1 DEF OffsetRun
  <2>3. 3 * 1 - 2 = 1 /\ 1 \in 1 .. Len(c)
    BY <1>0
  <2>4. c[1] \in {0, 1}
    BY <2>3, BitAt
  <2> QED BY <2>1, <2>3, <2>4 DEF NextOffset
<1>9. b[1] = c[1]
  <2>1. 1 \in 1 .. Len(b) /\ 1 \in 1 .. Len(c)
    BY <1>0
  <2>2. b[1] \in {0, 1} /\ c[1] \in {0, 1}
    BY <2>1, BitAt
  <2>3. f[1] = g[1]
    BY <1>5, <1>7
  <2> QED BY <1>6, <1>8, <2>2, <2>3
<1>10. \A k \in 2 .. N : b[3 * k - 2] = c[3 * k - 2] /\ b[3 * k - 3] = c[3 * k - 3]
  <2> SUFFICES ASSUME NEW k \in 2 .. N
               PROVE  b[3 * k - 2] = c[3 * k - 2] /\ b[3 * k - 3] = c[3 * k - 3]
    OBVIOUS
  <2>1. N - k \in 0 .. (N - 1) - 1 /\ N - (N - k) = k
    OBVIOUS
  <2> QED BY <1>4, <1>7, <2>1
<1> QED BY <1>7, <1>9, <1>10

LEMMA OffsetOnce ==
    ASSUME NEW b \in Bits, NEW c \in Bits, IsOffset(b), IsOffset(c), NEW method \in {"N2d", "N2e"},
           OffsetOf(method, b) = OffsetOf(method, c)
    PROVE  b = c
<1>1. PICK N \in Nat \ {0} : Len(b) + 1 = 3 * N /\ N = (Len(b) + 1) \div 3
  <2>1. Len(b) \in Nat /\ Len(b) % 3 = 2
    BY DEF IsOffset, Bits
  <2> QED BY <2>1, ThirdOf
<1>2. PICK M \in Nat \ {0} : Len(c) + 1 = 3 * M /\ M = (Len(c) + 1) \div 3
  <2>1. Len(c) \in Nat /\ Len(c) % 3 = 2
    BY DEF IsOffset, Bits
  <2> QED BY <2>1, ThirdOf
<1>3. PICK f : OffsetRun(f, b, N) /\ OffsetOf(method, b) = f[N]
  BY <1>1, OffsetRuns
<1>4. PICK g : OffsetRun(g, c, M) /\ OffsetOf(method, c) = g[M]
  BY <1>2, OffsetRuns
<1>5. /\ N = M
      /\ \A k \in 1 .. N : b[3 * k - 2] = c[3 * k - 2]
      /\ \A k \in 2 .. N : b[3 * k - 3] = c[3 * k - 3]
  <2>0. f[N] = g[M] /\ Len(b) + 1 = 3 * N /\ Len(c) + 1 = 3 * M
    <3>1. f[N] = g[M]
      BY <1>3, <1>4, Zenon
    <3> QED BY <3>1, <1>1, <1>2
  <2>1. CASE N <= M
    BY <2>0, <2>1, <1>3, <1>4, OffsetsBack
  <2>2. CASE M <= N
    BY <2>0, <2>2, <1>3, <1>4, OffsetsBack
  <2> QED BY <2>1, <2>2
<1>6. \A k \in 1 .. N : b[3 * k - 1] = c[3 * k - 1]
  <2>1. \A k \in 1 .. N : b[3 * k - 1] = (IF k = N THEN 1 ELSE 0)
    BY <1>1 DEF IsOffset
  <2>2. \A k \in 1 .. N : c[3 * k - 1] = (IF k = N THEN 1 ELSE 0)
    BY <1>2, <1>5 DEF IsOffset
  <2> QED BY <2>1, <2>2
<1>0. Len(b) \in Nat /\ Len(c) \in Nat /\ Len(b) = 3 * N - 1 /\ Len(c) = 3 * N - 1
  BY <1>1, <1>2, <1>5 DEF Bits
<1>7. \A i \in 1 .. Len(b) : b[i] = c[i]
  <2> SUFFICES ASSUME NEW i \in 1 .. 3 * N - 1 PROVE b[i] = c[i]
    BY <1>0
  <2>1. PICK k \in 1 .. N : i = 3 * k - 1 \/ i = 3 * k - 2 \/ (i = 3 * k - 3 /\ k \in 2 .. N)
    <3> DEFINE k == (i + 3) \div 3
    <3>1. k \in 1 .. N /\ (i = 3 * k - 1 \/ i = 3 * k - 2 \/ (i = 3 * k - 3 /\ k \in 2 .. N))
      OBVIOUS
    <3> QED BY <3>1
  <2> QED BY <2>1, <1>5, <1>6
<1> QED BY <1>0, <1>7 DEF Bits

LEMMA OneOffset ==
    ASSUME NEW method \in {"N2d", "N2e"}, NEW a \in {0, 1}
    PROVE  /\ <<a, 1>> \in Bits /\ IsOffset(<<a, 1>>)
           /\ OffsetOf(method, <<a, 1>>) = 2 + a
<1> DEFINE b == <<a, 1>>
<1>1. b \in Bits /\ Len(b) + 1 = 3 * 1 /\ Len(b) = 2
  BY DEF Bits
<1>2. IsOffset(b)
  BY <1>1 DEF IsOffset
<1>3. PICK f : OffsetRun(f, b, 1) /\ OffsetOf(method, b) = f[1]
  <2> HIDE DEF b
  <2>1. 1 \in Nat
    OBVIOUS
  <2> QED BY <1>1, <1>2, <2>1, OffsetRuns
<1>4. f[1] = 2 + b[1]
  <2> HIDE DEF b
  <2>1. 1 \in 1 .. 1 /\ 1 - 1 = 0
    OBVIOUS
  <2>2. f[1] = NextOffset(f[0], b, 1)
    BY <1>3, <2>1 DEF OffsetRun
  <2> QED BY <2>2 DEF NextOffset
<1> QED BY <1>1, <1>2, <1>3, <1>4

LEMMA TwoOffsets ==
    ASSUME NEW method \in {"N2d", "N2e"}, NEW a \in {0, 1}, NEW c \in {0, 1}, NEW d \in {0, 1}
    PROVE  /\ <<a, 0, c, d, 1>> \in Bits /\ IsOffset(<<a, 0, c, d, 1>>)
           /\ OffsetOf(method, <<a, 0, c, d, 1>>) = 4 + 4 * a + 2 * c + d
<1> DEFINE b == <<a, 0, c, d, 1>>
<1>1. b \in Bits /\ Len(b) + 1 = 3 * 2 /\ Len(b) = 5
  BY DEF Bits
<1>2. IsOffset(b)
  <2>1. \A k \in 1 .. 2 : k = 1 \/ k = 2
    OBVIOUS
  <2> QED BY <1>1, <2>1 DEF IsOffset
<1>3. PICK f : OffsetRun(f, b, 2) /\ OffsetOf(method, b) = f[2]
  <2> HIDE DEF b
  <2>1. 2 \in Nat
    OBVIOUS
  <2> QED BY <1>1, <1>2, <2>1, OffsetRuns
<1>4. f[1] = 2 + b[1] /\ f[2] = 2 * (2 * (f[1] - 1) + b[3]) + b[4]
  <2> HIDE DEF b
  <2>1. 1 \in 1 .. 2 /\ 1 - 1 = 0 /\ 2 \in 1 .. 2 /\ 2 - 1 = 1
    OBVIOUS
  <2>2. f[1] = NextOffset(f[0], b, 1) /\ f[2] = NextOffset(f[1], b, 2)
    BY <1>3, <2>1 DEF OffsetRun
  <2> QED BY <2>2 DEF NextOffset
<1>5. f[1] = 2 + a
  BY <1>4
<1> QED BY <1>1, <1>2, <1>3, <1>4, <1>5

-----------------------------------------------------------------------------
(* What a match copies *)

LEMMA OneTurnBack ==
    ASSUME NEW n \in Nat \ {0}, NEW k \in Nat, n <= k
    PROVE  (k - n) % n = k % n
<1> DEFINE q == k \div n
           r == k % n
<1>1. q \in Nat /\ r \in 0 .. n - 1 /\ k = n * q + r
  OBVIOUS
<1> HIDE DEF q, r
<1>2. q - 1 \in Nat
  <2> SUFFICES ASSUME q = 0 PROVE FALSE
    BY <1>1
  <2>1. n * q = 0
    OBVIOUS
  <2> QED BY <1>1, <2>1
<1>3. k - n = r + n * (q - 1)
  <2>1. n * (q - 1) = n * q - n
    BY <1>1
  <2> QED BY <1>1, <2>1
<1>4. (r + n * (q - 1)) % n = r
  BY <1>1, <1>2, DivMod
<1> QED BY <1>3, <1>4 DEF r

\* What k bytes of a match at the end of out have become
CopiedAs(o, out, offset, k) ==
    /\ Len(o) = Len(out) + k
    /\ \A i \in 1 .. Len(out) : o[i] = out[i]
    /\ \A i \in 1 .. k : o[Len(out) + i] = out[Len(out) + 1 - offset + ((i - 1) % offset)]

LEMMA AppendIs ==
    ASSUME NEW S, NEW s \in Seq(S), NEW e \in S
    PROVE  /\ Append(s, e) \in Seq(S) /\ Len(Append(s, e)) = Len(s) + 1
           /\ \A i \in 1 .. Len(s) : Append(s, e)[i] = s[i]
           /\ Append(s, e)[Len(s) + 1] = e
OBVIOUS

LEMMA CopyStep ==
    ASSUME NEW S, NEW out \in Seq(S), NEW offset \in 1 .. Len(out), NEW k \in Nat,
           NEW o \in Seq(S), CopiedAs(o, out, offset, k),
           NEW p, p = Len(out) + (k + 1) - offset
    PROVE  p \in 1 .. Len(o) /\ CopiedAs(Append(o, o[p]), out, offset, k + 1)
<1> DEFINE L == Len(out)
<1>0. L \in Nat /\ offset \in Nat \ {0} /\ offset <= L /\ p \in Int
  OBVIOUS
<1>1. Len(o) = L + k /\ p \in 1 .. L + k
  BY <1>0 DEF CopiedAs
<1>2. o[p] = out[L + 1 - offset + (k % offset)]
  <2>1. CASE k < offset
    <3>1. p \in 1 .. L /\ p = L + 1 - offset + k
      BY <2>1, <1>0
    <3>2. o[p] = out[p]
      BY <3>1 DEF CopiedAs
    <3>3. k % offset = k
      BY <2>1, <1>0
    <3> QED BY <3>1, <3>2, <3>3
  <2>2. CASE offset <= k
    <3> DEFINE i == (k + 1) - offset
    <3>1. i \in 1 .. k /\ p = L + i /\ i - 1 = k - offset
      BY <2>2, <1>0
    <3> HIDE DEF i
    <3>2. o[L + i] = out[L + 1 - offset + ((i - 1) % offset)]
      BY <3>1 DEF CopiedAs
    <3>3. (k - offset) % offset = k % offset
      BY <2>2, <1>0, OneTurnBack
    <3> QED BY <3>1, <3>2, <3>3
  <2> QED BY <2>1, <2>2, <1>0
<1> HIDE DEF L
<1>3. PICK q : q = Append(o, o[p])
  OBVIOUS
<1>4. Len(q) = L + (k + 1) /\ (\A i \in 1 .. L + k : q[i] = o[i]) /\ q[L + (k + 1)] = o[p]
  <2>1. o[p] \in S
    BY <1>1
  <2>2. Len(q) = Len(o) + 1 /\ (\A i \in 1 .. Len(o) : q[i] = o[i]) /\ q[Len(o) + 1] = o[p]
    BY <2>1, <1>3, AppendIs
  <2>3. L + k + 1 = L + (k + 1)
    BY <1>0
  <2> QED BY <2>2, <2>3, <1>1
<1>5. \A i \in 1 .. L : q[i] = out[i]
  <2>1. \A i \in 1 .. L : i \in 1 .. L + k
    BY <1>0
  <2> QED BY <2>1, <1>4 DEF CopiedAs, L
<1>6. \A i \in 1 .. k : q[L + i] = out[L + 1 - offset + ((i - 1) % offset)]
  <2>1. \A i \in 1 .. k : L + i \in 1 .. L + k
    BY <1>0
  <2> QED BY <2>1, <1>4 DEF CopiedAs, L
<1>7. \A i \in 1 .. k + 1 : i \in 1 .. k \/ (i = k + 1 /\ i - 1 = k)
  OBVIOUS
<1>8. CopiedAs(q, out, offset, k + 1)
  BY <1>2, <1>4, <1>5, <1>6, <1>7 DEF CopiedAs, L
<1> QED BY <1>1, <1>3, <1>8 DEF L

(* What a match copies repeats the bytes that come last before it: it may  *)
(* be longer than its offset.                                              *)
LEMMA CopiedRepeats ==
    ASSUME NEW S, NEW out \in Seq(S), NEW offset \in 1 .. Len(out), NEW n \in Nat
    PROVE  Copied(out, offset, n) \in Seq(S) /\ CopiedAs(Copied(out, offset, n), out, offset, n)
<1> DEFINE L == Len(out)
           Step == [p \in Seq(S) \X (1 .. n) |->
                      IF L + p[2] - offset \in 1 .. Len(p[1])
                      THEN Append(p[1], p[1][L + p[2] - offset]) ELSE out]
           F(f) == [k \in 0 .. n |-> IF k = 0 THEN out
                                     ELSE Append(f[k - 1], f[k - 1][L + k - offset])]
           run == CHOOSE g : g = F(g)
<1>1. Step \in [Seq(S) \X (1 .. n) -> Seq(S)]
  <2> SUFFICES ASSUME NEW p \in Seq(S) \X (1 .. n) PROVE Step[p] \in Seq(S)
    OBVIOUS
  <2>1. CASE L + p[2] - offset \in 1 .. Len(p[1])
    <3>1. p[1] \in Seq(S) /\ p[1][L + p[2] - offset] \in S
      BY <2>1
    <3>2. Step[p] = Append(p[1], p[1][L + p[2] - offset])
      BY <2>1
    <3> QED BY <3>1, <3>2
  <2>2. CASE L + p[2] - offset \notin 1 .. Len(p[1])
    BY <2>2
  <2> QED BY <2>1, <2>2
<1>2. PICK f \in [0 .. n -> Seq(S)] : Iterates(f, out, Step, n)
  <2> HIDE DEF Step
  <2> QED BY <1>1, Recursion
<1>3. f[0] = out
  BY <1>2 DEF Iterates
<1>4. \A k \in 0 .. n : CopiedAs(f[k], out, offset, k)
                        /\ (k > 0 => f[k] = Append(f[k - 1], f[k - 1][L + k - offset]))
  <2> DEFINE T == {k \in Nat : CopiedAs(f[k], out, offset, k)
                               /\ (k > 0 => f[k] = Append(f[k - 1], f[k - 1][L + k - offset]))}
  <2>1. 0 \in T
    BY <1>3 DEF CopiedAs
  <2>2. \A k \in 0 .. n - 1 : k \in T => k + 1 \in T
    <3> SUFFICES ASSUME NEW k \in 0 .. n - 1, CopiedAs(f[k], out, offset, k)
                 PROVE  k + 1 \in T
      OBVIOUS
    <3>1. k + 1 \in 1 .. n /\ (k + 1) - 1 = k /\ k \in Nat /\ k + 1 \in Nat
      BY NextIn
    <3>2. PICK o \in Seq(S) : o = f[k]
      BY <3>1, <1>2
    <3>3. PICK p : p = Len(out) + (k + 1) - offset
      OBVIOUS
    <3>4. p \in 1 .. Len(o) /\ CopiedAs(Append(o, o[p]), out, offset, k + 1)
      BY <3>1, <3>2, <3>3, CopyStep
    <3>5. f[k + 1] = Step[<<o, k + 1>>]
      BY <3>1, <3>2, <1>2 DEF Iterates
    <3>6. f[k + 1] = Append(o, o[p])
      BY <3>1, <3>3, <3>4, <3>5
    <3> HIDE DEF Step, F, run
    <3> QED BY <3>1, <3>2, <3>3, <3>4, <3>6
  <2> HIDE DEF T
  <2>3. \A k \in 0 .. n : k \in T
    <3>1. 0 \in Int /\ n \in Int
      OBVIOUS
    <3> QED BY <2>1, <2>2, <3>1, UpFrom
  <2> QED BY <2>3 DEF T
<1>9. \A k \in 1 .. n : f[k] = Append(f[k - 1], f[k - 1][L + k - offset])
  <2>1. \A k \in 1 .. n : k \in 0 .. n /\ k > 0
    OBVIOUS
  <2> HIDE DEF Step, F, run
  <2> QED BY <1>4, <2>1
<1>5. f = F(f)
  <2>1. \A k \in 0 .. n : f[k] = F(f)[k]
    BY <1>3, <1>9
  <2> QED BY <1>2, <2>1
<1>6. run = F(run)
  <2> HIDE DEF F
  <2> QED BY <1>5
<1>7. Copied(out, offset, n) = run[n]
  BY DEF Copied
<1>8. /\ run[0] = out
      /\ \A k \in 1 .. n : run[k] = Append(run[k - 1], run[k - 1][L + k - offset])
  <2>1. /\ F(run)[0] = out
        /\ \A k \in 1 .. n : F(run)[k] = Append(run[k - 1], run[k - 1][L + k - offset])
    <3> HIDE DEF run
    <3> QED OBVIOUS
  <2> HIDE DEF F, run
  <2> QED BY <1>6, <2>1
<1> HIDE DEF run, F, L, Step
<1>10. \A k \in 0 .. n : run[k] = f[k]
  <2>1. \A k \in 1 .. n : run[k - 1] = f[k - 1] => run[k] = f[k]
    BY <1>8, <1>9
  <2>2. run[0] = f[0]
    BY <1>3, <1>8
  <2>3. GoOnAlike(run, f, n)
    BY <2>1, <2>2 DEF GoOnAlike
  <2>4. Alike(run, f, n)
    BY <2>3, RunsAgree
  <2> QED BY <2>4 DEF Alike
<1>11. n \in 0 .. n
  OBVIOUS
<1> QED BY <1>2, <1>4, <1>7, <1>10, <1>11

-----------------------------------------------------------------------------
(* The lengths *)

Rest(bits, n) == SubSeq(bits, n + 1, Len(bits))

LEMMA RestIs ==
    ASSUME NEW bits \in Bits, NEW n \in 0 .. Len(bits)
    PROVE  /\ Rest(bits, n) \in Bits
           /\ Len(Rest(bits, n)) = Len(bits) - n
           /\ \A i \in 1 .. Len(bits) - n : Rest(bits, n)[i] = bits[n + i]
<1> DEFINE L == Len(bits)
           r == Rest(bits, n)
<1>1. L \in Nat /\ bits \in Seq({0, 1})
  BY DEF Bits
<1>2. \A i \in n + 1 .. L : bits[i] \in {0, 1}
  BY <1>1
<1>3. r = [i \in 1 .. L - n |-> bits[n + i]]
  <2>1. L - (n + 1) + 1 = L - n
    BY <1>1
  <2>2. r = [i \in 1 .. L - (n + 1) + 1 |-> bits[i + (n + 1) - 1]]
    BY DEF Rest
  <2>3. \A i \in 1 .. L - n : i + (n + 1) - 1 = n + i
    BY <1>1
  <2> QED BY <2>1, <2>2, <2>3
<1>4. r \in [1 .. L - n -> {0, 1}]
  <2>1. \A i \in 1 .. L - n : n + i \in n + 1 .. L
    BY <1>1
  <2> QED BY <1>2, <1>3, <2>1
<1>5. L - n \in Nat
  BY <1>1
<1>6. r \in Seq({0, 1}) /\ Len(r) = L - n
  <2> HIDE DEF r, L
  <2> QED BY <1>4, <1>5
<1> QED BY <1>3, <1>6 DEF Bits

LEMMA SameRest ==
    ASSUME NEW b \in Bits, NEW c \in Bits, NEW n \in Nat, n <= Len(b), n <= Len(c),
           Rest(b, n) = Rest(c, n), \A i \in 1 .. n : b[i] = c[i]
    PROVE  b = c
<1>1. Len(b) \in Nat /\ Len(c) \in Nat /\ n \in 0 .. Len(b) /\ n \in 0 .. Len(c)
  BY DEF Bits
<1>2. Len(Rest(b, n)) = Len(b) - n /\ Len(Rest(c, n)) = Len(c) - n
  BY <1>1, RestIs
<1>3. Len(b) = Len(c)
  BY <1>1, <1>2
<1>4. \A i \in 1 .. Len(b) - n : b[n + i] = c[n + i]
  <2>1. \A i \in 1 .. Len(b) - n : Rest(b, n)[i] = b[n + i]
    BY <1>1, RestIs
  <2>2. \A i \in 1 .. Len(c) - n : Rest(c, n)[i] = c[n + i]
    BY <1>1, RestIs
  <2> QED BY <1>3, <2>1, <2>2
<1>5. \A i \in 1 .. Len(b) : b[i] = c[i]
  <2> SUFFICES ASSUME NEW i \in 1 .. Len(b) PROVE b[i] = c[i]
    OBVIOUS
  <2>1. CASE i <= n
    BY <2>1, <1>1
  <2>2. CASE i > n
    <3>1. i - n \in 1 .. Len(b) - n /\ n + (i - n) = i
      BY <2>2, <1>1
    <3> QED BY <3>1, <1>4
  <2> QED BY <2>1, <2>2, <1>1
<1> QED BY <1>3, <1>5 DEF Bits

(* What codes there are: the short ones, and the ones of rounds behind     *)
(* bits that are clear.                                                    *)
Behind(bits, n, plus, v) ==
    /\ Len(bits) > n /\ \A i \in 1 .. n : bits[i] = 0
    /\ IsExtended(Rest(bits, n)) /\ v = Extended(Rest(bits, n)) + plus

CodeB(bits, v) ==
    \/ Len(bits) = 2 /\ v = 2 * bits[1] + bits[2]
    \/ Behind(bits, 2, 2, v)

CodeD(seed, bits, v) ==
    \/ Len(bits) = 1 /\ v = 2 * seed + bits[1]
    \/ seed = 0 /\ Behind(bits, 1, 2, v)

CodeE(seed, bits, v) ==
    \/ seed = 1 /\ Len(bits) = 1 /\ v = 1 + bits[1]
    \/ seed = 0 /\ Len(bits) = 2 /\ bits[1] = 1 /\ v = 3 + bits[2]
    \/ seed = 0 /\ Behind(bits, 1, 3, v)

LEMMA LengthB ==
    ASSUME NEW seed, NEW bits \in Bits, NEW v \in Nat \ {0}
    PROVE  LengthOf("N2b", seed, bits) = v <=> CodeB(bits, v)
<1>0. PICK L \in Nat : L = Len(bits)
  BY DEF Bits
<1>1. CASE L = 2
  <2>0. Len(bits) = 2 /\ 1 \in 1 .. Len(bits) /\ 2 \in 1 .. Len(bits)
    BY <1>0, <1>1
  <2>1. bits[1] \in {0, 1} /\ bits[2] \in {0, 1}
    BY <2>0, BitAt
  <2>2. bits = <<0, 0>> <=> bits[1] = 0 /\ bits[2] = 0
    <3>1. ASSUME bits[1] = 0, bits[2] = 0 PROVE bits = <<0, 0>>
      <4>1. \A i \in 1 .. 2 : i = 1 \/ i = 2
        OBVIOUS
      <4>2. bits = [i \in 1 .. 2 |-> bits[i]]
        BY <2>0 DEF Bits
      <4>3. [i \in 1 .. 2 |-> bits[i]] = [i \in 1 .. 2 |-> 0]
        BY <4>1, <3>1
      <4>4. <<0, 0>> = [i \in 1 .. 2 |-> 0]
        OBVIOUS
      <4> QED BY <4>2, <4>3, <4>4, Zenon
    <3>2. ASSUME bits = <<0, 0>> PROVE bits[1] = 0 /\ bits[2] = 0
      BY <3>2
    <3> QED BY <3>1, <3>2
  <2>3. CASE bits = <<0, 0>>
    <3>1. LengthOf("N2b", seed, bits) = -1
      BY <1>0, <1>1, <2>3 DEF LengthOf
    <3>2. ~IsExtended(Rest(bits, 2))
      <4>1. Rest(bits, 2) = <<>>
        <5>1. Rest(bits, 2) = [i \in 1 .. 0 |-> bits[i + 3 - 1]]
          <6>1. 2 - (2 + 1) + 1 = 0
            OBVIOUS
          <6>2. Rest(bits, 2) = SubSeq(bits, 3, 2)
            <7>1. 2 + 1 = 3
              OBVIOUS
            <7> QED BY <2>0, <7>1 DEF Rest
          <6> QED BY <6>1, <6>2
        <5> QED BY <5>1
      <4> QED BY <4>1 DEF IsExtended
    <3> QED BY <1>0, <1>1, <2>2, <2>3, <3>1, <3>2 DEF CodeB, Behind
  <2>4. CASE bits # <<0, 0>>
    <3>1. LengthOf("N2b", seed, bits) = 2 * bits[1] + bits[2]
      BY <1>0, <1>1, <2>4 DEF LengthOf
    <3>2. ~Behind(bits, 2, 2, v)
      BY <1>0, <1>1 DEF Behind
    <3> QED BY <1>0, <1>1, <3>1, <3>2 DEF CodeB
  <2> QED BY <2>3, <2>4
<1>2. CASE L > 2
  <2>1. SubSeq(bits, 1, 2) = <<bits[1], bits[2]>>
    <3>1. SubSeq(bits, 1, 2) = [i \in 1 .. 2 |-> bits[i]]
      <4>1. SubSeq(bits, 1, 2) = [i \in 1 .. 2 - 1 + 1 |-> bits[i + 1 - 1]]
        OBVIOUS
      <4>2. \A i \in 1 .. 2 : i + 1 - 1 = i
        OBVIOUS
      <4> QED BY <4>1, <4>2
    <3>2. PICK s : s = SubSeq(bits, 1, 2)
      OBVIOUS
    <3>3. s = <<bits[1], bits[2]>>
      <4>1. s = [i \in 1 .. 2 |-> bits[i]]
        BY <3>1, <3>2
      <4>2. [i \in 1 .. 2 |-> bits[i]] = [i \in 1 .. 2 |-> <<bits[1], bits[2]>>[i]]
        BY SMT
      <4>3. <<bits[1], bits[2]>> = [i \in 1 .. 2 |-> <<bits[1], bits[2]>>[i]]
        BY SMT
      <4> QED BY <4>1, <4>2, <4>3, Zenon
    <3> QED BY <3>2, <3>3
  <2>2. SubSeq(bits, 1, 2) = <<0, 0>> <=> \A i \in 1 .. 2 : bits[i] = 0
    <3>1. \A i \in 1 .. 2 : i = 1 \/ i = 2
      OBVIOUS
    <3> QED BY <2>1, <3>1
  <2>3. CASE SubSeq(bits, 1, 2) = <<0, 0>>
    <3>1. LengthOf("N2b", seed, bits)
             = IF IsExtended(Rest(bits, 2)) THEN Extended(Rest(bits, 2)) + 2 ELSE -1
      BY <1>0, <1>2, <2>3 DEF LengthOf, Rest
    <3> QED BY <1>0, <1>2, <2>2, <2>3, <3>1 DEF CodeB, Behind
  <2>4. CASE SubSeq(bits, 1, 2) # <<0, 0>>
    <3>1. LengthOf("N2b", seed, bits) = -1
      <4>1. Len(bits) # 2
        BY <1>0, <1>2
      <4> QED BY <4>1, <2>4, Zenon DEF LengthOf
    <3>2. ~Behind(bits, 2, 2, v)
      BY <2>2, <2>4, Zenon DEF Behind
    <3>3. Len(bits) # 2
      BY <1>0, <1>2
    <3> QED BY <3>1, <3>2, <3>3 DEF CodeB
  <2> QED BY <2>3, <2>4
<1>3. CASE L < 2
  <2>1. LengthOf("N2b", seed, bits) = -1
    <3>1. Len(bits) # 2 /\ ~(Len(bits) > 2)
      BY <1>0, <1>3
    <3> QED BY <3>1, Zenon DEF LengthOf
  <2> QED BY <1>0, <1>3, <2>1 DEF CodeB, Behind
<1> QED BY <1>0, <1>1, <1>2, <1>3

LEMMA LengthD ==
    ASSUME NEW seed \in {0, 1}, NEW bits \in Bits, NEW v \in Nat \ {0}
    PROVE  LengthOf("N2d", seed, bits) = v <=> CodeD(seed, bits, v)
<1>0. PICK L \in Nat : L = Len(bits)
  BY DEF Bits
<1>1. CASE L = 1
  <2>0. Len(bits) = 1 /\ 1 \in 1 .. Len(bits)
    BY <1>0, <1>1
  <2>1. bits[1] \in {0, 1}
    BY <2>0, BitAt
  <2>2. ~Behind(bits, 1, 2, v)
    BY <1>0, <1>1 DEF Behind
  <2>3. CASE <<seed, bits[1]>> = <<0, 0>>
    <3>1. LengthOf("N2d", seed, bits) = -1
      BY <1>0, <1>1, <2>3 DEF LengthOf
    <3>2. 2 * seed + bits[1] = 0
      BY <2>3
    <3> QED BY <1>0, <1>1, <2>2, <3>1, <3>2 DEF CodeD
  <2>4. CASE <<seed, bits[1]>> # <<0, 0>>
    <3>1. LengthOf("N2d", seed, bits) = 2 * seed + bits[1]
      BY <1>0, <1>1, <2>4 DEF LengthOf
    <3> QED BY <1>0, <1>1, <2>2, <3>1 DEF CodeD
  <2> QED BY <2>3, <2>4
<1>2. CASE L > 1
  <2>1. (\A i \in 1 .. 1 : bits[i] = 0) <=> bits[1] = 0
    OBVIOUS
  <2>3. CASE <<seed, bits[1]>> = <<0, 0>>
    <3>1. LengthOf("N2d", seed, bits)
             = IF IsExtended(Rest(bits, 1)) THEN Extended(Rest(bits, 1)) + 2 ELSE -1
      BY <1>0, <1>2, <2>3 DEF LengthOf, Rest
    <3> QED BY <1>0, <1>2, <2>1, <2>3, <3>1 DEF CodeD, Behind
  <2>4. CASE <<seed, bits[1]>> # <<0, 0>>
    <3>1. LengthOf("N2d", seed, bits) = -1
      <4>1. Len(bits) # 1
        BY <1>0, <1>2
      <4> QED BY <4>1, <2>4, Zenon DEF LengthOf
    <3>2. seed = 0 => ~Behind(bits, 1, 2, v)
      BY <2>1, <2>4 DEF Behind
    <3>3. Len(bits) # 1
      BY <1>0, <1>2
    <3> QED BY <3>1, <3>2, <3>3 DEF CodeD
  <2> QED BY <2>3, <2>4
<1>3. CASE L < 1
  <2>1. LengthOf("N2d", seed, bits) = -1
    <3>1. Len(bits) # 1 /\ ~(Len(bits) > 1)
      BY <1>0, <1>3
    <3> QED BY <3>1, Zenon DEF LengthOf
  <2> QED BY <1>0, <1>3, <2>1 DEF CodeD, Behind
<1> QED BY <1>0, <1>1, <1>2, <1>3

LEMMA LengthE ==
    ASSUME NEW seed \in {0, 1}, NEW bits \in Bits, NEW v \in Nat \ {0}
    PROVE  LengthOf("N2e", seed, bits) = v <=> CodeE(seed, bits, v)
<1>0. Len(bits) \in Nat
  BY DEF Bits
<1>1. CASE seed = 1
  <2>1. CASE Len(bits) = 1
    <3>1. LengthOf("N2e", seed, bits) = 1 + bits[1]
      BY <1>1, <2>1 DEF LengthOf
    <3> QED BY <1>1, <2>1, <3>1 DEF CodeE
  <2>2. CASE Len(bits) # 1
    <3>1. LengthOf("N2e", seed, bits) = -1
      BY <1>1, <2>2 DEF LengthOf
    <3> QED BY <1>1, <2>2, <3>1 DEF CodeE
  <2> QED BY <2>1, <2>2
<1>2. CASE seed = 0
  <2>0. (\A i \in 1 .. 1 : bits[i] = 0) <=> bits[1] = 0
    OBVIOUS
  <2>1. CASE Len(bits) <= 1
    <3>1. LengthOf("N2e", seed, bits) = -1
      BY <1>0, <1>2, <2>1 DEF LengthOf
    <3> QED BY <1>0, <1>2, <2>1, <3>1 DEF CodeE, Behind
  <2>2. CASE Len(bits) > 1
    <3>0. bits[1] \in {0, 1}
      BY <1>0, <2>2, BitAt
    <3>1. CASE bits[1] = 0
      <4>1. LengthOf("N2e", seed, bits)
               = IF IsExtended(Rest(bits, 1)) THEN Extended(Rest(bits, 1)) + 3 ELSE -1
        BY <1>2, <2>2, <3>1 DEF LengthOf, Rest
      <4> QED BY <1>2, <2>0, <2>2, <3>1, <4>1 DEF CodeE, Behind
    <3>2. CASE bits[1] = 1
      <4>1. LengthOf("N2e", seed, bits) = IF Len(bits) = 2 THEN 3 + bits[2] ELSE -1
        BY <1>2, <2>2, <3>2 DEF LengthOf
      <4> QED BY <1>2, <2>0, <2>2, <3>2, <4>1 DEF CodeE, Behind
    <3> QED BY <3>0, <3>1, <3>2
  <2> QED BY <1>0, <2>1, <2>2
<1> QED BY <1>1, <1>2

LEMMA BehindOnce ==
    ASSUME NEW b \in Bits, NEW c \in Bits, NEW n \in Nat, NEW plus \in Nat, NEW v,
           Behind(b, n, plus, v), Behind(c, n, plus, v)
    PROVE  b = c
<1>1. Len(b) \in Nat /\ Len(c) \in Nat /\ n <= Len(b) /\ n <= Len(c)
  BY DEF Bits, Behind
<1>2. Rest(b, n) \in Bits /\ Rest(c, n) \in Bits
  BY <1>1, RestIs
<1>3. PICK x, y : x = Rest(b, n) /\ y = Rest(c, n)
  OBVIOUS
<1>4. IsExtended(x) /\ IsExtended(y) /\ Extended(x) + plus = Extended(y) + plus
  BY <1>3 DEF Behind
<1>5. Extended(x) \in Nat /\ Extended(y) \in Nat
  BY <1>2, <1>3, <1>4, ExtendedType
<1>6. Extended(x) = Extended(y)
  BY <1>4, <1>5
<1>7. x = y
  BY <1>2, <1>3, <1>4, <1>6, ExtendedOnce
<1>8. \A i \in 1 .. n : b[i] = c[i]
  BY DEF Behind
<1> QED BY <1>1, <1>3, <1>7, <1>8, SameRest

LEMMA BehindLarge ==
    ASSUME NEW b \in Bits, NEW n \in Nat, NEW plus \in Nat, NEW v, Behind(b, n, plus, v)
    PROVE  v \in Nat /\ v >= 2 + plus
<1>1. n \in 0 .. Len(b)
  BY DEF Bits, Behind
<1>2. PICK x \in Bits : x = Rest(b, n)
  BY <1>1, RestIs
<1>3. IsExtended(x) /\ v = Extended(x) + plus
  BY <1>2 DEF Behind
<1>4. Extended(x) \in Nat /\ Extended(x) >= 2
  BY <1>3, ExtendedType
<1> QED BY <1>3, <1>4

LEMMA ShortBits ==
    ASSUME NEW b \in Bits, NEW n \in 1 .. 2, Len(b) = n
    PROVE  /\ b[1] \in {0, 1} /\ n = 2 => b[2] \in {0, 1}
           /\ \A c \in Bits : Len(c) = n /\ b[1] = c[1] /\ (n = 2 => b[2] = c[2]) => b = c
<1>1. b[1] \in {0, 1} /\ n = 2 => b[2] \in {0, 1}
  <2>1. 1 \in 1 .. Len(b) /\ (n = 2 => 2 \in 1 .. Len(b))
    OBVIOUS
  <2> QED BY <2>1, BitAt
<1>2. ASSUME NEW c \in Bits, Len(c) = n, b[1] = c[1], n = 2 => b[2] = c[2]
      PROVE  b = c
  <2>1. \A i \in 1 .. n : i = 1 \/ (i = 2 /\ n = 2)
    OBVIOUS
  <2>2. \A i \in 1 .. n : b[i] = c[i]
    BY <1>2, <2>1
  <2> QED BY <1>2, <2>2 DEF Bits
<1> QED BY <1>1, <1>2

Seeds(method) == IF method = "N2b" THEN {0} ELSE {0, 1}

Methods == {"N2b", "N2d", "N2e"}

(* No length has two codes, of any number of bits.                         *)
LEMMA LengthOnce ==
    ASSUME NEW method \in Methods, NEW s \in Seeds(method), NEW t \in Seeds(method),
           NEW b \in Bits, NEW c \in Bits, NEW v \in Nat \ {0},
           LengthOf(method, s, b) = v, LengthOf(method, t, c) = v
    PROVE  s = t /\ b = c
<1>1. CASE method = "N2b"
  <2>1. s = 0 /\ t = 0
    BY <1>1 DEF Seeds
  <2>2. CodeB(b, v) /\ CodeB(c, v)
    BY <1>1, LengthB
  <2>3. CASE Len(b) = 2 /\ v = 2 * b[1] + b[2] /\ Len(c) = 2 /\ v = 2 * c[1] + c[2]
    <3>1. b[1] \in {0, 1} /\ b[2] \in {0, 1} /\ c[1] \in {0, 1} /\ c[2] \in {0, 1}
      <4>1. 1 \in 1 .. 2 /\ 2 \in 1 .. 2
        OBVIOUS
      <4> QED BY <2>3, <4>1, BitAt
    <3>2. b[1] = c[1] /\ b[2] = c[2]
      BY <2>3, <3>1
    <3>3. 2 \in 1 .. 2
      OBVIOUS
    <3>4. \A d \in Bits : Len(d) = 2 /\ b[1] = d[1] /\ (2 = 2 => b[2] = d[2]) => b = d
      BY <2>3, <3>3, ShortBits
    <3> QED BY <2>1, <2>3, <3>2, <3>4
  <2>4. CASE Behind(b, 2, 2, v) /\ Behind(c, 2, 2, v)
    BY <2>1, <2>4, BehindOnce
  <2>5. ASSUME NEW d \in Bits, NEW e \in Bits,
               Len(d) = 2, v = 2 * d[1] + d[2], Behind(e, 2, 2, v)
        PROVE  FALSE
    <3>1. d[1] \in {0, 1} /\ d[2] \in {0, 1}
      <4>1. 1 \in 1 .. 2 /\ 2 \in 1 .. 2
        OBVIOUS
      <4> QED BY <2>5, <4>1, BitAt
    <3>2. v >= 2 + 2
      BY <2>5, BehindLarge
    <3> QED BY <2>5, <3>1, <3>2
  <2> QED BY <2>2, <2>3, <2>4, <2>5 DEF CodeB
<1>2. CASE method = "N2d"
  <2>1. s \in {0, 1} /\ t \in {0, 1}
    BY <1>2 DEF Seeds
  <2>2. CodeD(s, b, v) /\ CodeD(t, c, v)
    BY <1>2, <2>1, LengthD
  <2>3. CASE Len(b) = 1 /\ v = 2 * s + b[1] /\ Len(c) = 1 /\ v = 2 * t + c[1]
    <3>1. b[1] \in {0, 1} /\ c[1] \in {0, 1}
      <4>1. 1 \in 1 .. 1
        OBVIOUS
      <4> QED BY <2>3, <4>1, BitAt
    <3>2. b[1] = c[1] /\ s = t
      BY <2>1, <2>3, <3>1
    <3>3. 1 \in 1 .. 2
      OBVIOUS
    <3>4. \A d \in Bits : Len(d) = 1 /\ b[1] = d[1] /\ (1 = 2 => b[2] = d[2]) => b = d
      BY <2>3, <3>3, ShortBits
    <3> QED BY <2>3, <3>2, <3>4
  <2>4. CASE s = 0 /\ t = 0 /\ Behind(b, 1, 2, v) /\ Behind(c, 1, 2, v)
    BY <2>4, BehindOnce
  <2>5. ASSUME NEW d \in Bits, NEW e \in Bits, NEW q \in {0, 1},
               Len(d) = 1, v = 2 * q + d[1], Behind(e, 1, 2, v)
        PROVE  FALSE
    <3>1. d[1] \in {0, 1}
      <4>1. 1 \in 1 .. 1
        OBVIOUS
      <4> QED BY <2>5, <4>1, BitAt
    <3>2. v >= 2 + 2
      BY <2>5, BehindLarge
    <3> QED BY <2>5, <3>1, <3>2
  <2> QED BY <2>1, <2>2, <2>3, <2>4, <2>5 DEF CodeD
<1>3. CASE method = "N2e"
  <2>1. s \in {0, 1} /\ t \in {0, 1}
    BY <1>3 DEF Seeds
  <2>2. CodeE(s, b, v) /\ CodeE(t, c, v)
    BY <1>3, <2>1, LengthE
  <2>3. ASSUME NEW d \in Bits, Len(d) = 1, v = 1 + d[1]
        PROVE  v <= 2 /\ d[1] \in {0, 1}
    <3>1. d[1] \in {0, 1}
      <4>1. 1 \in 1 .. 1
        OBVIOUS
      <4> QED BY <2>3, <4>1, BitAt
    <3> QED BY <2>3, <3>1
  <2>4. ASSUME NEW d \in Bits, Len(d) = 2, v = 3 + d[2]
        PROVE  v \in {3, 4} /\ d[2] \in {0, 1}
    <3>1. d[2] \in {0, 1}
      <4>1. 2 \in 1 .. 2
        OBVIOUS
      <4> QED BY <2>4, <4>1, BitAt
    <3> QED BY <2>4, <3>1
  <2>5. ASSUME NEW d \in Bits, Behind(d, 1, 3, v)
        PROVE  v >= 5
    <3>1. v >= 2 + 3
      BY <2>5, BehindLarge
    <3> QED BY <3>1
  <2>6. CASE s = 1 /\ t = 1 /\ Len(b) = 1 /\ v = 1 + b[1] /\ Len(c) = 1 /\ v = 1 + c[1]
    <3>1. b[1] \in {0, 1} /\ c[1] \in {0, 1}
      BY <2>3, <2>6
    <3>2. b[1] = c[1]
      BY <2>6, <3>1
    <3>3. 1 \in 1 .. 2
      OBVIOUS
    <3>4. \A d \in Bits : Len(d) = 1 /\ b[1] = d[1] /\ (1 = 2 => b[2] = d[2]) => b = d
      BY <2>6, <3>3, ShortBits
    <3> QED BY <2>6, <3>2, <3>4
  <2>7. CASE /\ s = 0 /\ t = 0 /\ Len(b) = 2 /\ b[1] = 1 /\ v = 3 + b[2]
             /\ Len(c) = 2 /\ c[1] = 1 /\ v = 3 + c[2]
    <3>1. b[2] \in {0, 1} /\ c[2] \in {0, 1}
      BY <2>4, <2>7
    <3>2. b[2] = c[2]
      BY <2>7, <3>1
    <3>3. 2 \in 1 .. 2
      OBVIOUS
    <3>4. \A d \in Bits : Len(d) = 2 /\ b[1] = d[1] /\ (2 = 2 => b[2] = d[2]) => b = d
      BY <2>7, <3>3, ShortBits
    <3> QED BY <2>7, <3>2, <3>4
  <2>8. CASE s = 0 /\ t = 0 /\ Behind(b, 1, 3, v) /\ Behind(c, 1, 3, v)
    BY <2>8, BehindOnce
  <2>9. \/ s = 1 /\ Len(b) = 1 /\ v = 1 + b[1] /\ v <= 2
        \/ s = 0 /\ Len(b) = 2 /\ b[1] = 1 /\ v = 3 + b[2] /\ v \in {3, 4}
        \/ s = 0 /\ Behind(b, 1, 3, v) /\ v >= 5
    BY <2>2, <2>3, <2>4, <2>5 DEF CodeE
  <2>10. \/ t = 1 /\ Len(c) = 1 /\ v = 1 + c[1] /\ v <= 2
         \/ t = 0 /\ Len(c) = 2 /\ c[1] = 1 /\ v = 3 + c[2] /\ v \in {3, 4}
         \/ t = 0 /\ Behind(c, 1, 3, v) /\ v >= 5
    BY <2>2, <2>3, <2>4, <2>5 DEF CodeE
  <2> QED BY <2>6, <2>7, <2>8, <2>9, <2>10
<1> QED BY <1>1, <1>2, <1>3 DEF Methods

LEMMA RestOfTwo ==
    ASSUME NEW bits \in Bits, NEW n \in Nat, NEW tail \in Bits,
           Len(bits) = n + Len(tail), \A i \in 1 .. Len(tail) : bits[n + i] = tail[i]
    PROVE  Rest(bits, n) = tail
<1>1. Len(bits) \in Nat /\ Len(tail) \in Nat
  BY DEF Bits
<1>2. n \in 0 .. Len(bits)
  BY <1>1
<1>3. /\ Rest(bits, n) \in Bits /\ Len(Rest(bits, n)) = Len(bits) - n
      /\ \A i \in 1 .. Len(bits) - n : Rest(bits, n)[i] = bits[n + i]
  BY <1>2, RestIs
<1>4. Len(bits) - n = Len(tail)
  BY <1>1
<1> QED BY <1>3, <1>4 DEF Bits

LEMMA BehindShort ==
    ASSUME NEW a \in {0, 1}, NEW c \in {0, 1}, NEW plus \in Nat
    PROVE  /\ Behind(<<0, a, 1>>, 1, plus, 2 + a + plus)
           /\ Behind(<<0, 0, a, 1>>, 2, plus, 2 + a + plus)
           /\ Behind(<<0, a, 0, c, 1>>, 1, plus, 4 + 2 * a + c + plus)
           /\ Behind(<<0, 0, a, 0, c, 1>>, 2, plus, 4 + 2 * a + c + plus)
<1>0. (\A i \in 1 .. 1 : i = 1) /\ (\A i \in 1 .. 2 : i = 1 \/ i = 2)
      /\ (\A i \in 1 .. 4 : i = 1 \/ i = 2 \/ i = 3 \/ i = 4)
  OBVIOUS
<1>1. PICK x : x = <<a, 1>>
  OBVIOUS
<1>2. x \in Bits /\ Len(x) = 2 /\ IsExtended(x) /\ Extended(x) = 2 + a
  BY <1>1, OneRound
<1>3. PICK y : y = <<a, 0, c, 1>>
  OBVIOUS
<1>4. y \in Bits /\ Len(y) = 4 /\ IsExtended(y) /\ Extended(y) = 4 + 2 * a + c
  BY <1>3, TwoRounds
<1>5. Behind(<<0, a, 1>>, 1, plus, 2 + a + plus)
  <2>1. PICK b : b = <<0, a, 1>>
    OBVIOUS
  <2>2. b \in Bits /\ Len(b) = 3 /\ b[1] = 0 /\ b[2] = a /\ b[3] = 1
    BY <2>1 DEF Bits
  <2>3. Len(b) = 1 + Len(x) /\ \A i \in 1 .. Len(x) : b[1 + i] = x[i]
    BY <1>0, <1>1, <1>2, <2>2
  <2>4. Rest(b, 1) = x
    BY <1>2, <2>2, <2>3, RestOfTwo
  <2>5. Len(b) > 1 /\ \A i \in 1 .. 1 : b[i] = 0
    BY <1>0, <2>2
  <2> QED BY <1>2, <2>1, <2>4, <2>5 DEF Behind
<1>6. Behind(<<0, 0, a, 1>>, 2, plus, 2 + a + plus)
  <2>1. PICK b : b = <<0, 0, a, 1>>
    OBVIOUS
  <2>2. b \in Bits /\ Len(b) = 4 /\ b[1] = 0 /\ b[2] = 0 /\ b[3] = a /\ b[4] = 1
    BY <2>1 DEF Bits
  <2>3. Len(b) = 2 + Len(x) /\ \A i \in 1 .. Len(x) : b[2 + i] = x[i]
    BY <1>0, <1>1, <1>2, <2>2
  <2>4. Rest(b, 2) = x
    BY <1>2, <2>2, <2>3, RestOfTwo
  <2>5. Len(b) > 2 /\ \A i \in 1 .. 2 : b[i] = 0
    BY <1>0, <2>2
  <2> QED BY <1>2, <2>1, <2>4, <2>5 DEF Behind
<1>7. Behind(<<0, a, 0, c, 1>>, 1, plus, 4 + 2 * a + c + plus)
  <2>1. PICK b : b = <<0, a, 0, c, 1>>
    OBVIOUS
  <2>2. b \in Bits /\ Len(b) = 5 /\ b[1] = 0 /\ b[2] = a /\ b[3] = 0 /\ b[4] = c /\ b[5] = 1
    BY <2>1 DEF Bits
  <2>3. Len(b) = 1 + Len(y) /\ \A i \in 1 .. Len(y) : b[1 + i] = y[i]
    BY <1>0, <1>3, <1>4, <2>2
  <2>4. Rest(b, 1) = y
    BY <1>4, <2>2, <2>3, RestOfTwo
  <2>5. Len(b) > 1 /\ \A i \in 1 .. 1 : b[i] = 0
    BY <1>0, <2>2
  <2> QED BY <1>4, <2>1, <2>4, <2>5 DEF Behind
<1>8. Behind(<<0, 0, a, 0, c, 1>>, 2, plus, 4 + 2 * a + c + plus)
  <2>1. PICK b : b = <<0, 0, a, 0, c, 1>>
    OBVIOUS
  <2>2. b \in Bits /\ Len(b) = 6 /\ b[1] = 0 /\ b[2] = 0 /\ b[3] = a /\ b[4] = 0 /\ b[5] = c /\ b[6] = 1
    BY <2>1 DEF Bits
  <2>3. Len(b) = 2 + Len(y) /\ \A i \in 1 .. Len(y) : b[2 + i] = y[i]
    BY <1>0, <1>3, <1>4, <2>2
  <2>4. Rest(b, 2) = y
    BY <1>4, <2>2, <2>3, RestOfTwo
  <2>5. Len(b) > 2 /\ \A i \in 1 .. 2 : b[i] = 0
    BY <1>0, <2>2
  <2> QED BY <1>4, <2>1, <2>4, <2>5 DEF Behind
<1> QED BY <1>5, <1>6, <1>7, <1>8

LEMMA ShortStrings ==
    ASSUME NEW a \in {0, 1}, NEW b \in {0, 1}, NEW c \in {0, 1}, NEW d \in {0, 1}, NEW e \in {0, 1},
           NEW f \in {0, 1}
    PROVE  {<<a>>, <<a, b>>, <<a, b, c>>, <<a, b, c, d>>, <<a, b, c, d, e>>, <<a, b, c, d, e, f>>}
              \subseteq BitStrings \cap Bits
<1>1. /\ <<a>> \in [1 .. 1 -> {0, 1}] /\ <<a, b>> \in [1 .. 2 -> {0, 1}]
      /\ <<a, b, c>> \in [1 .. 3 -> {0, 1}] /\ <<a, b, c, d>> \in [1 .. 4 -> {0, 1}]
      /\ <<a, b, c, d, e>> \in [1 .. 5 -> {0, 1}] /\ <<a, b, c, d, e, f>> \in [1 .. 6 -> {0, 1}]
  OBVIOUS
<1>2. \A n \in 0 .. 6 : [1 .. n -> {0, 1}] \subseteq BitStrings
  BY DEF BitStrings, BoundedSeq, SeqOf
<1>3. \A n \in 0 .. 6 : [1 .. n -> {0, 1}] \subseteq Bits
  BY DEF Bits
<1>4. 1 \in 0 .. 6 /\ 2 \in 0 .. 6 /\ 3 \in 0 .. 6 /\ 4 \in 0 .. 6 /\ 5 \in 0 .. 6 /\ 6 \in 0 .. 6
  OBVIOUS
<1> QED BY <1>1, <1>2, <1>3, <1>4

(* The first seven lengths have a code of no more than six bits.           *)
LEMMA ShortLengths ==
    ASSUME NEW method \in Methods, NEW v \in 1 .. 7
    PROVE  \E s \in Seeds(method), bits \in BitStrings : LengthOf(method, s, bits) = v
<1>0. 0 \in {0, 1} /\ 1 \in {0, 1} /\ v \in Nat \ {0}
  OBVIOUS
<1>1. CASE method = "N2b"
  <2> SUFFICES \E bits \in BitStrings \cap Bits : CodeB(bits, v)
    <3>1. \A bits \in BitStrings \cap Bits : CodeB(bits, v) => LengthOf(method, 0, bits) = v
      BY <1>0, <1>1, LengthB
    <3>2. 0 \in Seeds(method)
      BY <1>1 DEF Seeds
    <3> QED BY <3>1, <3>2
  <2>1. CASE v \in 1 .. 3
    <3>1. PICK a \in {0, 1}, b \in {0, 1} : v = 2 * a + b
      <4>1. v \div 2 \in {0, 1} /\ v % 2 \in {0, 1} /\ v = 2 * (v \div 2) + (v % 2)
        BY <2>1
      <4> QED BY <4>1
    <3>2. <<a, b>> \in BitStrings \cap Bits
      BY <1>0, ShortStrings
    <3>3. CodeB(<<a, b>>, v)
      BY <3>1 DEF CodeB
    <3> QED BY <3>2, <3>3
  <2>2. CASE v \in 4 .. 5
    <3>1. PICK a \in {0, 1} : v = 2 + a + 2
      <4>1. v - 4 \in {0, 1} /\ v = 2 + (v - 4) + 2
        BY <2>2
      <4> QED BY <4>1
    <3>2. <<0, 0, a, 1>> \in BitStrings \cap Bits
      BY <1>0, ShortStrings
    <3>3. CodeB(<<0, 0, a, 1>>, v)
      BY <3>1, BehindShort DEF CodeB
    <3> QED BY <3>2, <3>3
  <2>3. CASE v \in 6 .. 7
    <3>1. PICK c \in {0, 1} : v = 4 + 2 * 0 + c + 2
      <4>1. v - 6 \in {0, 1} /\ v = 4 + 2 * 0 + (v - 6) + 2
        BY <2>3
      <4> QED BY <4>1
    <3>2. <<0, 0, 0, 0, c, 1>> \in BitStrings \cap Bits
      BY <1>0, ShortStrings
    <3>3. CodeB(<<0, 0, 0, 0, c, 1>>, v)
      BY <1>0, <3>1, BehindShort DEF CodeB
    <3> QED BY <3>2, <3>3
  <2> QED BY <2>1, <2>2, <2>3
<1>2. CASE method = "N2d"
  <2> SUFFICES \E s \in {0, 1}, bits \in BitStrings \cap Bits : CodeD(s, bits, v)
    <3>1. \A s \in {0, 1}, bits \in BitStrings \cap Bits : CodeD(s, bits, v) => LengthOf(method, s, bits) = v
      BY <1>0, <1>2, LengthD
    <3>2. Seeds(method) = {0, 1}
      BY <1>2 DEF Seeds
    <3> QED BY <3>1, <3>2
  <2>1. CASE v \in 1 .. 3
    <3>1. PICK a \in {0, 1}, b \in {0, 1} : v = 2 * a + b
      <4>1. v \div 2 \in {0, 1} /\ v % 2 \in {0, 1} /\ v = 2 * (v \div 2) + (v % 2)
        BY <2>1
      <4> QED BY <4>1
    <3>2. <<b>> \in BitStrings \cap Bits
      BY <1>0, ShortStrings
    <3>3. CodeD(a, <<b>>, v)
      BY <3>1 DEF CodeD
    <3> QED BY <3>2, <3>3
  <2>2. CASE v \in 4 .. 5
    <3>1. PICK a \in {0, 1} : v = 2 + a + 2
      <4>1. v - 4 \in {0, 1} /\ v = 2 + (v - 4) + 2
        BY <2>2
      <4> QED BY <4>1
    <3>2. <<0, a, 1>> \in BitStrings \cap Bits
      BY <1>0, ShortStrings
    <3>3. CodeD(0, <<0, a, 1>>, v)
      BY <3>1, BehindShort DEF CodeD
    <3> QED BY <1>0, <3>2, <3>3
  <2>3. CASE v \in 6 .. 7
    <3>1. PICK c \in {0, 1} : v = 4 + 2 * 0 + c + 2
      <4>1. v - 6 \in {0, 1} /\ v = 4 + 2 * 0 + (v - 6) + 2
        BY <2>3
      <4> QED BY <4>1
    <3>2. <<0, 0, 0, c, 1>> \in BitStrings \cap Bits
      BY <1>0, ShortStrings
    <3>3. CodeD(0, <<0, 0, 0, c, 1>>, v)
      BY <1>0, <3>1, BehindShort DEF CodeD
    <3> QED BY <1>0, <3>2, <3>3
  <2> QED BY <2>1, <2>2, <2>3
<1>3. CASE method = "N2e"
  <2> SUFFICES \E s \in {0, 1}, bits \in BitStrings \cap Bits : CodeE(s, bits, v)
    <3>1. \A s \in {0, 1}, bits \in BitStrings \cap Bits : CodeE(s, bits, v) => LengthOf(method, s, bits) = v
      BY <1>0, <1>3, LengthE
    <3>2. Seeds(method) = {0, 1}
      BY <1>3 DEF Seeds
    <3> QED BY <3>1, <3>2
  <2>1. CASE v \in 1 .. 2
    <3>1. PICK b \in {0, 1} : v = 1 + b
      <4>1. v - 1 \in {0, 1} /\ v = 1 + (v - 1)
        BY <2>1
      <4> QED BY <4>1
    <3>2. <<b>> \in BitStrings \cap Bits
      BY <1>0, ShortStrings
    <3>3. CodeE(1, <<b>>, v)
      BY <3>1 DEF CodeE
    <3> QED BY <1>0, <3>2, <3>3
  <2>2. CASE v \in 3 .. 4
    <3>1. PICK b \in {0, 1} : v = 3 + b
      <4>1. v - 3 \in {0, 1} /\ v = 3 + (v - 3)
        BY <2>2
      <4> QED BY <4>1
    <3>2. <<1, b>> \in BitStrings \cap Bits
      BY <1>0, ShortStrings
    <3>3. CodeE(0, <<1, b>>, v)
      BY <3>1 DEF CodeE
    <3> QED BY <1>0, <3>2, <3>3
  <2>3. CASE v \in 5 .. 6
    <3>1. PICK a \in {0, 1} : v = 2 + a + 3
      <4>1. v - 5 \in {0, 1} /\ v = 2 + (v - 5) + 3
        BY <2>3
      <4> QED BY <4>1
    <3>2. <<0, a, 1>> \in BitStrings \cap Bits
      BY <1>0, ShortStrings
    <3>3. CodeE(0, <<0, a, 1>>, v)
      BY <3>1, BehindShort DEF CodeE
    <3> QED BY <1>0, <3>2, <3>3
  <2>4. CASE v = 7
    <3>1. v = 4 + 2 * 0 + 0 + 3
      BY <2>4
    <3>2. <<0, 0, 0, 0, 1>> \in BitStrings \cap Bits
      BY <1>0, ShortStrings
    <3>3. CodeE(0, <<0, 0, 0, 0, 1>>, v)
      BY <1>0, <3>1, BehindShort DEF CodeE
    <3> QED BY <1>0, <3>2, <3>3
  <2> QED BY <2>1, <2>2, <2>3, <2>4
<1> QED BY <1>1, <1>2, <1>3 DEF Methods

(* No offset has two codes, of any number of bits.                         *)
LEMMA OffsetHasOne ==
    ASSUME NEW method \in Methods, NEW b \in Bits, NEW c \in Bits, NEW v \in Nat,
           OffsetOf(method, b) = v, OffsetOf(method, c) = v
    PROVE  b = c
<1>1. CASE method = "N2b"
  <2>1. ASSUME NEW d \in Bits, OffsetOf(method, d) = v PROVE IsExtended(d) /\ Extended(d) = v
    <3>1. OffsetOf(method, d) = IF IsExtended(d) THEN Extended(d) ELSE -1
      BY <1>1 DEF OffsetOf
    <3>2. v # -1
      OBVIOUS
    <3> QED BY <2>1, <3>1, <3>2
  <2> QED BY <2>1, ExtendedOnce
<1>2. CASE method \in {"N2d", "N2e"}
  <2>1. ASSUME NEW d \in Bits, OffsetOf(method, d) = v PROVE IsOffset(d)
    <3>1. ~IsOffset(d) => OffsetOf(method, d) = -1
      BY <1>2 DEF OffsetOf, IsOffset
    <3>2. v # -1
      OBVIOUS
    <3> QED BY <2>1, <3>1, <3>2
  <2>2. IsOffset(b) /\ IsOffset(c) /\ OffsetOf(method, b) = OffsetOf(method, c)
    BY <2>1
  <2> QED BY <1>2, <2>2, OffsetOnce
<1> QED BY <1>1, <1>2 DEF Methods

LEMMA ShortOffsets ==
    ASSUME NEW method \in Methods, NEW v \in 2 .. 9
    PROVE  \E bits \in BitStrings \cap Bits : OffsetOf(method, bits) = v
<1>0. 0 \in {0, 1} /\ 1 \in {0, 1}
  OBVIOUS
<1>1. CASE v \in 2 .. 3
  <2>1. PICK a \in {0, 1} : v = 2 + a
    <3>1. v - 2 \in {0, 1} /\ v = 2 + (v - 2)
      BY <1>1
    <3> QED BY <3>1
  <2>2. <<a, 1>> \in BitStrings \cap Bits
    BY <1>0, ShortStrings
  <2>3. OffsetOf("N2b", <<a, 1>>) = v
    BY <2>1, OneRound DEF OffsetOf
  <2>4. method \in {"N2d", "N2e"} => OffsetOf(method, <<a, 1>>) = v
    BY <2>1, OneOffset
  <2> QED BY <2>2, <2>3, <2>4 DEF Methods
<1>2. CASE method = "N2b" /\ v \in 4 .. 9
  <2>1. CASE v \in 4 .. 7
    <3>1. PICK a \in {0, 1}, c \in {0, 1} : v = 4 + 2 * a + c
      <4>1. (v - 4) \div 2 \in {0, 1} /\ v % 2 \in {0, 1} /\ v = 4 + 2 * ((v - 4) \div 2) + (v % 2)
        BY <2>1
      <4> QED BY <4>1
    <3>2. <<a, 0, c, 1>> \in BitStrings \cap Bits
      BY <1>0, ShortStrings
    <3>3. OffsetOf(method, <<a, 0, c, 1>>) = v
      BY <1>2, <3>1, TwoRounds DEF OffsetOf
    <3> QED BY <3>2, <3>3
  <2>2. CASE v \in 8 .. 9
    <3>1. PICK d \in {0, 1} : v = 8 + 4 * 0 + 2 * 0 + d
      <4>1. v - 8 \in {0, 1} /\ v = 8 + 4 * 0 + 2 * 0 + (v - 8)
        BY <2>2
      <4> QED BY <4>1
    <3>2. <<0, 0, 0, 0, d, 1>> \in BitStrings \cap Bits
      BY <1>0, ShortStrings
    <3>3. OffsetOf(method, <<0, 0, 0, 0, d, 1>>) = v
      BY <1>0, <1>2, <3>1, ThreeRounds DEF OffsetOf
    <3> QED BY <3>2, <3>3
  <2> QED BY <1>2, <2>1, <2>2
<1>3. CASE method \in {"N2d", "N2e"} /\ v \in 4 .. 9
  <2>1. PICK a \in {0, 1}, c \in {0, 1}, d \in {0, 1} : v = 4 + 4 * a + 2 * c + d
    <3>1. CASE v \in 4 .. 7
      <4>1. /\ (v - 4) \div 2 \in {0, 1} /\ v % 2 \in {0, 1}
            /\ v = 4 + 4 * 0 + 2 * ((v - 4) \div 2) + (v % 2)
        BY <3>1
      <4> QED BY <1>0, <4>1
    <3>2. CASE v \in 8 .. 9
      <4>1. v - 8 \in {0, 1} /\ v = 4 + 4 * 1 + 2 * 0 + (v - 8)
        BY <3>2
      <4> QED BY <1>0, <4>1
    <3> QED BY <1>3, <3>1, <3>2
  <2>2. <<a, 0, c, d, 1>> \in BitStrings \cap Bits
    BY <1>0, ShortStrings
  <2>3. OffsetOf(method, <<a, 0, c, d, 1>>) = v
    BY <1>3, <2>1, TwoOffsets
  <2> QED BY <2>2, <2>3
<1> QED BY <1>1, <1>2, <1>3 DEF Methods

LEMMA BitStringsAre == BitStrings \subseteq Bits
<1>1. \A n \in 0 .. 6 : [1 .. n -> {0, 1}] \subseteq Bits
  BY DEF Bits
<1> QED BY <1>1 DEF BitStrings, BoundedSeq, SeqOf

LEMMA OneLengthCode ==
    ASSUME NEW method \in Methods, NEW v \in 1 .. 7
    PROVE  Cardinality({code \in Seeds(method) \X BitStrings :
                          LengthOf(method, code[1], code[2]) = v}) = 1
<1> DEFINE X == {code \in Seeds(method) \X BitStrings : LengthOf(method, code[1], code[2]) = v}
<1>1. PICK s \in Seeds(method), bits \in BitStrings : LengthOf(method, s, bits) = v
  BY ShortLengths
<1>2. \A code \in X : code = <<s, bits>>
  <2> SUFFICES ASSUME NEW code \in X PROVE code = <<s, bits>>
    OBVIOUS
  <2>1. /\ code[1] \in Seeds(method) /\ code[2] \in BitStrings /\ code = <<code[1], code[2]>>
        /\ LengthOf(method, code[1], code[2]) = v
    OBVIOUS
  <2>2. code[2] \in Bits /\ bits \in Bits /\ v \in Nat \ {0}
    BY <2>1, BitStringsAre
  <2>3. code[1] = s /\ code[2] = bits
    BY <1>1, <2>1, <2>2, LengthOnce
  <2> QED BY <2>1, <2>3
<1>3. X = {<<s, bits>>}
  <2>1. <<s, bits>> \in X
    BY <1>1
  <2> HIDE DEF X
  <2> QED BY <1>2, <2>1
<1>4. Cardinality({<<s, bits>>}) = 1
  BY FS_Singleton
<1> QED BY <1>3, <1>4

LEMMA OneOffsetCode ==
    ASSUME NEW method \in Methods, NEW v \in 2 .. 9
    PROVE  Cardinality({bits \in BitStrings : OffsetOf(method, bits) = v}) = 1
<1> DEFINE X == {bits \in BitStrings : OffsetOf(method, bits) = v}
<1>1. PICK w \in BitStrings \cap Bits : OffsetOf(method, w) = v
  BY ShortOffsets
<1>2. \A bits \in X : bits = w
  <2> SUFFICES ASSUME NEW bits \in BitStrings, OffsetOf(method, bits) = v PROVE bits = w
    OBVIOUS
  <2>1. bits \in Bits /\ v \in Nat
    BY BitStringsAre
  <2> QED BY <1>1, <2>1, OffsetHasOne
<1>3. X = {w}
  <2>1. w \in X
    BY <1>1
  <2> HIDE DEF X
  <2> QED BY <1>2, <2>1
<1>4. Cardinality({w}) = 1
  BY FS_Singleton
<1> QED BY <1>3, <1>4

LEMMA AbcCopied ==
    ASSUME NEW offset \in 1 .. 3, NEW n \in 1 .. 5, NEW k \in 1 .. n
    PROVE  Copied(<<"a", "b", "c">>, offset, n)[3 + k] = <<"a", "b", "c">>[4 - offset + ((k - 1) % offset)]
<1>1. PICK out : out = <<"a", "b", "c">>
  OBVIOUS
<1>2. out \in Seq({"a", "b", "c"}) /\ Len(out) = 3
  BY <1>1
<1>3. offset \in 1 .. Len(out) /\ n \in Nat
  BY <1>2
<1>4. CopiedAs(Copied(out, offset, n), out, offset, n)
  BY <1>2, <1>3, CopiedRepeats
<1>5. Copied(out, offset, n)[Len(out) + k] = out[Len(out) + 1 - offset + ((k - 1) % offset)]
  BY <1>4 DEF CopiedAs
<1>6. Len(out) + 1 - offset = 4 - offset
  BY <1>2
<1> QED BY <1>1, <1>2, <1>5, <1>6

FileKnown == phase \in {"header", "decode"} => file \in Files

LEMMA FileKnownStep == FileKnown /\ [Next]_vars => FileKnown'
<1> SUFFICES ASSUME FileKnown, [Next]_vars PROVE FileKnown'
  OBVIOUS
<1>1. CASE UpxNext
  <2>1. CASE FindHeader
    BY <2>1 DEF FindHeader, Fail, Go, FileKnown
  <2>2. CASE Decode
    BY <2>2 DEF Decode, Fail, Go, FileKnown
  <2>3. CASE Unfilter
    BY <2>3 DEF Unfilter, Fail, Go, FileKnown
  <2>4. CASE BeginImports
    BY <2>4 DEF BeginImports, Go, FileKnown
  <2>5. CASE RebuildDll
    BY <2>5 DEF RebuildDll, FileKnown
  <2>6. CASE BeginRelocs
    BY <2>6 DEF BeginRelocs, Go, FileKnown
  <2>7. CASE DecodeDelta
    BY <2>7 DEF DecodeDelta, Fail, Go, FileKnown
  <2>8. CASE BuildBlocks
    BY <2>8 DEF BuildBlocks, Go, FileKnown
  <2>9. CASE BeginResources
    BY <2>9 DEF BeginResources, Go, FileKnown
  <2>10. CASE BuildNode
    BY <2>10 DEF BuildNode, Fail, Go, FileKnown
  <2>11. CASE PhaseDone
    BY <2>11 DEF PhaseDone, PhaseOver, Go, FileKnown
  <2>12. CASE Assemble
    <3>1. \E table \in SectionTables : phase' \in {"failed", "done"}
      BY <2>12 DEF Assemble, Go
    <3> QED BY <3>1 DEF FileKnown
  <2> QED
    BY <1>1, <2>1, <2>2, <2>3, <2>4, <2>5, <2>6, <2>7, <2>8, <2>9, <2>10, <2>11, <2>12 DEF UpxNext
<1>2. CASE StartUpx
  BY <1>2, Zenon DEF StartUpx, BeginUpx, Go, FileKnown
<1>3. CASE UpxReturns
  BY <1>3 DEF UpxReturns, FileKnown
<1>4. CASE UNCHANGED upxVars
  BY <1>4 DEF upxVars, FileKnown
<1> QED
  BY <1>1, <1>2, <1>3, <1>4, Zenon DEF Next, vars, StartDump, DumpReturns

LEMMA CodesOfAll == FileKnown => EveryMatchHasOneCode
<1> SUFFICES ASSUME FileKnown, phase = "decode", file.method # "lzma"
             PROVE  EveryMatchHasOneCode
  BY DEF EveryMatchHasOneCode
<1>1. PICK method \in Methods : method = file.method
  <2>1. file.method \in {"N2b", "N2d", "N2e", "lzma"}
    BY DEF FileKnown, Files
  <2> QED BY <2>1 DEF Methods
<1>2. \A len \in 1 .. 7 :
         Cardinality({code \in (IF file.method = "N2b" THEN {0} ELSE {0, 1}) \X BitStrings :
                         LengthOf(file.method, code[1], code[2]) = len}) = 1
  BY <1>1, OneLengthCode DEF Seeds
<1>3. \A offset \in 2 .. 9 :
         Cardinality({bits \in BitStrings : OffsetOf(file.method, bits) = offset}) = 1
  BY <1>1, OneOffsetCode
<1>4. \A offset \in 1 .. 3, n \in 1 .. 5 : \A k \in 1 .. n :
         Copied(<<"a", "b", "c">>, offset, n)[3 + k] = <<"a", "b", "c">>[4 - offset + ((k - 1) % offset)]
  BY AbcCopied
<1> QED BY <1>2, <1>3, <1>4 DEF EveryMatchHasOneCode

\* Every offset and every length has one code, whatever the method.  That none
\* has two holds of codes of any length (LengthOnce, OffsetHasOne): two walks
\* over the bits that end at one number go back through the same bits to 1 at
\* the same time.  What a match copies repeats the last bytes, whatever its
\* offset and its length (CopiedRepeats).  (nrv.rs)
THEOREM CodesAreUnique == Spec => []EveryMatchHasOneCode
<1>1. Init => FileKnown
  BY DEF Init, UpxInit, FileKnown
<1> QED
  BY <1>1, FileKnownStep, CodesOfAll, PTL DEF Spec

-----------------------------------------------------------------------------
LEMMA JoinedIs ==
    ASSUME NEW S, NEW s \in Seq(S), NEW t \in Seq(S)
    PROVE  /\ s \o t \in Seq(S) /\ Len(s \o t) = Len(s) + Len(t)
           /\ \A i \in 1 .. Len(s) : (s \o t)[i] = s[i]
           /\ \A i \in 1 .. Len(t) : (s \o t)[Len(s) + i] = t[i]
OBVIOUS

-----------------------------------------------------------------------------
(* The order of the relocations *)

Entries == Nat \X (Nat \ {0})

Sorting(p, s, n) ==
    /\ p \in [1 .. n -> 1 .. n]
    /\ \A i \in 1 .. n : \E k \in 1 .. n : p[k] = i
    /\ \A i, j \in 1 .. n : i <= j => NotAfter(s[p[i]], s[p[j]])

LEMMA NotAfterOrders ==
    ASSUME NEW a \in Entries, NEW b \in Entries, NEW c \in Entries
    PROVE  /\ NotAfter(a, a)
           /\ NotAfter(a, b) \/ NotAfter(b, a)
           /\ NotAfter(a, b) /\ NotAfter(b, c) => NotAfter(a, c)
           /\ NotAfter(a, b) => a[1] <= b[1]
<1>1. /\ a[1] \in Int /\ a[2] \in Int /\ b[1] \in Int /\ b[2] \in Int
      /\ c[1] \in Int /\ c[2] \in Int
  BY DEF Entries
<1>2. PICK u \in Int, v \in Int, w \in Int, x \in Int, y \in Int, z \in Int :
        u = a[1] /\ v = a[2] /\ w = b[1] /\ x = b[2] /\ y = c[1] /\ z = c[2]
  BY <1>1
<1>3. /\ NotAfter(a, a) <=> (u < u \/ (u = u /\ v <= v))
      /\ NotAfter(a, b) <=> (u < w \/ (u = w /\ v <= x))
      /\ NotAfter(b, a) <=> (w < u \/ (w = u /\ x <= v))
      /\ NotAfter(b, c) <=> (w < y \/ (w = y /\ x <= z))
      /\ NotAfter(a, c) <=> (u < y \/ (u = y /\ v <= z))
  BY <1>2, Zenon DEF NotAfter
<1>4. a[1] <= b[1] <=> u <= w
  BY <1>2
<1>5. NotAfter(a, a)
  <2>1. u < u \/ (u = u /\ v <= v)
    OBVIOUS
  <2> QED BY <1>3, <2>1, Zenon
<1>6. NotAfter(a, b) \/ NotAfter(b, a)
  <2>1. (u < w \/ (u = w /\ v <= x)) \/ (w < u \/ (w = u /\ x <= v))
    OBVIOUS
  <2> QED BY <1>3, <2>1, Zenon
<1>7. ASSUME NotAfter(a, b), NotAfter(b, c) PROVE NotAfter(a, c)
  <2>1. u < w \/ (u = w /\ v <= x)
    BY <1>3, <1>7, Zenon
  <2>2. w < y \/ (w = y /\ x <= z)
    BY <1>3, <1>7, Zenon
  <2>3. u < y \/ (u = y /\ v <= z)
    BY <2>1, <2>2
  <2> QED BY <1>3, <2>3, Zenon
<1>8. ASSUME NotAfter(a, b) PROVE a[1] <= b[1]
  <2>1. u < w \/ (u = w /\ v <= x)
    BY <1>3, <1>8, Zenon
  <2> QED BY <1>4, <2>1
<1> QED BY <1>5, <1>6, <1>7, <1>8, Zenon

\* The next element goes before the first that comes after it
LEMMA SortOneMore ==
    ASSUME NEW s \in Seq(Entries), NEW n \in Nat, n + 1 <= Len(s), NEW p, Sorting(p, s, n)
    PROVE  \E q : Sorting(q, s, n + 1)
<1> DEFINE e == s[n + 1]
           After == {k \in 1 .. n : ~NotAfter(s[p[k]], e)}
<1>1. \A i \in 1 .. n + 1 : s[i] \in Entries
  OBVIOUS
<1>2. \A k \in 1 .. n : p[k] \in 1 .. n /\ s[p[k]] \in Entries
  <2>1. \A k \in 1 .. n : p[k] \in 1 .. n
    BY DEF Sorting
  <2>2. \A k \in 1 .. n : k \in 1 .. n + 1
    OBVIOUS
  <2> QED BY <1>1, <2>1, <2>2
<1>3. PICK c \in 1 .. n + 1 : /\ \A k \in 1 .. c - 1 : NotAfter(s[p[k]], e)
                              /\ \A k \in c .. n : NotAfter(e, s[p[k]])
  <2>1. CASE After = {}
    <3>1. \A k \in 1 .. (n + 1) - 1 : NotAfter(s[p[k]], e)
      <4>1. \A k \in 1 .. (n + 1) - 1 : k \in 1 .. n
        OBVIOUS
      <4> QED BY <2>1, <4>1
    <3>2. n + 1 \in 1 .. n + 1 /\ \A k \in n + 1 .. n : FALSE
      OBVIOUS
    <3> QED BY <3>1, <3>2
  <2>2. CASE After # {}
    <3>1. PICK c \in After : \A k \in After : c <= k
      <4>1. 1 \in Int /\ After \in SUBSET Int /\ \A m \in After : 1 <= m
        OBVIOUS
      <4> HIDE DEF After
      <4> QED BY <2>2, <4>1, Least
    <3>2. c \in 1 .. n /\ ~NotAfter(s[p[c]], e)
      BY <3>1
    <3>3. ASSUME NEW k \in 1 .. c - 1 PROVE NotAfter(s[p[k]], e)
      <4>1. k \in 1 .. n /\ ~(c <= k)
        BY <3>2
      <4> QED BY <3>1, <4>1
    <3>4. ASSUME NEW k \in c .. n PROVE NotAfter(e, s[p[k]])
      <4>1. k \in 1 .. n /\ c <= k
        BY <3>2
      <4>2. NotAfter(s[p[c]], s[p[k]])
        BY <3>2, <4>1 DEF Sorting
      <4>3. e \in Entries /\ s[p[c]] \in Entries /\ s[p[k]] \in Entries
        BY <1>1, <1>2, <3>2, <4>1
      <4>4. NotAfter(e, s[p[c]])
        BY <3>2, <4>3, NotAfterOrders
      <4> HIDE DEF e
      <4> QED BY <4>2, <4>3, <4>4, NotAfterOrders
    <3>5. c \in 1 .. n + 1
      BY <3>2
    <3> QED BY <3>3, <3>4, <3>5
  <2> QED BY <2>1, <2>2
<1> DEFINE q == [k \in 1 .. n + 1 |-> IF k < c THEN p[k] ELSE IF k = c THEN n + 1 ELSE p[k - 1]]
<1> HIDE DEF After
<1>4. \A k \in 1 .. n + 1 :
         /\ k < c => k \in 1 .. n /\ k \in 1 .. c - 1 /\ q[k] = p[k]
         /\ k = c => q[k] = n + 1
         /\ k > c => k - 1 \in 1 .. n /\ k - 1 \in c .. n /\ q[k] = p[k - 1]
  OBVIOUS
<1>5. q \in [1 .. n + 1 -> 1 .. n + 1]
  <2>1. \A k \in 1 .. n : p[k] \in 1 .. n + 1
    BY <1>2
  <2>2. n + 1 \in 1 .. n + 1
    OBVIOUS
  <2>3. \A k \in 1 .. n + 1 : q[k] \in 1 .. n + 1
    BY <1>4, <2>1, <2>2
  <2>4. q = [k \in 1 .. n + 1 |-> q[k]]
    OBVIOUS
  <2> HIDE DEF q
  <2> QED BY <2>3, <2>4
<1> HIDE DEF q
<1>6. ASSUME NEW i \in 1 .. n + 1 PROVE \E k \in 1 .. n + 1 : q[k] = i
  <2>1. CASE i = n + 1
    BY <1>4, <2>1
  <2>2. CASE i \in 1 .. n
    <3>1. PICK k \in 1 .. n : p[k] = i
      BY <2>2 DEF Sorting
    <3>2. CASE k < c
      <4>1. k \in 1 .. n + 1
        OBVIOUS
      <4> QED BY <1>4, <3>1, <3>2, <4>1
    <3>3. CASE k >= c
      <4>1. k + 1 \in 1 .. n + 1 /\ k + 1 > c /\ (k + 1) - 1 = k
        BY <3>3
      <4> QED BY <1>4, <3>1, <4>1
    <3> QED BY <3>2, <3>3
  <2> QED BY <2>1, <2>2
<1>7. ASSUME NEW i \in 1 .. n + 1, NEW j \in 1 .. n + 1, i <= j
      PROVE  NotAfter(s[q[i]], s[q[j]])
  <2>1. e \in Entries
    BY <1>1
  <2>2. CASE i < c /\ j < c
    BY <1>4, <1>7, <2>2 DEF Sorting
  <2>3. CASE i < c /\ j = c
    BY <1>3, <1>4, <2>3
  <2>4. CASE i < c /\ j > c
    <3>1. i \in 1 .. n /\ j - 1 \in 1 .. n /\ i <= j - 1 /\ q[i] = p[i] /\ q[j] = p[j - 1]
      BY <1>4, <2>4
    <3> QED BY <3>1 DEF Sorting
  <2>5. CASE i = c /\ j = c
    <3>1. s[q[i]] = e /\ s[q[j]] = e
      BY <1>4, <2>5
    <3> HIDE DEF e
    <3> QED BY <2>1, <3>1, NotAfterOrders
  <2>6. CASE i = c /\ j > c
    BY <1>3, <1>4, <2>6
  <2>7. CASE i > c /\ j > c
    <3>1. i - 1 \in 1 .. n /\ j - 1 \in 1 .. n /\ i - 1 <= j - 1 /\ q[i] = p[i - 1] /\ q[j] = p[j - 1]
      BY <1>4, <1>7, <2>7
    <3> QED BY <3>1 DEF Sorting
  <2> QED BY <1>7, <2>2, <2>3, <2>4, <2>5, <2>6, <2>7
<1>8. Sorting(q, s, n + 1)
  BY <1>5, <1>6, <1>7 DEF Sorting
<1> QED BY <1>8

LEMMA SortingExists ==
    ASSUME NEW s \in Seq(Entries)
    PROVE  \E p : Sorting(p, s, Len(s))
<1> DEFINE T == {n \in Nat : \E p : Sorting(p, s, n)}
           L == Len(s)
<1>1. 0 \in T
  <2>1. Sorting(<<>>, s, 0)
    BY DEF Sorting
  <2> QED BY <2>1
<1>2. ASSUME NEW n \in 0 .. L - 1, n \in T PROVE n + 1 \in T
  <2>1. PICK p : Sorting(p, s, n)
    BY <1>2
  <2>2. n \in Nat /\ n + 1 \in Nat /\ n + 1 <= Len(s)
    OBVIOUS
  <2>3. \E q : Sorting(q, s, n + 1)
    BY <2>1, <2>2, SortOneMore
  <2> QED BY <2>2, <2>3
<1> HIDE DEF T
<1>3. 0 \in Int /\ L \in Int /\ L \in 0 .. L
  OBVIOUS
<1>4. \A n \in 0 .. L : n \in T
  <2>1. \A n \in 0 .. L - 1 : n \in T => n + 1 \in T
    BY <1>2
  <2> HIDE DEF L
  <2> QED BY <1>1, <1>3, <2>1, UpFrom
<1> QED BY <1>3, <1>4 DEF T

LEMMA OrderedIs ==
    ASSUME NEW s \in Seq(Entries)
    PROVE  /\ Ordered(s) \in [1 .. Len(s) -> Entries]
           /\ \A i, j \in 1 .. Len(s) : i <= j => NotAfter(Ordered(s)[i], Ordered(s)[j])
           /\ \A i \in 1 .. Len(s) : \E k \in 1 .. Len(s) : Ordered(s)[k] = s[i]
           /\ \A k \in 1 .. Len(s) : \E i \in 1 .. Len(s) : Ordered(s)[k] = s[i]
<1> DEFINE n == Len(s)
           D == DOMAIN s
           Sorts(p) == /\ \A i \in D : \E k \in D : p[k] = i
                       /\ \A i, j \in D : i <= j => NotAfter(s[p[i]], s[p[j]])
           order == CHOOSE p \in [D -> D] : Sorts(p)
<1>1. D = 1 .. n
  OBVIOUS
<1>2. \E p \in [D -> D] : Sorts(p)
  <2>1. PICK p : Sorting(p, s, n)
    BY SortingExists
  <2>2. p \in [1 .. n -> 1 .. n]
    BY <2>1 DEF Sorting
  <2> HIDE DEF D, n
  <2> QED BY <1>1, <2>1, <2>2 DEF Sorting
<1>3. order \in [D -> D] /\ Sorts(order)
  <2> HIDE DEF D, Sorts
  <2> QED BY <1>2, Zenon
<1>4. Ordered(s) = [k \in D |-> s[order[k]]]
  BY DEF Ordered
<1> HIDE DEF order
<1>5. \A k \in D : order[k] \in D /\ s[order[k]] \in Entries
  BY <1>3
<1> HIDE DEF n
<1>6. Ordered(s) \in [1 .. n -> Entries]
  BY <1>1, <1>4, <1>5
<1>7. \A k \in 1 .. n : Ordered(s)[k] = s[order[k]]
  BY <1>1, <1>4
<1>8. \A i \in D : \E k \in D : order[k] = i
  BY <1>3
<1>9. \A i, j \in D : i <= j => NotAfter(s[order[i]], s[order[j]])
  BY <1>3
<1> HIDE DEF D, Sorts
<1>10. \A i, j \in 1 .. n : i <= j => NotAfter(Ordered(s)[i], Ordered(s)[j])
  BY <1>1, <1>7, <1>9
<1>11. \A i \in 1 .. n : \E k \in 1 .. n : Ordered(s)[k] = s[i]
  BY <1>1, <1>7, <1>8
<1>12. \A k \in 1 .. n : \E i \in 1 .. n : Ordered(s)[k] = s[i]
  BY <1>1, <1>7, <1>5
<1> QED BY <1>6, <1>10, <1>11, <1>12 DEF n

-----------------------------------------------------------------------------
(* The loader's walk over the blocks *)

BlockWords == [kind : {"page", "size", "entry"}, value : Nat, type : Nat]

BlockSize(w, i) == (w[i + 1].value - 8) \div 2

IsWhole(w, i) == i + 1 <= Len(w) /\ w[i].kind = "page" /\ i + 1 + BlockSize(w, i) <= Len(w)

ListedIn(w, i) ==
    {<<w[i].value + w[k].value, w[k].type>> : k \in {j \in i + 2 .. i + 1 + BlockSize(w, i) : w[j].type # 0}}

OneBlockOn(w, v) == [at |-> v.at + 2 + BlockSize(w, v.at), found |-> v.found \cup ListedIn(w, v.at)]

\* m blocks of the words lead from the first to behind the last
Tiling(w, found, m, f) ==
    /\ f[0] = [at |-> 1, found |-> {}]
    /\ f[m] = [at |-> Len(w) + 1, found |-> found]
    /\ \A k \in 1 .. m :
          /\ f[k - 1].at \in 1 .. Len(w) /\ IsWhole(w, f[k - 1].at)
          /\ BlockSize(w, f[k - 1].at) \in Nat
          /\ f[k] = OneBlockOn(w, f[k - 1])

Tiles(w, found) == \E m \in 0 .. Len(w) : \E f : Tiling(w, found, m, f)

LEMMA TilesNone == Tiles(<<>>, {})
<1> DEFINE f == [k \in 0 .. 0 |-> [at |-> 1, found |-> {}]]
<1>1. f[0] = [at |-> 1, found |-> {}] /\ Len(<<>>) + 1 = 1 /\ 0 \in 0 .. Len(<<>>)
  OBVIOUS
<1>2. \A k \in 1 .. 0 : FALSE
  OBVIOUS
<1> HIDE DEF f
<1>3. Tiling(<<>>, {}, 0, f)
  BY <1>1, <1>2 DEF Tiling
<1> QED BY <1>1, <1>3 DEF Tiles

\* A block does not change when words follow
LEMMA WholeStays ==
    ASSUME NEW w \in Seq(BlockWords), NEW b \in Seq(BlockWords), NEW i \in 1 .. Len(w),
           IsWhole(w, i), BlockSize(w, i) \in Nat
    PROVE  /\ i \in 1 .. Len(w \o b) /\ IsWhole(w \o b, i)
           /\ BlockSize(w \o b, i) = BlockSize(w, i)
           /\ ListedIn(w \o b, i) = ListedIn(w, i)
<1> DEFINE z == w \o b
<1>1. /\ Len(z) = Len(w) + Len(b) /\ \A k \in 1 .. Len(w) : z[k] = w[k]
      /\ Len(w) \in Nat /\ Len(b) \in Nat
  BY JoinedIs
<1>2. i + 1 \in 1 .. Len(w)
  BY DEF IsWhole
<1> HIDE DEF z
<1>3. BlockSize(z, i) = BlockSize(w, i)
  <2>1. z[i + 1] = w[i + 1]
    BY <1>1, <1>2
  <2> QED BY <2>1 DEF BlockSize
<1>4. \A k \in i + 2 .. i + 1 + BlockSize(w, i) : k \in 1 .. Len(w)
  <2> DEFINE size == BlockSize(w, i)
  <2>1. size \in Nat /\ i + 1 + size <= Len(w)
    BY DEF IsWhole
  <2> HIDE DEF size
  <2> QED BY <2>1, <1>1 DEF size
<1>5. z[i] = w[i] /\ \A k \in i + 2 .. i + 1 + BlockSize(w, i) : z[k] = w[k]
  BY <1>1, <1>4
<1>6. ListedIn(z, i) = ListedIn(w, i)
  BY <1>3, <1>5 DEF ListedIn
<1>7. IsWhole(z, i) /\ i \in 1 .. Len(z)
  <2> DEFINE size == BlockSize(w, i)
  <2>1. size \in Nat /\ i + 1 + size <= Len(w) /\ w[i].kind = "page" /\ i + 1 <= Len(w)
    BY DEF IsWhole
  <2> HIDE DEF size
  <2>2. i + 1 + size <= Len(z) /\ i + 1 <= Len(z) /\ i \in 1 .. Len(z)
    BY <2>1, <1>1
  <2> QED BY <1>3, <1>5, <2>1, <2>2 DEF IsWhole, size
<1> QED BY <1>3, <1>6, <1>7 DEF z

LEMMA TilesMore ==
    ASSUME NEW w \in Seq(BlockWords), NEW b \in Seq(BlockWords), NEW found, Tiles(w, found), NEW more,
           Len(b) >= 2, IsWhole(w \o b, Len(w) + 1), BlockSize(w \o b, Len(w) + 1) = Len(b) - 2,
           ListedIn(w \o b, Len(w) + 1) = more
    PROVE  Tiles(w \o b, found \cup more)
<1> DEFINE z == w \o b
<1>1. PICK m \in 0 .. Len(w) : \E f : Tiling(w, found, m, f)
  BY DEF Tiles
<1>1a. PICK f : Tiling(w, found, m, f)
  BY <1>1
<1>2. z \in Seq(BlockWords) /\ Len(z) = Len(w) + Len(b) /\ Len(w) \in Nat /\ Len(b) \in Nat
  BY JoinedIs
<1> DEFINE g == [k \in 0 .. m + 1 |-> IF k <= m THEN f[k] ELSE OneBlockOn(z, f[m])]
<1>3. /\ \A k \in 0 .. m : g[k] = f[k]
      /\ g[m + 1] = OneBlockOn(z, f[m])
  OBVIOUS
<1>4. f[0] = [at |-> 1, found |-> {}] /\ f[m] = [at |-> Len(w) + 1, found |-> found]
  BY <1>1a DEF Tiling
<1>5. g[0] = [at |-> 1, found |-> {}]
  BY <1>3, <1>4
<1>6. g[m + 1] = [at |-> Len(z) + 1, found |-> found \cup more]
  <2>1. f[m].at = Len(w) + 1 /\ f[m].found = found
    BY <1>4
  <2>2. (Len(w) + 1) + 2 + (Len(b) - 2) = Len(z) + 1
    BY <1>2
  <2> HIDE DEF g
  <2>3. OneBlockOn(z, f[m]) = [at |-> (Len(w) + 1) + 2 + (Len(b) - 2), found |-> found \cup more]
    BY <2>1 DEF OneBlockOn, z
  <2> QED BY <1>3, <2>2, <2>3
<1>7. ASSUME NEW k \in 1 .. m + 1
      PROVE  /\ g[k - 1].at \in 1 .. Len(z) /\ IsWhole(z, g[k - 1].at)
             /\ BlockSize(z, g[k - 1].at) \in Nat
             /\ g[k] = OneBlockOn(z, g[k - 1])
  <2> HIDE DEF g
  <2>1. CASE k = m + 1
    <3>1. g[k - 1] = f[m] /\ g[k] = OneBlockOn(z, f[m]) /\ f[m].at = Len(w) + 1
      BY <1>3, <1>4, <2>1
    <3>2. Len(w) + 1 \in 1 .. Len(z) /\ Len(b) - 2 \in Nat
      BY <1>2
    <3> QED BY <3>1, <3>2 DEF z
  <2>2. CASE k \in 1 .. m
    <3>1. g[k - 1] = f[k - 1] /\ g[k] = f[k]
      BY <1>3, <2>2
    <3> DEFINE v == f[k - 1]
    <3>2. /\ v.at \in 1 .. Len(w) /\ IsWhole(w, v.at) /\ BlockSize(w, v.at) \in Nat
          /\ f[k] = OneBlockOn(w, v)
      BY <1>1a, <2>2 DEF Tiling
    <3> HIDE DEF v
    <3>3. /\ v.at \in 1 .. Len(z) /\ IsWhole(z, v.at) /\ BlockSize(z, v.at) = BlockSize(w, v.at)
          /\ ListedIn(z, v.at) = ListedIn(w, v.at)
      BY <3>2, WholeStays DEF z
    <3>4. OneBlockOn(z, v) = OneBlockOn(w, v)
      BY <3>3 DEF OneBlockOn
    <3> QED BY <3>1, <3>2, <3>3, <3>4 DEF v
  <2> QED BY <2>1, <2>2
<1>8. m + 1 \in 0 .. Len(z)
  BY <1>2
<1> HIDE DEF g
<1>9. Tiling(z, found \cup more, m + 1, g)
  <2> HIDE DEF z
  <2> QED BY <1>5, <1>6, <1>7 DEF Tiling
<1> HIDE DEF z
<1>10. Tiles(z, found \cup more)
  BY <1>8, <1>9 DEF Tiles
<1> QED BY <1>10 DEF z

\* The loader's walk, as the specification writes it
IsWalk(w, walk) ==
    walk = [n \in 0 .. Len(w) |->
              IF n = 0 THEN [at |-> 1, found |-> {}]
              ELSE IF ~IsWhole(w, walk[n - 1].at) THEN walk[n - 1] ELSE OneBlockOn(w, walk[n - 1])]

WalkOf(w) == CHOOSE walk : IsWalk(w, walk)

LEMMA TilesWalk ==
    ASSUME NEW w \in Seq(BlockWords), NEW found, Tiles(w, found)
    PROVE  WalkOf(w)[Len(w)] = [at |-> Len(w) + 1, found |-> found]
<1> DEFINE N == Len(w)
           end == [at |-> N + 1, found |-> found]
<1>1. PICK m \in 0 .. N : \E f : Tiling(w, found, m, f)
  BY DEF Tiles
<1>1a. PICK f : Tiling(w, found, m, f)
  BY <1>1
<1> DEFINE h == [n \in 0 .. N |-> IF n <= m THEN f[n] ELSE end]
<1>2. N \in Nat /\ m \in Nat /\ m <= N
  OBVIOUS
<1>3. f[0] = [at |-> 1, found |-> {}] /\ f[m] = end
  BY <1>1a DEF Tiling
<1>4. ~IsWhole(w, end.at)
  <2>1. end.at = N + 1 /\ ~((N + 1) + 1 <= N)
    BY <1>2
  <2> HIDE DEF end
  <2> QED BY <2>1 DEF IsWhole
<1> HIDE DEF N
<1>5. /\ \A n \in 0 .. N : n <= m => h[n] = f[n]
      /\ \A n \in 0 .. N : n >= m => h[n] = end
  BY <1>2, <1>3
<1>6. h[0] = [at |-> 1, found |-> {}]
  BY <1>2, <1>3
<1>7. ASSUME NEW n \in 1 .. N
      PROVE  h[n] = IF ~IsWhole(w, h[n - 1].at) THEN h[n - 1] ELSE OneBlockOn(w, h[n - 1])
  <2> HIDE DEF h
  <2>1. CASE n <= m
    <3>1. n \in 1 .. m /\ n \in 0 .. N /\ n - 1 \in 0 .. N /\ n - 1 <= m
      BY <1>2, <2>1
    <3>2. h[n] = f[n] /\ h[n - 1] = f[n - 1]
      BY <1>5, <2>1, <3>1
    <3>3. IsWhole(w, f[n - 1].at) /\ f[n] = OneBlockOn(w, f[n - 1])
      BY <1>1a, <3>1 DEF Tiling
    <3> QED BY <3>2, <3>3
  <2>2. CASE ~(n <= m)
    <3>1. n \in 0 .. N /\ n - 1 \in 0 .. N /\ n >= m /\ n - 1 >= m
      BY <1>2, <2>2
    <3>2. h[n] = end /\ h[n - 1] = end
      BY <1>5, <3>1
    <3> HIDE DEF end
    <3> QED BY <1>4, <3>2
  <2> QED BY <2>1, <2>2
<1>8. IsWalk(w, h)
  <2>1. h = [n \in 0 .. N |-> h[n]]
    OBVIOUS
  <2> DEFINE F == [n \in 0 .. N |->
                     IF n = 0 THEN [at |-> 1, found |-> {}]
                     ELSE IF ~IsWhole(w, h[n - 1].at) THEN h[n - 1] ELSE OneBlockOn(w, h[n - 1])]
  <2> HIDE DEF h
  <2>2. ASSUME NEW n \in 0 .. N PROVE h[n] = F[n]
    <3>1. CASE n = 0
      BY <1>6, <3>1
    <3>2. CASE n # 0
      <4>1. n \in 1 .. N
        BY <3>2, <1>2
      <4>2. h[n] = IF ~IsWhole(w, h[n - 1].at) THEN h[n - 1] ELSE OneBlockOn(w, h[n - 1])
        BY <4>1, <1>7
      <4>3. F[n] = IF ~IsWhole(w, h[n - 1].at) THEN h[n - 1] ELSE OneBlockOn(w, h[n - 1])
        BY <3>2
      <4> QED BY <4>2, <4>3
    <3> QED BY <3>1, <3>2
  <2>3. F = [n \in 0 .. N |-> F[n]]
    OBVIOUS
  <2> HIDE DEF F
  <2>4. h = F
    BY <2>1, <2>2, <2>3
  <2> QED BY <2>4 DEF F, IsWalk, N
<1> DEFINE g == WalkOf(w)
<1>9. IsWalk(w, g)
  <2> HIDE DEF h
  <2> QED BY <1>8, Zenon DEF WalkOf
<1> HIDE DEF g, h
<1>10. g[0] = [at |-> 1, found |-> {}]
  <2>1. 0 \in 0 .. N
    BY <1>2
  <2> QED BY <1>9, <2>1 DEF IsWalk, N
<1>11. ASSUME NEW n \in 1 .. N
       PROVE  g[n] = IF ~IsWhole(w, g[n - 1].at) THEN g[n - 1] ELSE OneBlockOn(w, g[n - 1])
  <2>1. n \in 0 .. N /\ n # 0
    BY <1>2
  <2> QED BY <1>9, <2>1 DEF IsWalk, N
<1>12. GoOnAlike(g, h, N)
  <2>1. ASSUME NEW n \in 1 .. N, g[n - 1] = h[n - 1] PROVE g[n] = h[n]
    <3>1. g[n] = IF ~IsWhole(w, g[n - 1].at) THEN g[n - 1] ELSE OneBlockOn(w, g[n - 1])
      BY <1>11
    <3>2. h[n] = IF ~IsWhole(w, h[n - 1].at) THEN h[n - 1] ELSE OneBlockOn(w, h[n - 1])
      BY <1>7
    <3> QED BY <2>1, <3>1, <3>2
  <2>2. g[0] = h[0]
    BY <1>6, <1>10
  <2> QED BY <2>1, <2>2 DEF GoOnAlike
<1>13. Alike(g, h, N)
  BY <1>2, <1>12, RunsAgree
<1>14. g[N] = h[N] /\ h[N] = end
  BY <1>2, <1>5, <1>13 DEF Alike
<1> QED BY <1>14 DEF g, N

-----------------------------------------------------------------------------
(* A block and what it lists *)

InPage(page, e) == page <= e[1] /\ e[1] < page + Page

LEMMA PlaceIsRestored ==
    ASSUME NEW q \in Nat, NEW e \in Entries, InPage(Page * q, e)
    PROVE  /\ e[1] % Page \in Nat /\ Page * q + (e[1] % Page) = e[1]
           /\ <<Page * q + (e[1] % Page), e[2]>> = e
<1>1. Page \in Nat \ {0}
  BY RelocAssumption
<1>2. PICK x \in Nat : x = e[1]
  BY DEF Entries
<1>3. PICK g \in Nat : g = Page * q
  BY <1>1
<1>4. x - g \in 0 .. Page - 1 /\ (x - g) + Page * q = x
  BY <1>1, <1>2, <1>3 DEF InPage
<1>5. x % Page = x - g
  <2> DEFINE lo == x - g
  <2>1. lo \in 0 .. Page - 1 /\ lo + Page * q = x
    BY <1>4
  <2> HIDE DEF lo
  <2>2. (lo + Page * q) % Page = lo
    BY <1>1, <2>1, DivMod
  <2>3. x % Page = lo
    BY <2>1, <2>2
  <2> QED BY <2>3 DEF lo
<1>6. e = <<e[1], e[2]>>
  BY DEF Entries
<1>7. e[1] % Page = x - g /\ Page * q = g
  BY <1>2, <1>3, <1>5
<1>8. x - g \in Nat /\ g + (x - g) = x
  BY <1>2, <1>3, <1>4
<1>9. e[1] % Page \in Nat /\ Page * q + (e[1] % Page) = e[1]
  BY <1>2, <1>7, <1>8
<1> QED BY <1>6, <1>9

\* The entries of a block with the padding
Padded(entries) ==
    IF Len(entries) % 2 = 1 THEN Append(EntryWords(entries), Word("entry", 0, 0)) ELSE EntryWords(entries)

LEMMA PaddedIs ==
    ASSUME NEW entries \in Seq(Entries)
    PROVE  /\ Padded(entries) \in Seq(BlockWords)
           /\ Len(entries) \in Nat /\ Len(entries) <= Len(Padded(entries))
           /\ \A k \in 1 .. Len(entries) :
                 Padded(entries)[k] = Word("entry", entries[k][1] % Page, entries[k][2])
           /\ \A k \in 1 .. Len(Padded(entries)) :
                 k \in 1 .. Len(entries) \/ Padded(entries)[k].type = 0
<1> DEFINE n == Len(entries)
           words == EntryWords(entries)
<1>1. n \in Nat /\ DOMAIN entries = 1 .. n
  OBVIOUS
<1>2. \A k \in 1 .. n : entries[k][1] % Page \in Nat /\ entries[k][2] \in Nat
  <2> SUFFICES ASSUME NEW k \in 1 .. n PROVE entries[k][1] % Page \in Nat /\ entries[k][2] \in Nat
    OBVIOUS
  <2>1. entries[k] \in Entries
    OBVIOUS
  <2>2. PICK x \in Nat : x = entries[k][1]
    BY <2>1 DEF Entries
  <2>3. x % Page \in Nat
    BY RelocAssumption
  <2>4. entries[k][2] \in Nat
    BY <2>1 DEF Entries
  <2> QED BY <2>2, <2>3, <2>4
<1> HIDE DEF n
<1>3. words = [k \in 1 .. n |-> Word("entry", entries[k][1] % Page, entries[k][2])]
  BY <1>1 DEF EntryWords
<1>4. \A k \in 1 .. n : Word("entry", entries[k][1] % Page, entries[k][2]) \in BlockWords
  BY <1>2 DEF Word, BlockWords
<1> HIDE DEF words
<1>5. words \in Seq(BlockWords) /\ Len(words) = n
  BY <1>1, <1>3, <1>4
<1>6. Word("entry", 0, 0) \in BlockWords /\ Word("entry", 0, 0).type = 0
  BY DEF Word, BlockWords
<1>7. CASE n % 2 = 1
  <2>1. Padded(entries) = Append(words, Word("entry", 0, 0))
    BY <1>7 DEF Padded, n, words
  <2> DEFINE z == Word("entry", 0, 0)
  <2> HIDE DEF z
  <2>2. /\ Append(words, z) \in Seq(BlockWords) /\ Len(Append(words, z)) = n + 1
        /\ \A k \in 1 .. n : Append(words, z)[k] = words[k]
        /\ Append(words, z)[n + 1] = z
    BY <1>5, <1>6, AppendIs DEF z
  <2>3. \A k \in 1 .. n + 1 : k \in 1 .. n \/ k = n + 1
    BY <1>1
  <2>4. \A k \in 1 .. n : words[k] = Word("entry", entries[k][1] % Page, entries[k][2])
    BY <1>3
  <2>5. \A k \in 1 .. n : Padded(entries)[k] = Word("entry", entries[k][1] % Page, entries[k][2])
    BY <2>1, <2>2, <2>4, Zenon DEF z
  <2>6. \A k \in 1 .. Len(Padded(entries)) : k \in 1 .. n \/ Padded(entries)[k].type = 0
    BY <1>6, <2>1, <2>2, <2>3 DEF z
  <2>7. Padded(entries) \in Seq(BlockWords) /\ n <= Len(Padded(entries))
    BY <1>1, <2>1, <2>2 DEF z
  <2> QED BY <1>1, <2>5, <2>6, <2>7, Zenon DEF n
<1>8. CASE n % 2 # 1
  <2>1. Padded(entries) = words
    BY <1>8 DEF Padded, n, words
  <2>2. \A k \in 1 .. n : words[k] = Word("entry", entries[k][1] % Page, entries[k][2])
    BY <1>3
  <2>5. \A k \in 1 .. n : Padded(entries)[k] = Word("entry", entries[k][1] % Page, entries[k][2])
    BY <2>1, <2>2, Zenon
  <2>6. \A k \in 1 .. Len(Padded(entries)) : k \in 1 .. n \/ Padded(entries)[k].type = 0
    BY <1>5, <2>1
  <2>7. Padded(entries) \in Seq(BlockWords) /\ n <= Len(Padded(entries))
    BY <1>1, <1>5, <2>1
  <2> QED BY <1>1, <2>5, <2>6, <2>7, Zenon DEF n
<1> QED BY <1>7, <1>8

LEMMA BlockIs ==
    ASSUME NEW page \in Nat, NEW entries \in Seq(Entries)
    PROVE  /\ Block(page, entries) \in Seq(BlockWords)
           /\ Len(Block(page, entries)) = 2 + Len(Padded(entries))
           /\ Block(page, entries)[1] = Word("page", page, 0)
           /\ Block(page, entries)[2] = Word("size", 8 + 2 * Len(Padded(entries)), 0)
           /\ \A k \in 1 .. Len(Padded(entries)) : Block(page, entries)[2 + k] = Padded(entries)[k]
<1> DEFINE p == Padded(entries)
           head == <<Word("page", page, 0), Word("size", 8 + 2 * Len(p), 0)>>
<1>1. Block(page, entries) = head \o p
  BY DEF Block, Padded
<1>2. p \in Seq(BlockWords)
  BY PaddedIs
<1> HIDE DEF p
<1>3. Word("page", page, 0) \in BlockWords /\ Word("size", 8 + 2 * Len(p), 0) \in BlockWords
  <2>1. PICK m \in Nat : m = Len(p)
    BY <1>2
  <2>2. 8 + 2 * m \in Nat
    BY <2>1
  <2> DEFINE v == 8 + 2 * m
  <2> HIDE DEF v
  <2>3. Word("page", page, 0) \in BlockWords /\ Word("size", v, 0) \in BlockWords
    BY <2>2 DEF Word, BlockWords, v
  <2> QED BY <2>1, <2>3 DEF v
<1>4. /\ head \in Seq(BlockWords) /\ Len(head) = 2 /\ head[1] = Word("page", page, 0)
      /\ head[2] = Word("size", 8 + 2 * Len(p), 0)
  BY <1>3
<1> HIDE DEF head
<1>5. /\ head \o p \in Seq(BlockWords) /\ Len(head \o p) = Len(head) + Len(p)
      /\ \A i \in 1 .. Len(head) : (head \o p)[i] = head[i]
      /\ \A i \in 1 .. Len(p) : (head \o p)[Len(head) + i] = p[i]
  <2>1. head \in Seq(BlockWords) /\ p \in Seq(BlockWords)
    BY <1>2, <1>4
  <2> QED BY <2>1, JoinedIs
<1>6. 1 \in 1 .. Len(head) /\ 2 \in 1 .. Len(head)
  BY <1>4
<1> QED BY <1>1, <1>4, <1>5, <1>6 DEF p

LEMMA BlockLists ==
    ASSUME NEW w \in Seq(BlockWords), NEW q \in Nat, NEW entries \in Seq(Entries),
           \A k \in 1 .. Len(entries) : InPage(Page * q, entries[k]),
           NEW b, b = Block(Page * q, entries)
    PROVE  /\ b \in Seq(BlockWords) /\ Len(b) >= 2 /\ IsWhole(w \o b, Len(w) + 1)
           /\ BlockSize(w \o b, Len(w) + 1) = Len(b) - 2
           /\ ListedIn(w \o b, Len(w) + 1) = {entries[k] : k \in 1 .. Len(entries)}
<1> DEFINE page == Page * q
           i == Len(w) + 1
           z == w \o b
           p == Padded(entries)
           n == Len(p)
<1>1. page \in Nat
  BY RelocAssumption
<1>2. n \in Nat
  <2>1. p \in Seq(BlockWords)
    BY PaddedIs
  <2> HIDE DEF p
  <2> QED BY <2>1
<1> HIDE DEF page, n
<1>3. /\ b \in Seq(BlockWords) /\ Len(b) = 2 + n /\ b[1] = Word("page", page, 0)
      /\ b[2] = Word("size", 8 + 2 * n, 0) /\ \A k \in 1 .. n : b[2 + k] = p[k]
  BY <1>1, BlockIs, Zenon DEF n, p, page
<1> HIDE DEF p
<1>4. Len(w) \in Nat /\ Len(z) = Len(w) + (2 + n) /\ \A k \in 1 .. 2 + n : z[Len(w) + k] = b[k]
  BY <1>3, JoinedIs
<1> HIDE DEF z
<1>5. z[i] = Word("page", page, 0) /\ z[i + 1] = Word("size", 8 + 2 * n, 0)
  <2>1. 1 \in 1 .. 2 + n /\ 2 \in 1 .. 2 + n /\ i = Len(w) + 1 /\ i + 1 = Len(w) + 2
    BY <1>2, <1>4
  <2> HIDE DEF i
  <2> QED BY <1>3, <1>4, <2>1
<1>6. ASSUME NEW k \in 1 .. n PROVE z[i + 1 + k] = p[k]
  <2>1. 2 + k \in 1 .. 2 + n /\ i + 1 + k = Len(w) + (2 + k)
    BY <1>2, <1>4
  <2> HIDE DEF i
  <2> QED BY <1>3, <1>4, <2>1
<1>7. i \in Nat /\ i + 1 <= Len(z) /\ i + 1 + n <= Len(z)
  BY <1>2, <1>4
<1> HIDE DEF i
<1>8. BlockSize(z, i) = n
  <2>1. z[i + 1].value = 8 + 2 * n
    BY <1>5 DEF Word
  <2>2. ((8 + 2 * n) - 8) \div 2 = n
    BY <1>2
  <2> QED BY <2>1, <2>2 DEF BlockSize
<1>9. IsWhole(z, i)
  <2>1. z[i].kind = "page"
    BY <1>5 DEF Word
  <2> QED BY <1>7, <1>8, <2>1 DEF IsWhole
<1>10. z[i].value = page
  BY <1>5 DEF Word
<1>11. Len(entries) \in Nat /\ Len(entries) <= n
  BY PaddedIs DEF n, p
<1>12. ASSUME NEW k \in 1 .. Len(entries)
       PROVE  z[i + 1 + k].type # 0 /\ <<page + z[i + 1 + k].value, z[i + 1 + k].type>> = entries[k]
  <2>1. k \in 1 .. n
    BY <1>2, <1>11
  <2>2. z[i + 1 + k] = Word("entry", entries[k][1] % Page, entries[k][2])
    BY <1>6, <2>1, PaddedIs DEF p
  <2>3. entries[k] \in Entries
    OBVIOUS
  <2>4. <<page + (entries[k][1] % Page), entries[k][2]>> = entries[k]
    BY <2>3, PlaceIsRestored DEF page
  <2>5. entries[k][2] # 0
    BY <2>3 DEF Entries
  <2> QED BY <2>2, <2>4, <2>5 DEF Word
<1>13. ASSUME NEW j \in i + 2 .. i + 1 + n, z[j].type # 0
       PROVE  j - (i + 1) \in 1 .. Len(entries) /\ j = i + 1 + (j - (i + 1))
  <2> DEFINE k == j - (i + 1)
  <2>1. k \in 1 .. n /\ j = i + 1 + k
    BY <1>7, <1>2
  <2> HIDE DEF k
  <2>2. z[j] = p[k]
    BY <1>6, <2>1
  <2>3. k \in 1 .. Len(entries) \/ p[k].type = 0
    BY <2>1, PaddedIs DEF p, n
  <2>4. k \in 1 .. Len(entries)
    BY <1>13, <2>2, <2>3
  <2> QED BY <2>1, <2>4 DEF k
<1>14. ListedIn(z, i) = {entries[k] : k \in 1 .. Len(entries)}
  <2>1. ASSUME NEW x \in ListedIn(z, i) PROVE x \in {entries[k] : k \in 1 .. Len(entries)}
    <3>1. PICK j \in i + 2 .. i + 1 + n : z[j].type # 0 /\ x = <<page + z[j].value, z[j].type>>
      BY <2>1, <1>8, <1>10 DEF ListedIn
    <3> DEFINE k == j - (i + 1)
    <3>2. k \in 1 .. Len(entries) /\ j = i + 1 + k
      BY <1>13, <3>1
    <3> HIDE DEF k
    <3>3. x = entries[k]
      BY <1>12, <3>1, <3>2
    <3> QED BY <3>2, <3>3
  <2>2. ASSUME NEW k \in 1 .. Len(entries) PROVE entries[k] \in ListedIn(z, i)
    <3>1. i + 1 + k \in i + 2 .. i + 1 + n
      BY <1>2, <1>7, <1>11
    <3> DEFINE j == i + 1 + k
    <3> HIDE DEF j
    <3>2. j \in i + 2 .. i + 1 + n /\ z[j].type # 0 /\ <<page + z[j].value, z[j].type>> = entries[k]
      BY <1>12, <3>1 DEF j
    <3>3. entries[k] \in {<<z[i].value + z[l].value, z[l].type>> :
                             l \in {j2 \in i + 2 .. i + 1 + BlockSize(z, i) : z[j2].type # 0}}
      BY <1>8, <1>10, <3>2
    <3> QED BY <3>3, Zenon DEF ListedIn
  <2> QED BY <2>1, <2>2
<1>15. Len(b) >= 2 /\ n = Len(b) - 2
  BY <1>2, <1>3
<1> QED BY <1>3, <1>8, <1>9, <1>14, <1>15 DEF z, i

-----------------------------------------------------------------------------
(* The blocks *)

PlacesOf(s) == {s[k] : k \in 1 .. Len(s)}

Accs == [out : Seq(BlockWords), page : Nat, open : Seq(Entries)]

Holds(acc, found) ==
    /\ Tiles(acc.out, found)
    /\ \E q \in Nat : acc.page = Page * q
    /\ \A j \in 1 .. Len(acc.open) : InPage(acc.page, acc.open[j])

LEMMA ClosedTiles ==
    ASSUME NEW acc \in Accs, NEW found, Holds(acc, found)
    PROVE  Closed(acc) \in Seq(BlockWords) /\ Tiles(Closed(acc), found \cup PlacesOf(acc.open))
<1> DEFINE w == acc.out
           entries == acc.open
<1>1. w \in Seq(BlockWords) /\ entries \in Seq(Entries)
  BY DEF Accs
<1>2. Tiles(w, found)
  BY DEF Holds
<1>3. PICK q \in Nat : acc.page = Page * q
  BY DEF Holds
<1>4. \A j \in 1 .. Len(entries) : InPage(Page * q, entries[j])
  BY <1>3 DEF Holds
<1>5. CASE entries = <<>>
  <2>1. Closed(acc) = w
    BY <1>5 DEF Closed
  <2>2. \A k \in 1 .. Len(entries) : FALSE
    BY <1>5
  <2> HIDE DEF w, entries
  <2>3. PlacesOf(entries) = {}
    BY <2>2 DEF PlacesOf
  <2>4. found \cup {} = found
    OBVIOUS
  <2> QED BY <1>1, <1>2, <2>1, <2>3, <2>4 DEF entries
<1>6. CASE entries # <<>>
  <2> DEFINE b == Block(Page * q, entries)
             more == PlacesOf(entries)
  <2>1. Closed(acc) = w \o b
    BY <1>3, <1>6 DEF Closed
  <2> HIDE DEF w, entries
  <2>2. b = Block(Page * q, entries)
    OBVIOUS
  <2> HIDE DEF b
  <2>3. /\ b \in Seq(BlockWords) /\ Len(b) >= 2 /\ IsWhole(w \o b, Len(w) + 1)
        /\ BlockSize(w \o b, Len(w) + 1) = Len(b) - 2
        /\ ListedIn(w \o b, Len(w) + 1) = {entries[k] : k \in 1 .. Len(entries)}
    BY <1>1, <1>4, <2>2, BlockLists
  <2>4. ListedIn(w \o b, Len(w) + 1) = more
    BY <2>3 DEF PlacesOf
  <2> HIDE DEF more
  <2>5. Tiles(w \o b, found \cup more)
    BY <1>1, <1>2, <2>3, <2>4, TilesMore
  <2>6. w \o b \in Seq(BlockWords)
    BY <1>1, <2>3, JoinedIs
  <2> QED BY <2>1, <2>5, <2>6 DEF more, entries
<1> QED BY <1>5, <1>6

\* After the first k entries in order
Reached(acc, ordered, k) ==
    /\ acc \in Accs
    /\ \E found : /\ Holds(acc, found)
                  /\ found \cup PlacesOf(acc.open) = {ordered[i] : i \in 1 .. k}
    /\ k > 0 => acc.open # <<>> /\ acc.page <= ordered[k][1]

LEMMA EnterIsAcc ==
    ASSUME NEW acc \in Accs, NEW e \in Entries
    PROVE  Enter(acc, e) \in Accs
<1>1. acc.out \in Seq(BlockWords) /\ acc.page \in Nat /\ acc.open \in Seq(Entries)
  BY DEF Accs
<1>2. CASE acc.open # <<>> /\ e[1] - acc.page < Page
  <2>1. Append(acc.open, e) \in Seq(Entries)
    BY <1>1
  <2>2. Enter(acc, e) = [acc EXCEPT !.open = Append(acc.open, e)]
    BY <1>2 DEF Enter
  <2> QED BY <2>1, <2>2 DEF Accs
<1>3. CASE ~(acc.open # <<>> /\ e[1] - acc.page < Page)
  <2>1. Enter(acc, e) = [out |-> Closed(acc), page |-> Page * (e[1] \div Page), open |-> <<e>>]
    BY <1>3, Zenon DEF Enter
  <2>2. Closed(acc) \in Seq(BlockWords)
    <3>1. CASE acc.open = <<>>
      BY <1>1, <3>1 DEF Closed
    <3>2. CASE acc.open # <<>>
      <4> DEFINE w == acc.out
                 b == Block(acc.page, acc.open)
      <4>1. Closed(acc) = w \o b
        BY <3>2 DEF Closed
      <4>2. b \in Seq(BlockWords)
        BY <1>1, BlockIs
      <4>3. w \in Seq(BlockWords)
        BY <1>1
      <4> HIDE DEF w, b
      <4>4. w \o b \in Seq(BlockWords)
        BY <4>2, <4>3, JoinedIs
      <4> QED BY <4>1, <4>4
    <3> QED BY <3>1, <3>2
  <2>3. Page * (e[1] \div Page) \in Nat
    <3>1. PICK x \in Nat : x = e[1]
      BY DEF Entries
    <3>2. PICK y \in Nat : y = x \div Page
      BY RelocAssumption
    <3>3. Page * y \in Nat
      BY RelocAssumption
    <3> QED BY <3>1, <3>2, <3>3
  <2>4. <<e>> \in Seq(Entries)
    OBVIOUS
  <2> DEFINE out == Closed(acc)
             page == Page * (e[1] \div Page)
             open == <<e>>
  <2> HIDE DEF out, page, open
  <2>5. [out |-> out, page |-> page, open |-> open] \in Accs
    BY <2>2, <2>3, <2>4 DEF Accs, out, page, open
  <2> QED BY <2>1, <2>5 DEF out, page, open
<1> QED BY <1>2, <1>3

LEMMA EnterReaches ==
    ASSUME NEW n \in Nat, NEW ordered \in [1 .. n -> Entries],
           \A i, j \in 1 .. n : i <= j => NotAfter(ordered[i], ordered[j]),
           NEW k \in 1 .. n, NEW acc, Reached(acc, ordered, k - 1)
    PROVE  Reached(Enter(acc, ordered[k]), ordered, k)
<1> DEFINE e == ordered[k]
           new == Enter(acc, e)
<1>1. e \in Entries
  OBVIOUS
<1>2. acc \in Accs
  BY DEF Reached
<1>3. acc.out \in Seq(BlockWords) /\ acc.page \in Nat /\ acc.open \in Seq(Entries)
  BY <1>2 DEF Accs
<1>4. PICK found : /\ Holds(acc, found)
                   /\ found \cup PlacesOf(acc.open) = {ordered[i] : i \in 1 .. k - 1}
  BY DEF Reached
<1>5. {ordered[i] : i \in 1 .. k - 1} \cup {e} = {ordered[i] : i \in 1 .. k}
  OBVIOUS
<1>6. PICK x \in Nat : x = e[1]
  BY <1>1 DEF Entries
<1>7. acc.open # <<>> => acc.page <= x
  <2>1. CASE k = 1
    <3>1. k - 1 = 0
      BY <2>1
    <3>2. \A i \in 1 .. k - 1 : FALSE
      BY <3>1
    <3>3. {ordered[i] : i \in 1 .. k - 1} = {}
      BY <3>2
    <3>4. PlacesOf(acc.open) = {}
      BY <1>4, <3>3
    <3>5. ASSUME acc.open # <<>> PROVE FALSE
      <4>1. 1 \in 1 .. Len(acc.open)
        BY <1>3, <3>5
      <4>2. acc.open[1] \in PlacesOf(acc.open)
        BY <4>1 DEF PlacesOf
      <4> QED BY <3>4, <4>2
    <3> QED BY <3>5
  <2>2. CASE k # 1
    <3>1. k - 1 > 0 /\ k - 1 \in 1 .. n /\ k - 1 <= k /\ k \in 1 .. n
      BY <2>2
    <3> DEFINE d == ordered[k - 1]
    <3>2. d \in Entries /\ NotAfter(d, e)
      BY <3>1
    <3>3. acc.page <= d[1]
      BY <3>1 DEF Reached
    <3> HIDE DEF d, e
    <3>4. d[1] <= e[1]
      BY <1>1, <3>2, NotAfterOrders
    <3>5. PICK y \in Nat : y = d[1]
      BY <3>2 DEF Entries
    <3> QED BY <1>3, <1>6, <3>3, <3>4, <3>5
  <2> QED BY <2>1, <2>2
<1>8. new \in Accs
  <2> HIDE DEF e
  <2> QED BY <1>1, <1>2, EnterIsAcc
<1> HIDE DEF e
<1>9. CASE acc.open # <<>> /\ e[1] - acc.page < Page
  <2>1. new = [acc EXCEPT !.open = Append(acc.open, e)]
    BY <1>9 DEF Enter
  <2>2. new.out = acc.out /\ new.page = acc.page /\ new.open = Append(acc.open, e)
    BY <1>2, <2>1 DEF Accs
  <2> DEFINE s == acc.open
  <2>3. s \in Seq(Entries)
    BY <1>3
  <2> HIDE DEF s, new
  <2>4. /\ Len(Append(s, e)) = Len(s) + 1 /\ Len(s) \in Nat
        /\ \A i \in 1 .. Len(s) : Append(s, e)[i] = s[i]
        /\ Append(s, e)[Len(s) + 1] = e
    BY <1>1, <2>3, AppendIs
  <2> DEFINE t == Append(s, e)
  <2> HIDE DEF t
  <2>5. \A i \in 1 .. Len(t) : i \in 1 .. Len(s) \/ i = Len(s) + 1
    BY <2>4 DEF t
  <2>6. 1 .. Len(s) \subseteq 1 .. Len(t) /\ Len(s) + 1 \in 1 .. Len(t)
    BY <2>4 DEF t
  <2>7. PlacesOf(t) = PlacesOf(s) \cup {e}
    BY <2>4, <2>5, <2>6 DEF t, PlacesOf
  <2>8. InPage(acc.page, e)
    BY <1>3, <1>6, <1>7, <1>9, RelocAssumption DEF InPage
  <2>9. \A j \in 1 .. Len(t) : InPage(acc.page, t[j])
    <3>1. \A j \in 1 .. Len(s) : InPage(acc.page, s[j])
      BY <1>4 DEF Holds, s
    <3> QED BY <2>4, <2>5, <2>8, <3>1 DEF t
  <2>10. Holds(new, found)
    BY <1>4, <2>2, <2>9 DEF Holds, s, t
  <2>11. found \cup PlacesOf(new.open) = {ordered[i] : i \in 1 .. k}
    BY <1>4, <1>5, <2>2, <2>7 DEF s, t
  <2>12. new.open # <<>>
    <3>1. Len(t) # 0
      BY <2>4 DEF t
    <3>2. t # <<>>
      BY <3>1
    <3> QED BY <2>2, <3>2 DEF s, t
  <2>13. new.page <= e[1]
    BY <1>6, <1>7, <1>9, <2>2
  <2> QED BY <1>8, <2>10, <2>11, <2>12, <2>13 DEF Reached, new, e
<1>10. CASE ~(acc.open # <<>> /\ e[1] - acc.page < Page)
  <2>1. new = [out |-> Closed(acc), page |-> Page * (e[1] \div Page), open |-> <<e>>]
    BY <1>10, Zenon DEF Enter
  <2>2. new.out = Closed(acc) /\ new.page = Page * (e[1] \div Page) /\ new.open = <<e>>
    BY <2>1
  <2> HIDE DEF new
  <2> DEFINE all == found \cup PlacesOf(acc.open)
  <2>3. Tiles(Closed(acc), all)
    BY <1>2, <1>4, ClosedTiles
  <2>4. PlacesOf(<<e>>) = {e}
    BY DEF PlacesOf
  <2>5. PICK q \in Nat, r \in 0 .. Page - 1 : q = x \div Page /\ x = Page * q + r
    BY RelocAssumption
  <2>6. PICK g \in Nat : g = Page * q
    BY RelocAssumption
  <2>7. new.page = g
    BY <1>6, <2>2, <2>5, <2>6
  <2>8. InPage(new.page, e) /\ new.page <= e[1]
    <3>1. x = g + r
      BY <2>5, <2>6
    <3>2. Page \in Nat \ {0} /\ r \in 0 .. Page - 1 /\ g <= x /\ x < g + Page
      BY <3>1, RelocAssumption
    <3>3. g <= e[1] /\ e[1] < g + Page
      BY <1>6, <3>2
    <3> QED BY <2>7, <3>3 DEF InPage
  <2>9. \A j \in 1 .. Len(new.open) : InPage(new.page, new.open[j])
    <3>1. \A j \in 1 .. Len(<<e>>) : <<e>>[j] = e
      OBVIOUS
    <3> QED BY <2>2, <2>8, <3>1
  <2>10. Holds(new, all)
    BY <2>2, <2>3, <2>6, <2>7, <2>9 DEF Holds
  <2>11. all \cup PlacesOf(new.open) = {ordered[i] : i \in 1 .. k}
    BY <1>4, <1>5, <2>2, <2>4
  <2>12. new.open # <<>>
    BY <2>2
  <2> HIDE DEF all
  <2> QED BY <1>8, <2>8, <2>10, <2>11, <2>12 DEF Reached, new, e
<1> QED BY <1>9, <1>10

\* The recursion of Blocks, as the specification writes it
IsAcc(entries, ordered, acc) ==
    acc = [k \in 0 .. Len(entries) |->
             IF k = 0 THEN [out |-> <<>>, page |-> 0, open |-> <<>>]
             ELSE Enter(acc[k - 1], ordered[k])]

AccOf(entries) == CHOOSE acc : IsAcc(entries, Ordered(entries), acc)

LEMMA BlocksAre == ASSUME NEW entries PROVE Blocks(entries) = Closed(AccOf(entries)[Len(entries)])
BY DEF Blocks, AccOf, IsAcc

LEMMA AccIs ==
    ASSUME NEW entries \in Seq(Entries)
    PROVE  IsAcc(entries, Ordered(entries), AccOf(entries))
<1> DEFINE N == Len(entries)
           ordered == Ordered(entries)
           start == [out |-> <<>>, page |-> 0, open |-> <<>>]
           Step == [x \in Accs \X (1 .. N) |-> Enter(x[1], ordered[x[2]])]
<1>1. N \in Nat /\ ordered \in [1 .. N -> Entries]
  BY OrderedIs
<1>2. start \in Accs
  BY DEF Accs
<1> HIDE DEF N, ordered, start
<1>3. Step \in [Accs \X (1 .. N) -> Accs]
  <2>1. ASSUME NEW x \in Accs \X (1 .. N) PROVE Enter(x[1], ordered[x[2]]) \in Accs
    <3>1. x[1] \in Accs /\ ordered[x[2]] \in Entries
      BY <1>1
    <3> QED BY <3>1, EnterIsAcc
  <2> QED BY <2>1
<1>4. \A a \in Accs, k \in 1 .. N : Step[<<a, k>>] = Enter(a, ordered[k])
  <2>1. ASSUME NEW a \in Accs, NEW k \in 1 .. N PROVE Step[<<a, k>>] = Enter(a, ordered[k])
    <3>1. <<a, k>> \in Accs \X (1 .. N) /\ <<a, k>>[1] = a /\ <<a, k>>[2] = k
      OBVIOUS
    <3> QED BY <3>1
  <2> QED BY <2>1, Zenon
<1> HIDE DEF Step
<1>5. PICK f \in [0 .. N -> Accs] : Iterates(f, start, Step, N)
  BY <1>1, <1>2, <1>3, Recursion
<1>6. f[0] = start /\ \A k \in 1 .. N : f[k] = Enter(f[k - 1], ordered[k])
  <2>1. ASSUME NEW k \in 1 .. N PROVE f[k] = Enter(f[k - 1], ordered[k])
    <3>1. k - 1 \in 0 .. N
      BY <1>1
    <3>2. f[k - 1] \in Accs
      BY <1>5, <3>1
    <3>3. f[k] = Step[<<f[k - 1], k>>]
      BY <1>5 DEF Iterates
    <3> QED BY <1>4, <3>2, <3>3
  <2> QED BY <1>5, <2>1 DEF Iterates
<1>7. IsAcc(entries, ordered, f)
  <2> DEFINE F == [k \in 0 .. N |-> IF k = 0 THEN start ELSE Enter(f[k - 1], ordered[k])]
  <2>1. ASSUME NEW k \in 0 .. N PROVE f[k] = F[k]
    <3>1. CASE k = 0
      BY <1>6, <3>1
    <3>2. CASE k # 0
      <4>1. k \in 1 .. N
        BY <1>1, <3>2
      <4>2. F[k] = Enter(f[k - 1], ordered[k])
        BY <3>2
      <4> QED BY <1>6, <4>1, <4>2
    <3> QED BY <3>1, <3>2
  <2>2. F = [k \in 0 .. N |-> F[k]] /\ f = [k \in 0 .. N |-> f[k]]
    OBVIOUS
  <2> HIDE DEF F
  <2>3. f = F
    BY <2>1, <2>2
  <2> QED BY <2>3 DEF F, IsAcc, N, start
<1> QED BY <1>7, Zenon DEF AccOf, ordered

LEMMA BlocksTile ==
    ASSUME NEW entries \in Seq(Entries)
    PROVE  Blocks(entries) \in Seq(BlockWords) /\ Tiles(Blocks(entries), PlacesOf(entries))
<1> DEFINE N == Len(entries)
           ordered == Ordered(entries)
           acc == AccOf(entries)
           T == {k \in Nat : Reached(acc[k], ordered, k)}
           last == acc[N]
<1>1. /\ ordered \in [1 .. N -> Entries]
      /\ \A i, j \in 1 .. N : i <= j => NotAfter(ordered[i], ordered[j])
      /\ \A i \in 1 .. N : \E k \in 1 .. N : ordered[k] = entries[i]
      /\ \A k \in 1 .. N : \E i \in 1 .. N : ordered[k] = entries[i]
  BY OrderedIs
<1>2. N \in Nat
  OBVIOUS
<1>3. IsAcc(entries, ordered, acc)
  BY AccIs
<1> HIDE DEF ordered, acc, N
<1>4. acc[0] = [out |-> <<>>, page |-> 0, open |-> <<>>]
  <2>1. 0 \in 0 .. N
    BY <1>2
  <2> QED BY <1>3, <2>1 DEF IsAcc, N
<1>5. ASSUME NEW k \in 1 .. N PROVE acc[k] = Enter(acc[k - 1], ordered[k])
  <2>1. k \in 0 .. N /\ k # 0
    BY <1>2
  <2> QED BY <1>3, <2>1 DEF IsAcc, N
<1>6. 0 \in T
  <2>1. acc[0] \in Accs
    BY <1>4 DEF Accs
  <2>2. acc[0].out = <<>> /\ acc[0].page = 0 /\ acc[0].open = <<>>
    BY <1>4
  <2>3. 0 = Page * 0 /\ \A j \in 1 .. Len(<<>>) : FALSE
    BY RelocAssumption
  <2>4. Holds(acc[0], {})
    BY <2>2, <2>3, TilesNone DEF Holds
  <2>5. PlacesOf(<<>>) = {}
    BY DEF PlacesOf
  <2>6. {ordered[i] : i \in 1 .. 0} = {}
    OBVIOUS
  <2>7. {} \cup PlacesOf(acc[0].open) = {ordered[i] : i \in 1 .. 0}
    BY <2>2, <2>5, <2>6
  <2>8. ~(0 > 0)
    OBVIOUS
  <2>9. Reached(acc[0], ordered, 0)
    BY <2>1, <2>4, <2>7, <2>8 DEF Reached
  <2> QED BY <2>9
<1>7. \A k \in 0 .. N - 1 : k \in T => k + 1 \in T
  <2> SUFFICES ASSUME NEW k \in 0 .. N - 1, Reached(acc[k], ordered, k)
               PROVE  k + 1 \in T
    OBVIOUS
  <2>1. k + 1 \in 1 .. N /\ (k + 1) - 1 = k /\ k + 1 \in Nat
    BY <1>2
  <2> DEFINE l == k + 1
  <2>2. l \in 1 .. N /\ l - 1 = k /\ l \in Nat
    BY <2>1
  <2> HIDE DEF l, T
  <2>3. Reached(acc[l - 1], ordered, l - 1)
    BY <2>2
  <2>4. Reached(Enter(acc[l - 1], ordered[l]), ordered, l)
    BY <1>1, <1>2, <2>2, <2>3, EnterReaches
  <2>5. Reached(acc[l], ordered, l)
    BY <1>5, <2>2, <2>4
  <2> QED BY <2>2, <2>5 DEF T, l
<1> HIDE DEF T
<1>8. 0 \in Int /\ N \in Int /\ N \in 0 .. N
  BY <1>2
<1>9. N \in T
  <2>1. \A k \in 0 .. N : k \in T
    BY <1>6, <1>7, <1>8, UpFrom
  <2> QED BY <1>8, <2>1
<1>10. Reached(last, ordered, N)
  BY <1>9 DEF T
<1> HIDE DEF last
<1>11. PICK found : Holds(last, found) /\ found \cup PlacesOf(last.open) = {ordered[i] : i \in 1 .. N}
  BY <1>10 DEF Reached
<1>12. last \in Accs
  BY <1>10 DEF Reached
<1> DEFINE all == found \cup PlacesOf(last.open)
<1>13. Closed(last) \in Seq(BlockWords) /\ Tiles(Closed(last), all)
  BY <1>11, <1>12, ClosedTiles
<1>14. {ordered[i] : i \in 1 .. N} = PlacesOf(entries)
  <2>1. ASSUME NEW i \in 1 .. N PROVE ordered[i] \in PlacesOf(entries)
    <3>1. PICK k \in 1 .. N : ordered[i] = entries[k]
      BY <1>1
    <3> QED BY <3>1 DEF PlacesOf, N
  <2>2. ASSUME NEW k \in 1 .. N PROVE entries[k] \in {ordered[i] : i \in 1 .. N}
    <3>1. PICK i \in 1 .. N : ordered[i] = entries[k]
      BY <1>1
    <3> QED BY <3>1
  <2>3. PlacesOf(entries) = {entries[k] : k \in 1 .. N}
    BY DEF PlacesOf, N
  <2> QED BY <2>1, <2>2, <2>3
<1>15. all = PlacesOf(entries)
  BY <1>11, <1>14
<1>16. Blocks(entries) = Closed(last)
  BY BlocksAre DEF last, acc, N
<1> HIDE DEF all
<1> QED BY <1>13, <1>15, <1>16

-----------------------------------------------------------------------------
(* The state of the relocations *)

Streams == [deltas : Seq(Int), more : SUBSET {Low, High}, pc : Int, entries : Seq(Entries), blocks : {<<>>}]

RelocInv ==
    /\ phase = "deltas" => work \in Streams /\ work.pc >= -4
    /\ phase = "blocks" => work.entries \in Seq(Entries) /\ work.blocks = Blocks(work.entries)

LEMMA RelocsElsewhere ==
    ASSUME phase' \notin {"deltas", "blocks"}
    PROVE  RelocInv'
BY DEF RelocInv

LEMMA BeginRelocsKeeps == ASSUME BeginRelocs PROVE RelocInv'
<1>1. CASE phase' = "resources"
  BY <1>1, RelocsElsewhere
<1>2. CASE phase' # "resources"
  <2>1. /\ phase' = "deltas"
        /\ \E deltas \in RelocStreams, more \in SUBSET {Low, High} :
              work' = [deltas |-> deltas, more |-> more, pc |-> -4, entries |-> <<>>, blocks |-> <<>>]
    BY <1>2 DEF BeginRelocs, Go
  <2>2. PICK deltas \in RelocStreams, more \in SUBSET {Low, High} :
            work' = [deltas |-> deltas, more |-> more, pc |-> -4, entries |-> <<>>, blocks |-> <<>>]
    BY <2>1
  <2>3. deltas \in Seq(Int)
    BY RelocAssumption
  <2>4. work' \in Streams /\ work'.pc = -4
    BY <2>2, <2>3 DEF Streams
  <2> QED BY <2>1, <2>4 DEF RelocInv
<1> QED BY <1>1, <1>2

LEMMA DecodeDeltaKeeps == ASSUME RelocInv, DecodeDelta PROVE RelocInv'
<1> DEFINE d == Head(work.deltas)
           pc == work.pc + d
<1>1. phase = "deltas" /\ work \in Streams /\ work.pc >= -4 /\ work.deltas # <<>>
  BY DEF DecodeDelta, RelocInv
<1>2. work.deltas \in Seq(Int) /\ work.pc \in Int /\ work.entries \in Seq(Entries)
  BY <1>1 DEF Streams
<1>3. d \in Int /\ Tail(work.deltas) \in Seq(Int)
  BY <1>1, <1>2
<1>4. CASE d < 4 \/ pc + Width > RelocLimit
  <2>1. phase' = "failed"
    BY <1>4 DEF DecodeDelta, Fail, Go
  <2> QED BY <2>1, RelocsElsewhere
<1>5. CASE ~(d < 4 \/ pc + Width > RelocLimit)
  <2>1. /\ work' = [work EXCEPT !.deltas = Tail(work.deltas), !.pc = pc,
                                !.entries = Append(work.entries, <<pc, EntryType>>)]
        /\ phase' = phase
    BY <1>5 DEF DecodeDelta
  <2>2. pc \in Nat
    <3> HIDE DEF d
    <3>1. ~(d < 4)
      BY <1>5
    <3> QED BY <1>1, <1>2, <1>3, <3>1
  <2>3. <<pc, EntryType>> \in Entries
    BY <2>2 DEF Entries, EntryType
  <2> HIDE DEF pc, d
  <2>4. Append(work.entries, <<pc, EntryType>>) \in Seq(Entries)
    BY <1>2, <2>3
  <2> DEFINE entries == Append(work.entries, <<pc, EntryType>>)
             deltas == Tail(work.deltas)
  <2> HIDE DEF entries, deltas
  <2>5. work' = [work EXCEPT !.deltas = deltas, !.pc = pc, !.entries = entries]
    BY <2>1 DEF entries, deltas
  <2>6. entries \in Seq(Entries) /\ deltas \in Seq(Int) /\ pc \in Int /\ pc >= -4
    BY <1>3, <2>2, <2>4 DEF entries, deltas
  <2>7. work' \in Streams /\ work'.pc = pc
    BY <1>1, <2>5, <2>6 DEF Streams
  <2> QED BY <1>1, <2>1, <2>6, <2>7 DEF RelocInv
<1> QED BY <1>4, <1>5

LEMMA BuildBlocksKeeps == ASSUME RelocInv, BuildBlocks PROVE RelocInv'
<1> DEFINE low == IF Low \in work.more THEN <<<<RelocLimit, Low>>>> ELSE <<>>
           high == IF High \in work.more THEN <<<<1, High>>>> ELSE <<>>
           all == work.entries \o low \o high
<1>1. phase = "deltas" /\ work \in Streams
  BY DEF BuildBlocks, RelocInv
<1>2. work.entries \in Seq(Entries)
  BY <1>1 DEF Streams
<1>3. <<RelocLimit, Low>> \in Entries /\ <<1, High>> \in Entries
  BY RelocAssumption DEF Entries, Low, High
<1>4. low \in Seq(Entries) /\ high \in Seq(Entries)
  BY <1>3
<1>5. phase' = "blocks" /\ work' = [work EXCEPT !.entries = all, !.blocks = Blocks(all)]
  BY DEF BuildBlocks, Go
<1> HIDE DEF low, high
<1>6. all \in Seq(Entries)
  BY <1>2, <1>4
<1> HIDE DEF all
<1>7. work'.entries = all /\ work'.blocks = Blocks(all)
  BY <1>1, <1>5 DEF Streams
<1> QED BY <1>5, <1>6, <1>7 DEF RelocInv

LEMMA RelocInvStep == RelocInv /\ [Next]_vars => RelocInv'
<1> SUFFICES ASSUME RelocInv, [Next]_vars PROVE RelocInv'
  OBVIOUS
<1>1. CASE UpxNext
  <2>1. CASE FindHeader
    BY <2>1, RelocsElsewhere DEF FindHeader, Fail, Go
  <2>2. CASE Decode
    BY <2>2, RelocsElsewhere DEF Decode, Fail, Go
  <2>3. CASE Unfilter
    BY <2>3, RelocsElsewhere DEF Unfilter, Fail, Go
  <2>4. CASE BeginImports
    BY <2>4, RelocsElsewhere DEF BeginImports, Go
  <2>5. CASE RebuildDll
    BY <2>5, RelocsElsewhere DEF RebuildDll
  <2>6. CASE BeginRelocs
    BY <2>6, BeginRelocsKeeps
  <2>7. CASE DecodeDelta
    BY <2>7, DecodeDeltaKeeps
  <2>8. CASE BuildBlocks
    BY <2>8, BuildBlocksKeeps
  <2>9. CASE BeginResources
    BY <2>9, RelocsElsewhere DEF BeginResources, Go
  <2>10. CASE BuildNode
    BY <2>10, RelocsElsewhere DEF BuildNode, Fail, Go
  <2>11. CASE PhaseDone
    BY <2>11, RelocsElsewhere DEF PhaseDone, PhaseOver, Go
  <2>12. CASE Assemble
    <3>1. \E table \in SectionTables : phase' \in {"failed", "done"}
      BY <2>12 DEF Assemble, Go
    <3> QED BY <3>1, RelocsElsewhere
  <2> QED
    BY <1>1, <2>1, <2>2, <2>3, <2>4, <2>5, <2>6, <2>7, <2>8, <2>9, <2>10, <2>11, <2>12 DEF UpxNext
<1>2. CASE StartUpx
  BY <1>2, RelocsElsewhere, Zenon DEF StartUpx, BeginUpx, Go
<1>3. CASE UpxReturns
  BY <1>3, RelocsElsewhere DEF UpxReturns
<1>4. CASE UNCHANGED upxVars
  BY <1>4 DEF upxVars, RelocInv
<1> QED
  BY <1>1, <1>2, <1>3, <1>4, Zenon DEF Next, vars, StartDump, DumpReturns

LEMMA RelocsOfAll == RelocInv => RelocsReadBack
<1> SUFFICES ASSUME RelocInv, phase = "blocks" PROVE RelocsReadBack
  BY DEF RelocsReadBack
<1> DEFINE w == work.blocks
           found == PlacesOf(work.entries)
<1>1. work.entries \in Seq(Entries) /\ w = Blocks(work.entries)
  BY DEF RelocInv
<1>2. w \in Seq(BlockWords) /\ Tiles(w, found)
  BY <1>1, BlocksTile
<1> HIDE DEF w, found
<1>3. WalkOf(w)[Len(w)] = [at |-> Len(w) + 1, found |-> found]
  BY <1>2, TilesWalk
<1>4. DOMAIN work.entries = 1 .. Len(work.entries)
  BY <1>1
<1>5. found = {work.entries[k] : k \in DOMAIN work.entries}
  BY <1>4 DEF found, PlacesOf
<1>6. WalkOf(w)[Len(w)] = [at |-> Len(w) + 1, found |-> {work.entries[k] : k \in DOMAIN work.entries}]
  BY <1>3, <1>5
<1> QED BY <1>6, Zenon DEF RelocsReadBack, w, WalkOf, IsWalk, IsWhole, OneBlockOn, ListedIn, BlockSize

\* The loader's walk over the blocks ends behind the last and has met the
\* relocations of the program, no more and no fewer, for any deltas, any size of
\* a page and any place of the lists of 16 bits: what is closed is a row of whole
\* blocks, and an entry lies in the page of its block because the entries are in
\* order.  (reloc::build_blocks)
THEOREM BlocksReadBack == Spec => []RelocsReadBack
<1>1. Init => RelocInv
  BY DEF Init, UpxInit, RelocInv
<1> QED
  BY <1>1, RelocInvStep, RelocsOfAll, PTL DEF Spec

-----------------------------------------------------------------------------
(* Sums *)

SumTo(f, n) == Total([k \in 1 .. n |-> f[k]])

\* The recursion of Total, as the specification writes it
IsSum(seq, sum) == sum = [k \in 0 .. Len(seq) |-> IF k = 0 THEN 0 ELSE sum[k - 1] + seq[k]]

SumOf(seq) == CHOOSE sum : IsSum(seq, sum)

LEMMA TotalIs == ASSUME NEW seq PROVE Total(seq) = SumOf(seq)[Len(seq)]
BY DEF Total, SumOf, IsSum

Sums(g, f, n) == g[0] = 0 /\ \A k \in 1 .. n : g[k] = g[k - 1] + f[k]

LEMMA SumExists ==
    ASSUME NEW n \in Nat, NEW f \in [1 .. n -> Nat]
    PROVE  \E g \in [0 .. n -> Nat] : Sums(g, f, n)
<1> DEFINE Step == [x \in Nat \X (1 .. n) |-> x[1] + f[x[2]]]
<1>1. Step \in [Nat \X (1 .. n) -> Nat]
  OBVIOUS
<1>2. \A a \in Nat, k \in 1 .. n : Step[<<a, k>>] = a + f[k]
  OBVIOUS
<1> HIDE DEF Step
<1>3. PICK g \in [0 .. n -> Nat] : Iterates(g, 0, Step, n)
  <2>1. 0 \in Nat
    OBVIOUS
  <2> QED BY <1>1, <2>1, Recursion
<1>4. Sums(g, f, n)
  <2>1. ASSUME NEW k \in 1 .. n PROVE g[k] = g[k - 1] + f[k]
    <3>1. k - 1 \in 0 .. n
      OBVIOUS
    <3>2. g[k - 1] \in Nat
      BY <3>1
    <3>3. g[k] = Step[<<g[k - 1], k>>]
      BY <1>3 DEF Iterates
    <3> QED BY <1>2, <3>2, <3>3
  <2> QED BY <1>3, <2>1 DEF Iterates, Sums
<1> QED BY <1>4

\* A sum is the value of any run that adds the same
LEMMA SumIs ==
    ASSUME NEW n \in Nat, NEW f \in [1 .. n -> Nat], NEW g, Sums(g, f, n), NEW m \in 0 .. n
    PROVE  SumTo(f, m) = g[m]
<1> DEFINE s == [k \in 1 .. m |-> f[k]]
<1>1. s \in Seq(Nat) /\ Len(s) = m
  OBVIOUS
<1>2. \A k \in 1 .. m : s[k] = f[k]
  OBVIOUS
<1> HIDE DEF s
<1>3. s \in [1 .. m -> Nat]
  BY <1>1
<1>4. PICK h \in [0 .. m -> Nat] : Sums(h, s, m)
  <2>1. m \in Nat
    OBVIOUS
  <2> QED BY <1>3, <2>1, SumExists
<1>5. IsSum(s, h)
  <2> DEFINE F == [k \in 0 .. m |-> IF k = 0 THEN 0 ELSE h[k - 1] + s[k]]
  <2>1. ASSUME NEW k \in 0 .. m PROVE h[k] = F[k]
    <3>1. CASE k = 0
      BY <1>4, <3>1 DEF Sums
    <3>2. CASE k # 0
      <4>1. k \in 1 .. m
        BY <3>2
      <4>2. F[k] = h[k - 1] + s[k]
        BY <3>2
      <4> QED BY <1>4, <4>1, <4>2 DEF Sums
    <3> QED BY <3>1, <3>2
  <2>2. F = [k \in 0 .. m |-> F[k]] /\ h = [k \in 0 .. m |-> h[k]]
    OBVIOUS
  <2> HIDE DEF F
  <2>3. h = F
    BY <2>1, <2>2
  <2> QED BY <1>1, <2>3 DEF F, IsSum
<1> DEFINE c == SumOf(s)
<1>6. IsSum(s, c)
  BY <1>5, Zenon DEF SumOf
<1> HIDE DEF c
<1>7. c[0] = 0
  <2>1. 0 \in 0 .. m
    OBVIOUS
  <2> QED BY <1>1, <1>6, <2>1 DEF IsSum
<1>8. ASSUME NEW k \in 1 .. m PROVE c[k] = c[k - 1] + s[k]
  <2>1. k \in 0 .. m /\ k # 0
    OBVIOUS
  <2> QED BY <1>1, <1>6, <2>1 DEF IsSum
<1>9. GoOnAlike(c, g, m)
  <2>1. ASSUME NEW k \in 1 .. m, c[k - 1] = g[k - 1] PROVE c[k] = g[k]
    <3>1. k \in 1 .. n /\ k \in 1 .. m
      OBVIOUS
    <3>2. g[k] = g[k - 1] + f[k]
      BY <3>1 DEF Sums
    <3>3. c[k] = c[k - 1] + s[k] /\ s[k] = f[k]
      BY <1>2, <1>8
    <3> QED BY <2>1, <3>2, <3>3
  <2>2. c[0] = g[0]
    BY <1>7 DEF Sums
  <2> QED BY <2>1, <2>2 DEF GoOnAlike
<1>10. Alike(c, g, m)
  <2>1. m \in Nat
    OBVIOUS
  <2> QED BY <1>9, <2>1, RunsAgree
<1>11. c[m] = g[m]
  <2>1. m \in 0 .. m
    OBVIOUS
  <2> QED BY <1>10, <2>1 DEF Alike
<1>12. Total(s) = c[Len(s)]
  BY TotalIs DEF c
<1> QED BY <1>1, <1>11, <1>12 DEF SumTo, s

LEMMA SumNext ==
    ASSUME NEW n \in Nat, NEW f \in [1 .. n -> Nat]
    PROVE  /\ SumTo(f, 0) = 0
           /\ \A m \in 0 .. n : SumTo(f, m) \in Nat
           /\ \A m \in 1 .. n : SumTo(f, m) = SumTo(f, m - 1) + f[m]
<1>1. PICK g \in [0 .. n -> Nat] : Sums(g, f, n)
  BY SumExists
<1>2. \A m \in 0 .. n : SumTo(f, m) = g[m]
  BY <1>1, SumIs
<1>3. SumTo(f, 0) = 0
  <2>1. 0 \in 0 .. n
    OBVIOUS
  <2> QED BY <1>1, <1>2, <2>1 DEF Sums
<1>4. ASSUME NEW m \in 1 .. n PROVE SumTo(f, m) = SumTo(f, m - 1) + f[m]
  <2>1. m \in 0 .. n /\ m - 1 \in 0 .. n
    OBVIOUS
  <2> QED BY <1>1, <1>2, <2>1 DEF Sums
<1> QED BY <1>2, <1>3, <1>4

LEMMA SumGrows ==
    ASSUME NEW n \in Nat, NEW f \in [1 .. n -> Nat], NEW a \in 0 .. n, NEW b \in a .. n
    PROVE  SumTo(f, a) <= SumTo(f, b)
<1> DEFINE T == {m \in a .. n : SumTo(f, a) <= SumTo(f, m)}
<1>1. \A m \in 0 .. n : SumTo(f, m) \in Nat
  BY SumNext
<1>2. a \in T
  BY <1>1
<1>3. \A m \in a .. n - 1 : m \in T => m + 1 \in T
  <2> SUFFICES ASSUME NEW m \in a .. n - 1, SumTo(f, a) <= SumTo(f, m) PROVE m + 1 \in T
    OBVIOUS
  <2>1. m + 1 \in 1 .. n /\ (m + 1) - 1 = m /\ m \in 0 .. n /\ m + 1 \in 0 .. n /\ m + 1 \in a .. n
    OBVIOUS
  <2> DEFINE l == m + 1
  <2>2. l \in 1 .. n /\ l - 1 = m /\ l \in 0 .. n
    BY <2>1
  <2> HIDE DEF l
  <2>3. SumTo(f, l) = SumTo(f, l - 1) + f[l]
    BY <2>2, SumNext
  <2>4. SumTo(f, l) \in Nat /\ SumTo(f, m) \in Nat /\ SumTo(f, a) \in Nat /\ f[l] \in Nat
    BY <1>1, <2>1, <2>2
  <2>5. SumTo(f, a) <= SumTo(f, l)
    BY <2>2, <2>3, <2>4
  <2> QED BY <2>1, <2>5 DEF l
<1> HIDE DEF T
<1>4. a \in Int /\ n \in Int
  OBVIOUS
<1>5. \A m \in a .. n : m \in T
  BY <1>2, <1>3, <1>4, UpFrom
<1> QED BY <1>5 DEF T

-----------------------------------------------------------------------------
(* The lists of imports *)

ItemKinds == Nat \cup {-1}

DllKinds == [len : Nat, items : Seq(ItemKinds)]

Fits(dlls) ==
    /\ dlls \in Seq(DllKinds)
    /\ \A d \in DOMAIN dlls :
          /\ dlls[d].len < Place
          /\ \A i \in DOMAIN dlls[d].items : dlls[d].items[i] + 2 < Place

ItemCount(dlls, d) == Len(dlls[d].items)

LEMMA DllFacts ==
    ASSUME NEW dlls, Fits(dlls)
    PROVE  /\ Len(dlls) \in Nat /\ DOMAIN dlls = 1 .. Len(dlls)
           /\ \A d \in 1 .. Len(dlls) :
                 /\ dlls[d].len \in Nat /\ dlls[d].len < Place
                 /\ dlls[d].items \in Seq(ItemKinds) /\ ItemCount(dlls, d) \in Nat
                 /\ DOMAIN dlls[d].items = 1 .. ItemCount(dlls, d)
                 /\ \A i \in 1 .. ItemCount(dlls, d) :
                       dlls[d].items[i] \in ItemKinds /\ dlls[d].items[i] + 2 < Place
<1>1. dlls \in Seq(DllKinds)
  BY DEF Fits
<1>2. Len(dlls) \in Nat /\ DOMAIN dlls = 1 .. Len(dlls)
  BY <1>1
<1>3. ASSUME NEW d \in 1 .. Len(dlls)
      PROVE  /\ dlls[d].len \in Nat /\ dlls[d].len < Place
             /\ dlls[d].items \in Seq(ItemKinds) /\ ItemCount(dlls, d) \in Nat
             /\ DOMAIN dlls[d].items = 1 .. ItemCount(dlls, d)
             /\ \A i \in 1 .. ItemCount(dlls, d) :
                   dlls[d].items[i] \in ItemKinds /\ dlls[d].items[i] + 2 < Place
  <2>1. dlls[d] \in DllKinds
    BY <1>1
  <2>2. dlls[d].len \in Nat /\ dlls[d].items \in Seq(ItemKinds)
    BY <2>1 DEF DllKinds
  <2> DEFINE s == dlls[d].items
  <2>3. s \in Seq(ItemKinds)
    BY <2>2
  <2>4. dlls[d].len < Place /\ \A i \in DOMAIN s : s[i] + 2 < Place
    <3>1. d \in DOMAIN dlls
      BY <1>2
    <3> QED BY <3>1, Zenon DEF Fits
  <2> HIDE DEF s
  <2>5. Len(s) \in Nat /\ DOMAIN s = 1 .. Len(s) /\ \A i \in 1 .. Len(s) : s[i] \in ItemKinds
    BY <2>3
  <2> QED BY <2>2, <2>4, <2>5 DEF s, ItemCount
<1> QED BY <1>2, <1>3

LEMMA PlaceTimes ==
    ASSUME NEW a \in Nat, NEW b \in Nat, a <= b
    PROVE  /\ Place \in Nat /\ Place * a \in Nat /\ Place * b \in Nat
           /\ Place * (a + 1) = Place * a + Place /\ Place * a <= Place * b
<1>1. Place \in Nat
  BY ImportAssumption
<1>2. PICK c \in Nat : b = a + c
  <2>1. b - a \in Nat /\ b = a + (b - a)
    OBVIOUS
  <2> QED BY <2>1
<1>3. Place * (a + c) = Place * a + Place * c /\ Place * c \in Nat /\ Place * a \in Nat
  BY <1>1
<1>4. Place * (a + 1) = Place * a + Place
  BY <1>1
<1> QED BY <1>1, <1>2, <1>3, <1>4

(* The slots of the DLLs follow each other *)

SlotCounts(dlls) == [k \in 1 .. Len(dlls) |-> ItemCount(dlls, k) + 1]

LEMMA IatIs ==
    ASSUME NEW dlls, Fits(dlls), NEW d \in 1 .. Len(dlls) + 1
    PROVE  IatAt(dlls, d) = SumTo(SlotCounts(dlls), d - 1)
<1>1. Len(dlls) \in Nat
  BY DllFacts
<1>2. \A k \in 1 .. d - 1 : k \in 1 .. Len(dlls)
  BY <1>1
<1>3. \A k \in 1 .. d - 1 : SlotCounts(dlls)[k] = Len(dlls[k].items) + 1
  BY <1>2 DEF SlotCounts, ItemCount
<1>4. [k \in 1 .. d - 1 |-> SlotCounts(dlls)[k]] = [k \in 1 .. d - 1 |-> Len(dlls[k].items) + 1]
  BY <1>3
<1> QED BY <1>4 DEF IatAt, SumTo

LEMMA SlotCountsAre ==
    ASSUME NEW dlls, Fits(dlls)
    PROVE  Len(dlls) \in Nat /\ SlotCounts(dlls) \in [1 .. Len(dlls) -> Nat]
<1>1. \A k \in 1 .. Len(dlls) : ItemCount(dlls, k) + 1 \in Nat
  BY DllFacts
<1> QED BY <1>1, DllFacts DEF SlotCounts

LEMMA IatNext ==
    ASSUME NEW dlls, Fits(dlls)
    PROVE  /\ IatAt(dlls, 1) = 0
           /\ \A d \in 1 .. Len(dlls) + 1 : IatAt(dlls, d) \in Nat
           /\ \A d \in 1 .. Len(dlls) : IatAt(dlls, d + 1) = IatAt(dlls, d) + ItemCount(dlls, d) + 1
<1> DEFINE f == SlotCounts(dlls)
           L == Len(dlls)
<1>1. L \in Nat /\ f \in [1 .. L -> Nat]
  BY SlotCountsAre
<1>2. \A d \in 1 .. L : f[d] = ItemCount(dlls, d) + 1 /\ ItemCount(dlls, d) \in Nat
  BY DllFacts DEF SlotCounts
<1>3. \A d \in 1 .. L + 1 : IatAt(dlls, d) = SumTo(f, d - 1)
  BY IatIs
<1> HIDE DEF f, L
<1>4. /\ SumTo(f, 0) = 0
      /\ \A m \in 0 .. L : SumTo(f, m) \in Nat
      /\ \A m \in 1 .. L : SumTo(f, m) = SumTo(f, m - 1) + f[m]
  BY <1>1, SumNext
<1>5. IatAt(dlls, 1) = 0
  <2>1. 1 \in 1 .. L + 1 /\ 1 - 1 = 0
    BY <1>1
  <2>2. IatAt(dlls, 1) = SumTo(f, 1 - 1)
    BY <1>3, <2>1
  <2> QED BY <1>4, <2>1, <2>2
<1>6. ASSUME NEW d \in 1 .. L + 1 PROVE IatAt(dlls, d) \in Nat
  <2>1. d - 1 \in 0 .. L
    BY <1>1
  <2> QED BY <1>3, <1>4, <2>1
<1>7. ASSUME NEW d \in 1 .. L PROVE IatAt(dlls, d + 1) = IatAt(dlls, d) + ItemCount(dlls, d) + 1
  <2>1. d + 1 \in 1 .. L + 1 /\ d \in 1 .. L + 1 /\ (d + 1) - 1 = d /\ d - 1 \in 0 .. L
    BY <1>1
  <2>2. IatAt(dlls, d + 1) = SumTo(f, (d + 1) - 1) /\ IatAt(dlls, d) = SumTo(f, d - 1)
    BY <1>3, <2>1
  <2>3. SumTo(f, d) = SumTo(f, d - 1) + f[d] /\ SumTo(f, d - 1) \in Nat
    BY <1>4, <2>1
  <2> QED BY <1>2, <2>1, <2>2, <2>3
<1> QED BY <1>5, <1>6, <1>7 DEF L

LEMMA IatGrows ==
    ASSUME NEW dlls, Fits(dlls), NEW d \in 1 .. Len(dlls), NEW e \in d + 1 .. Len(dlls) + 1
    PROVE  IatAt(dlls, d) + ItemCount(dlls, d) + 1 <= IatAt(dlls, e)
<1> DEFINE f == SlotCounts(dlls)
           L == Len(dlls)
<1>1. L \in Nat /\ f \in [1 .. L -> Nat]
  BY SlotCountsAre
<1>2. IatAt(dlls, d + 1) = IatAt(dlls, d) + ItemCount(dlls, d) + 1
  BY IatNext
<1>3. d + 1 \in 1 .. L + 1 /\ e \in 1 .. L + 1 /\ (d + 1) - 1 \in 0 .. L /\ e - 1 \in (d + 1) - 1 .. L
  BY <1>1
<1>4. IatAt(dlls, d + 1) = SumTo(f, (d + 1) - 1) /\ IatAt(dlls, e) = SumTo(f, e - 1)
  BY <1>3, IatIs
<1> HIDE DEF f, L
<1> DEFINE a == (d + 1) - 1
           b == e - 1
<1>5. a \in 0 .. L /\ b \in a .. L
  BY <1>3
<1> HIDE DEF a, b
<1>6. SumTo(f, a) <= SumTo(f, b)
  BY <1>1, <1>5, SumGrows
<1> QED BY <1>2, <1>4, <1>6 DEF a, b

\* A slot is of one DLL and of one import
LEMMA SlotIsOne ==
    ASSUME NEW dlls, Fits(dlls), NEW d \in 1 .. Len(dlls), NEW e \in 1 .. Len(dlls),
           NEW i \in 0 .. ItemCount(dlls, d), NEW j \in 0 .. ItemCount(dlls, e),
           IatAt(dlls, d) + i = IatAt(dlls, e) + j
    PROVE  d = e /\ i = j
<1>1. /\ ItemCount(dlls, d) \in Nat /\ ItemCount(dlls, e) \in Nat /\ Len(dlls) \in Nat
      /\ IatAt(dlls, d) \in Nat /\ IatAt(dlls, e) \in Nat
  <2>1. d \in 1 .. Len(dlls) + 1 /\ e \in 1 .. Len(dlls) + 1
    BY DllFacts
  <2> QED BY <2>1, DllFacts, IatNext
<1>2. ~(d < e)
  <2> SUFFICES ASSUME d < e PROVE FALSE
    OBVIOUS
  <2>1. e \in d + 1 .. Len(dlls) + 1
    BY <1>1
  <2>2. IatAt(dlls, d) + ItemCount(dlls, d) + 1 <= IatAt(dlls, e)
    BY <2>1, IatGrows
  <2> QED BY <1>1, <2>2
<1>3. ~(e < d)
  <2> SUFFICES ASSUME e < d PROVE FALSE
    OBVIOUS
  <2>1. d \in e + 1 .. Len(dlls) + 1
    BY <1>1
  <2>2. IatAt(dlls, e) + ItemCount(dlls, e) + 1 <= IatAt(dlls, d)
    BY <2>1, IatGrows
  <2> QED BY <1>1, <2>2
<1>4. d = e
  BY <1>2, <1>3
<1> QED BY <1>1, <1>4

(* The names of the DLLs, and the room for those of the functions *)

NameSizes(dlls) == [k \in 1 .. Len(dlls) |-> dlls[k].len + 1]

NamesTo(dlls, d) == SumTo(NameSizes(dlls), d)

LEMMA NamesNext ==
    ASSUME NEW dlls, Fits(dlls)
    PROVE  /\ NamesTo(dlls, 0) = 0
           /\ \A d \in 0 .. Len(dlls) : NamesTo(dlls, d) \in Nat /\ NamesTo(dlls, d) <= NamesTo(dlls, Len(dlls))
           /\ \A d \in 1 .. Len(dlls) : NamesTo(dlls, d) = NamesTo(dlls, d - 1) + (dlls[d].len + 1)
           /\ DllNames(dlls) = NamesTo(dlls, Len(dlls))
<1> DEFINE f == NameSizes(dlls)
           L == Len(dlls)
<1>1. L \in Nat /\ DOMAIN dlls = 1 .. L
  BY DllFacts
<1>2. f \in [1 .. L -> Nat] /\ \A d \in 1 .. L : f[d] = dlls[d].len + 1
  <2>1. \A k \in 1 .. L : dlls[k].len + 1 \in Nat
    BY DllFacts
  <2> QED BY <2>1 DEF NameSizes
<1>3. DllNames(dlls) = SumTo(f, L)
  <2>1. [d \in DOMAIN dlls |-> dlls[d].len + 1] = [k \in 1 .. L |-> f[k]]
    BY <1>1 DEF NameSizes
  <2> HIDE DEF f, L
  <2> QED BY <2>1 DEF DllNames, SumTo
<1> HIDE DEF f, L
<1>4. /\ SumTo(f, 0) = 0
      /\ \A m \in 0 .. L : SumTo(f, m) \in Nat
      /\ \A m \in 1 .. L : SumTo(f, m) = SumTo(f, m - 1) + f[m]
  BY <1>1, <1>2, SumNext
<1>5. ASSUME NEW d \in 0 .. L PROVE SumTo(f, d) <= SumTo(f, L)
  <2>1. L \in d .. L
    BY <1>1
  <2> QED BY <1>1, <1>2, <2>1, SumGrows
<1> QED BY <1>2, <1>3, <1>4, <1>5 DEF NamesTo, f, L

LEMMA MaxWithZero ==
    ASSUME NEW n \in ItemKinds
    PROVE  Max({n, 0}) \in Nat /\ n <= Max({n, 0})
<1> DEFINE hi == IF n > 0 THEN n ELSE 0
           S == {n, 0}
<1>1. hi \in Int /\ S \in SUBSET Int /\ S # {} /\ \A x \in S : x <= hi
  BY DEF ItemKinds
<1> HIDE DEF hi, S
<1>2. Max(S) \in Int /\ \A x \in S : x <= Max(S)
  BY <1>1, MaxOf
<1>3. n \in S /\ 0 \in S
  BY DEF S
<1> QED BY <1>2, <1>3 DEF S

ItemRooms(dll) == [i \in 1 .. Len(dll.items) |-> 4 + Max({dll.items[i], 0})]

ItemsTo(dll, i) == SumTo(ItemRooms(dll), i)

LEMMA ItemsNext ==
    ASSUME NEW dll, dll.items \in Seq(ItemKinds)
    PROVE  /\ ItemsTo(dll, 0) = 0
           /\ \A i \in 0 .. Len(dll.items) : ItemsTo(dll, i) \in Nat /\ ItemsTo(dll, i) <= Room(dll)
           /\ \A i \in 1 .. Len(dll.items) :
                 /\ ItemsTo(dll, i - 1) + 4 <= ItemsTo(dll, i)
                 /\ ItemsTo(dll, i - 1) + 4 + dll.items[i] <= ItemsTo(dll, i)
           /\ Room(dll) = ItemsTo(dll, Len(dll.items))
<1> DEFINE f == ItemRooms(dll)
           n == Len(dll.items)
           s == dll.items
<1>1. n \in Nat /\ DOMAIN s = 1 .. n
  OBVIOUS
<1>2. \A i \in 1 .. n : s[i] \in ItemKinds
  OBVIOUS
<1>3. \A i \in 1 .. n : Max({s[i], 0}) \in Nat /\ s[i] <= Max({s[i], 0})
  BY <1>2, MaxWithZero
<1>4. f \in [1 .. n -> Nat] /\ \A i \in 1 .. n : f[i] = 4 + Max({s[i], 0})
  <2>1. \A i \in 1 .. n : 4 + Max({s[i], 0}) \in Nat
    BY <1>3
  <2> QED BY <2>1 DEF ItemRooms
<1>5. Room(dll) = SumTo(f, n)
  <2>1. [i \in DOMAIN dll.items |-> 4 + Max({dll.items[i], 0})] = [k \in 1 .. n |-> f[k]]
    BY <1>1 DEF ItemRooms
  <2> HIDE DEF f, n, s
  <2> QED BY <2>1 DEF Room, SumTo
<1> HIDE DEF f, n, s
<1>6. /\ SumTo(f, 0) = 0
      /\ \A m \in 0 .. n : SumTo(f, m) \in Nat
      /\ \A m \in 1 .. n : SumTo(f, m) = SumTo(f, m - 1) + f[m]
  BY <1>1, <1>4, SumNext
<1>7. ASSUME NEW i \in 0 .. n PROVE SumTo(f, i) <= SumTo(f, n)
  <2>1. n \in i .. n
    BY <1>1
  <2> QED BY <1>1, <1>4, <2>1, SumGrows
<1>8. ASSUME NEW i \in 1 .. n
      PROVE  SumTo(f, i - 1) + 4 <= SumTo(f, i) /\ SumTo(f, i - 1) + 4 + s[i] <= SumTo(f, i)
  <2>1. i - 1 \in 0 .. n
    BY <1>1
  <2>2. SumTo(f, i - 1) \in Nat /\ SumTo(f, i) = SumTo(f, i - 1) + f[i] /\ f[i] = 4 + Max({s[i], 0})
    BY <1>4, <1>6, <2>1
  <2>3. PICK m \in Nat : m = Max({s[i], 0})
    BY <1>3
  <2>4. s[i] <= m /\ s[i] \in Int
    BY <1>2, <1>3, <2>3 DEF ItemKinds
  <2> QED BY <2>2, <2>3, <2>4
<1> QED BY <1>5, <1>6, <1>7, <1>8 DEF ItemsTo, f, n, s

Rooms(dlls) == [d \in 1 .. Len(dlls) |-> Room(dlls[d])]

RoomTo(dlls, d) == SumTo(Rooms(dlls), d)

LEMMA RoomNext ==
    ASSUME NEW dlls, Fits(dlls)
    PROVE  /\ RoomTo(dlls, 0) = 0
           /\ \A d \in 0 .. Len(dlls) : RoomTo(dlls, d) \in Nat /\ RoomTo(dlls, d) <= RoomTo(dlls, Len(dlls))
           /\ \A d \in 1 .. Len(dlls) : RoomTo(dlls, d) = RoomTo(dlls, d - 1) + Room(dlls[d])
           /\ AreaSize(dlls) = Even(DllNames(dlls)) + RoomTo(dlls, Len(dlls))
<1> DEFINE f == Rooms(dlls)
           L == Len(dlls)
<1>1. L \in Nat /\ DOMAIN dlls = 1 .. L
  BY DllFacts
<1>2. f \in [1 .. L -> Nat] /\ \A d \in 1 .. L : f[d] = Room(dlls[d])
  <2>1. ASSUME NEW d \in 1 .. L PROVE Room(dlls[d]) \in Nat
    <3>1. dlls[d].items \in Seq(ItemKinds) /\ Len(dlls[d].items) \in Nat
      BY DllFacts DEF ItemCount
    <3>2. Len(dlls[d].items) \in 0 .. Len(dlls[d].items)
      BY <3>1
    <3> DEFINE dll == dlls[d]
    <3> HIDE DEF dll
    <3>3. ItemsTo(dll, Len(dll.items)) \in Nat /\ Room(dll) = ItemsTo(dll, Len(dll.items))
      BY <3>1, <3>2, ItemsNext DEF dll
    <3> QED BY <3>3 DEF dll
  <2> QED BY <2>1 DEF Rooms
<1>3. AreaSize(dlls) = Even(DllNames(dlls)) + SumTo(f, L)
  <2>1. [d \in DOMAIN dlls |-> Room(dlls[d])] = [k \in 1 .. L |-> f[k]]
    BY <1>1 DEF Rooms
  <2> HIDE DEF f, L
  <2> QED BY <2>1 DEF AreaSize, SumTo
<1> HIDE DEF f, L
<1>4. /\ SumTo(f, 0) = 0
      /\ \A m \in 0 .. L : SumTo(f, m) \in Nat
      /\ \A m \in 1 .. L : SumTo(f, m) = SumTo(f, m - 1) + f[m]
  BY <1>1, <1>2, SumNext
<1>5. ASSUME NEW d \in 0 .. L PROVE SumTo(f, d) <= SumTo(f, L)
  <2>1. L \in d .. L
    BY <1>1
  <2> QED BY <1>1, <1>2, <2>1, SumGrows
<1> QED BY <1>2, <1>3, <1>4, <1>5 DEF RoomTo, f, L

LEMMA EvenIs == ASSUME NEW n \in Nat PROVE Even(n) \in Nat /\ n <= Even(n)
BY DEF Even

-----------------------------------------------------------------------------
(* What is written where *)

Cells == Int \X Int \X Int

ReadsAt(area, at, text) ==
    \A k \in DOMAIN text : at + k - 1 \in DOMAIN area /\ area[at + k - 1] = text[k]

LEMMA SpelledIs ==
    ASSUME NEW d \in Int, NEW i \in Int, NEW len \in Nat
    PROVE  /\ Spelled(d, i, len) \in Seq(Cells) /\ Len(Spelled(d, i, len)) = len + 1
           /\ DOMAIN Spelled(d, i, len) = 1 .. len + 1
<1>1. \A k \in 1 .. len + 1 : (IF k <= len THEN <<d, i, k>> ELSE Nul) \in Cells
  BY DEF Nul, Cells
<1>2. Spelled(d, i, len) = [k \in 1 .. len + 1 |-> IF k <= len THEN <<d, i, k>> ELSE Nul]
  BY DEF Spelled
<1> QED BY <1>1, <1>2

LEMMA PutIs ==
    ASSUME NEW size \in Int, NEW area \in [0 .. size - 1 -> Cells], NEW at \in Nat, NEW text \in Seq(Cells),
           at + Len(text) <= size
    PROVE  /\ PutAt(area, at, text) \in [0 .. size - 1 -> Cells]
           /\ ReadsAt(PutAt(area, at, text), at, text)
           /\ \A p \in 0 .. size - 1 :
                 p < at \/ p >= at + Len(text) => PutAt(area, at, text)[p] = area[p]
<1> DEFINE n == Len(text)
           new == PutAt(area, at, text)
<1>1. n \in Nat /\ DOMAIN text = 1 .. n /\ \A k \in 1 .. n : text[k] \in Cells
  OBVIOUS
<1>2. DOMAIN area = 0 .. size - 1 /\ \A p \in 0 .. size - 1 : area[p] \in Cells
  OBVIOUS
<1>3. new = [p \in 0 .. size - 1 |-> IF p \in at .. at + n - 1 THEN text[p - at + 1] ELSE area[p]]
  BY <1>2 DEF PutAt
<1> HIDE DEF n, new
<1>4. \A p \in 0 .. size - 1 : p \in at .. at + n - 1 => p - at + 1 \in 1 .. n
  BY <1>1
<1>5. new \in [0 .. size - 1 -> Cells]
  BY <1>1, <1>2, <1>3, <1>4
<1>6. ASSUME NEW k \in 1 .. n PROVE at + k - 1 \in 0 .. size - 1 /\ new[at + k - 1] = text[k]
  <2> DEFINE p == at + k - 1
  <2>1. p \in 0 .. size - 1 /\ p \in at .. at + n - 1 /\ p - at + 1 = k
    BY <1>1 DEF n
  <2> HIDE DEF p
  <2>2. new[p] = text[p - at + 1]
    BY <1>3, <2>1
  <2> QED BY <2>1, <2>2 DEF p
<1>7. ReadsAt(new, at, text)
  <2>1. DOMAIN new = 0 .. size - 1
    BY <1>3
  <2> QED BY <1>1, <1>6, <2>1 DEF ReadsAt
<1>8. ASSUME NEW p \in 0 .. size - 1, p < at \/ p >= at + n PROVE new[p] = area[p]
  <2>1. ~(p \in at .. at + n - 1)
    BY <1>1, <1>8
  <2> QED BY <1>3, <2>1
<1> QED BY <1>5, <1>7, <1>8 DEF n, new

\* What lies between lo and hi stays as it was
AreaKept(area, new, size, lo, hi) == \A p \in 0 .. size - 1 : lo <= p /\ p < hi => new[p] = area[p]

LEMMA ReadsKept ==
    ASSUME NEW size \in Int, NEW area \in [0 .. size - 1 -> Cells], NEW new \in [0 .. size - 1 -> Cells],
           NEW a \in Nat, NEW len \in Nat, NEW text, DOMAIN text = 1 .. len + 1, ReadsAt(area, a, text),
           AreaKept(area, new, size, a, a + len + 1)
    PROVE  ReadsAt(new, a, text)
<1>1. ASSUME NEW k \in 1 .. len + 1
      PROVE  a + k - 1 \in 0 .. size - 1 /\ new[a + k - 1] = text[k]
  <2> DEFINE p == a + k - 1
  <2>1. p \in Int /\ a <= p /\ p < a + len + 1
    OBVIOUS
  <2>2. p \in 0 .. size - 1 /\ area[p] = text[k]
    BY DEF ReadsAt
  <2> HIDE DEF p
  <2>3. new[p] = area[p]
    BY <2>1, <2>2 DEF AreaKept
  <2> QED BY <2>2, <2>3 DEF p
<1> QED BY <1>1 DEF ReadsAt

DllFound(dlls, area, names, e, lo) ==
    /\ names[e] \in Nat
    /\ names[e] + dlls[e].len + 1 <= lo
    /\ ReadsAt(area, names[e], Spelled(e, 0, dlls[e].len))

SlotOf(dlls, e, j) == IatAt(dlls, e) + j - 1

NameFound(area, at, e, j, n, base, hi) ==
    /\ at \in Nat /\ base <= at /\ at + n + 1 <= hi
    /\ ReadsAt(area, at, Spelled(e, j, n))

SlotFound(dlls, area, slots, e, j, base, hi) ==
    /\ dlls[e].items[j] > 0 =>
          /\ slots[SlotOf(dlls, e, j)][1] = "at"
          /\ NameFound(area, slots[SlotOf(dlls, e, j)][2] + 2, e, j, dlls[e].items[j], base, hi)
    /\ dlls[e].items[j] = 0 => slots[SlotOf(dlls, e, j)] = <<"ordinal", j>>
    /\ dlls[e].items[j] < 0 => slots[SlotOf(dlls, e, j)] = <<"bound", j>>

\* The names of the first D DLLs and the imports of the slots before s
NamesFound(dlls, area, names, D, lo) ==
    \A e \in 1 .. Len(dlls) : e <= D => DllFound(dlls, area, names, e, lo)

SlotsFound(dlls, area, slots, s, base, hi) ==
    \A e \in 1 .. Len(dlls) : \A j \in 1 .. ItemCount(dlls, e) :
        SlotOf(dlls, e, j) < s => SlotFound(dlls, area, slots, e, j, base, hi)

EndsFound(dlls, slots, s) ==
    \A e \in 1 .. Len(dlls) :
        IatAt(dlls, e) + ItemCount(dlls, e) < s =>
            slots[IatAt(dlls, e) + ItemCount(dlls, e)] = <<"end", 0>>

SlotKinds == {"at", "ordinal", "bound", "unset", "end"} \X Int

SlotEnd(dlls) == IatAt(dlls, Len(dlls) + 1)

LEMMA SlotInside ==
    ASSUME NEW dlls, Fits(dlls), NEW d \in 1 .. Len(dlls), NEW i \in 1 .. ItemCount(dlls, d) + 1
    PROVE  /\ SlotOf(dlls, d, i) \in 0 .. SlotEnd(dlls) - 1
           /\ SlotOf(dlls, d, i) = IatAt(dlls, d) + i - 1 /\ IatAt(dlls, d) \in Nat
           /\ SlotOf(dlls, d, i) \in Nat /\ SlotEnd(dlls) \in Nat /\ ItemCount(dlls, d) \in Nat
<1>1. /\ Len(dlls) \in Nat /\ ItemCount(dlls, d) \in Nat
      /\ d \in 1 .. Len(dlls) + 1 /\ Len(dlls) + 1 \in d + 1 .. Len(dlls) + 1
  BY DllFacts
<1>2. IatAt(dlls, d) \in Nat /\ IatAt(dlls, Len(dlls) + 1) \in Nat
  BY <1>1, IatNext
<1>3. IatAt(dlls, d) + ItemCount(dlls, d) + 1 <= IatAt(dlls, Len(dlls) + 1)
  BY <1>1, IatGrows
<1> QED BY <1>1, <1>2, <1>3 DEF SlotOf, SlotEnd

SlotsKept(slots, slots2, s) == \A u \in DOMAIN slots : u < s => slots2[u] = slots[u]

NamesKept(dlls, names, names2, D) == \A e \in 1 .. Len(dlls) : e <= D => names2[e] = names[e]

LEMMA NamesStay ==
    ASSUME NEW dlls, Fits(dlls),
           NEW size \in Int, NEW area \in [0 .. size - 1 -> Cells], NEW new \in [0 .. size - 1 -> Cells],
           NEW names, NEW names2, NEW D \in Int, NEW lo \in Int, NEW lo2 \in Int, lo <= lo2,
           NamesKept(dlls, names, names2, D), AreaKept(area, new, size, 0, lo),
           NamesFound(dlls, area, names, D, lo)
    PROVE  NamesFound(dlls, new, names2, D, lo2)
<1> SUFFICES ASSUME NEW e \in 1 .. Len(dlls), e <= D PROVE DllFound(dlls, new, names2, e, lo2)
  BY DEF NamesFound
<1>1. DllFound(dlls, area, names, e, lo) /\ names2[e] = names[e]
  BY DEF NamesFound, NamesKept
<1>2. dlls[e].len \in Nat /\ e \in Int
  BY DllFacts
<1> DEFINE a == names[e]
           len == dlls[e].len
           text == Spelled(e, 0, len)
<1>3. a \in Nat /\ a + len + 1 <= lo /\ ReadsAt(area, a, text)
  BY <1>1 DEF DllFound
<1>4. DOMAIN text = 1 .. len + 1
  <2>1. len \in Nat /\ 0 \in Int /\ e \in Int
    BY <1>2
  <2> HIDE DEF len
  <2> QED BY <2>1, SpelledIs
<1> HIDE DEF a, text, len
<1>5. len \in Nat
  BY <1>2 DEF len
<1>6. AreaKept(area, new, size, a, a + len + 1)
  BY <1>3, <1>5 DEF AreaKept
<1>7. ReadsAt(new, a, text)
  BY <1>3, <1>4, <1>5, <1>6, ReadsKept
<1>8. a + len + 1 <= lo2
  BY <1>3, <1>5
<1> QED BY <1>1, <1>3, <1>7, <1>8 DEF DllFound, a, len, text

LEMMA SlotsStay ==
    ASSUME NEW dlls, Fits(dlls),
           NEW size \in Int, NEW area \in [0 .. size - 1 -> Cells], NEW new \in [0 .. size - 1 -> Cells],
           NEW slots \in [0 .. SlotEnd(dlls) - 1 -> SlotKinds], NEW slots2, NEW s \in Int,
           NEW base \in Int, NEW hi \in Int, NEW hi2 \in Int, hi <= hi2,
           SlotsKept(slots, slots2, s), AreaKept(area, new, size, base, hi),
           SlotsFound(dlls, area, slots, s, base, hi), EndsFound(dlls, slots, s)
    PROVE  SlotsFound(dlls, new, slots2, s, base, hi2) /\ EndsFound(dlls, slots2, s)
<1>1. ASSUME NEW e \in 1 .. Len(dlls)
      PROVE  e \in Int /\ IatAt(dlls, e) \in Nat /\ ItemCount(dlls, e) \in Nat
  <2>1. e \in 1 .. Len(dlls) + 1
    BY DllFacts
  <2> QED BY <2>1, DllFacts, IatNext
<1>2. ASSUME NEW e \in 1 .. Len(dlls), NEW j \in 1 .. ItemCount(dlls, e), SlotOf(dlls, e, j) < s
      PROVE  SlotFound(dlls, new, slots2, e, j, base, hi2)
  <2>1. SlotFound(dlls, area, slots, e, j, base, hi)
    BY <1>2 DEF SlotsFound
  <2> DEFINE u == SlotOf(dlls, e, j)
             n == dlls[e].items[j]
  <2>2. u \in DOMAIN slots
    <3>1. j \in 1 .. ItemCount(dlls, e) + 1
      BY <1>1
    <3> QED BY <3>1, SlotInside
  <2> HIDE DEF u
  <2>3. slots2[u] = slots[u]
    BY <1>2, <2>2 DEF u, SlotsKept
  <2>4. n \in ItemKinds
    BY DllFacts
  <2> HIDE DEF n
  <2>5. CASE n > 0
    <3> DEFINE a == slots[u][2] + 2
               text == Spelled(e, j, n)
    <3>1. slots[u][1] = "at" /\ NameFound(area, a, e, j, n, base, hi)
      BY <2>1, <2>5 DEF SlotFound, u, n
    <3> HIDE DEF a
    <3>2. n \in Nat /\ e \in Int /\ j \in Int
      BY <1>1, <2>4, <2>5 DEF ItemKinds
    <3>3. DOMAIN text = 1 .. n + 1
      BY <3>2, SpelledIs
    <3>4. a \in Nat /\ base <= a /\ a + n + 1 <= hi /\ ReadsAt(area, a, text)
      BY <3>1 DEF NameFound
    <3> HIDE DEF text
    <3>5. AreaKept(area, new, size, a, a + n + 1)
      BY <3>2, <3>4 DEF AreaKept
    <3>6. ReadsAt(new, a, text)
      BY <3>2, <3>3, <3>4, <3>5, ReadsKept
    <3>7. a + n + 1 <= hi2
      BY <3>2, <3>4
    <3>8. NameFound(new, a, e, j, n, base, hi2)
      BY <3>4, <3>6, <3>7 DEF NameFound, text
    <3>9. slots2[u][1] = "at" /\ NameFound(new, slots2[u][2] + 2, e, j, n, base, hi2)
      BY <2>3, <3>1, <3>8 DEF a
    <3>10. ~(n = 0) /\ ~(n < 0)
      BY <2>5, <3>2
    <3> QED BY <3>9, <3>10 DEF SlotFound, u, n
  <2>6. CASE n = 0
    <3>1. slots[u] = <<"ordinal", j>> /\ ~(n > 0) /\ ~(n < 0)
      BY <2>1, <2>6 DEF SlotFound, u, n
    <3> QED BY <2>3, <3>1 DEF SlotFound, u, n
  <2>7. CASE n < 0
    <3>1. slots[u] = <<"bound", j>> /\ ~(n > 0) /\ ~(n = 0)
      BY <2>1, <2>4, <2>7 DEF SlotFound, u, n, ItemKinds
    <3> QED BY <2>3, <3>1 DEF SlotFound, u, n
  <2> QED BY <2>4, <2>5, <2>6, <2>7 DEF ItemKinds
<1>3. ASSUME NEW e \in 1 .. Len(dlls), IatAt(dlls, e) + ItemCount(dlls, e) < s
      PROVE  slots2[IatAt(dlls, e) + ItemCount(dlls, e)] = <<"end", 0>>
  <2> DEFINE u == IatAt(dlls, e) + ItemCount(dlls, e)
  <2>1. u \in DOMAIN slots
    <3> DEFINE j == ItemCount(dlls, e) + 1
    <3>1. j \in 1 .. ItemCount(dlls, e) + 1 /\ u = IatAt(dlls, e) + j - 1
      BY <1>1
    <3> HIDE DEF j, u
    <3> QED BY <3>1, SlotInside
  <2>2. slots[u] = <<"end", 0>>
    BY <1>3 DEF EndsFound
  <2>3. u < s
    BY <1>3
  <2> HIDE DEF u
  <2>4. slots2[u] = slots[u]
    BY <2>1, <2>3 DEF SlotsKept
  <2> QED BY <2>2, <2>4 DEF u
<1> QED BY <1>2, <1>3 DEF SlotsFound, EndsFound

LEMMA OneSlotMore ==
    ASSUME NEW dlls, Fits(dlls), NEW d \in 1 .. Len(dlls), NEW i \in 1 .. ItemCount(dlls, d),
           NEW area, NEW slots, NEW s \in Int, NEW base, NEW hi, s = SlotOf(dlls, d, i),
           SlotsFound(dlls, area, slots, s, base, hi), EndsFound(dlls, slots, s),
           SlotFound(dlls, area, slots, d, i, base, hi)
    PROVE  SlotsFound(dlls, area, slots, s + 1, base, hi) /\ EndsFound(dlls, slots, s + 1)
<1>1. ASSUME NEW e \in 1 .. Len(dlls)
      PROVE  IatAt(dlls, e) \in Nat /\ ItemCount(dlls, e) \in Nat
  <2>1. e \in 1 .. Len(dlls) + 1
    BY DllFacts
  <2> QED BY <2>1, DllFacts, IatNext
<1>2. IatAt(dlls, d) \in Nat /\ i - 1 \in 0 .. ItemCount(dlls, d) /\ s = IatAt(dlls, d) + (i - 1)
  BY <1>1 DEF SlotOf
<1>3. ASSUME NEW e \in 1 .. Len(dlls), NEW j \in 1 .. ItemCount(dlls, e), SlotOf(dlls, e, j) < s + 1
      PROVE  SlotFound(dlls, area, slots, e, j, base, hi)
  <2>1. j - 1 \in 0 .. ItemCount(dlls, e) /\ SlotOf(dlls, e, j) = IatAt(dlls, e) + (j - 1) /\ IatAt(dlls, e) \in Nat
    BY <1>1 DEF SlotOf
  <2>2. SlotOf(dlls, e, j) < s \/ SlotOf(dlls, e, j) = s
    BY <1>3, <2>1
  <2>3. CASE SlotOf(dlls, e, j) = s
    <3>1. IatAt(dlls, d) + (i - 1) = IatAt(dlls, e) + (j - 1)
      BY <1>2, <2>1, <2>3
    <3> DEFINE x == i - 1
               y == j - 1
    <3>2. x \in 0 .. ItemCount(dlls, d) /\ y \in 0 .. ItemCount(dlls, e) /\ IatAt(dlls, d) + x = IatAt(dlls, e) + y
      BY <1>2, <2>1, <3>1
    <3> HIDE DEF x, y
    <3>3. d = e /\ x = y
      BY <3>2, SlotIsOne
    <3>4. i = j
      BY <3>3 DEF x, y
    <3> QED BY <3>3, <3>4
  <2> QED BY <2>2, <2>3 DEF SlotsFound
<1>4. ASSUME NEW e \in 1 .. Len(dlls), IatAt(dlls, e) + ItemCount(dlls, e) < s + 1
      PROVE  IatAt(dlls, e) + ItemCount(dlls, e) < s
  <2>1. IatAt(dlls, e) \in Nat /\ ItemCount(dlls, e) \in Nat
    BY <1>1
  <2>2. CASE IatAt(dlls, e) + ItemCount(dlls, e) = s
    <3> DEFINE x == i - 1
               y == ItemCount(dlls, e)
    <3>2. x \in 0 .. ItemCount(dlls, d) /\ y \in 0 .. ItemCount(dlls, e) /\ IatAt(dlls, d) + x = IatAt(dlls, e) + y
      BY <1>2, <2>1, <2>2
    <3>3. x # ItemCount(dlls, d)
      BY <1>1
    <3> HIDE DEF x
    <3>4. d = e /\ x = y
      BY <3>2, SlotIsOne
    <3> QED BY <3>3, <3>4
  <2> QED BY <1>4, <2>1, <2>2
<1> QED BY <1>3, <1>4 DEF SlotsFound, EndsFound

LEMMA OneEndMore ==
    ASSUME NEW dlls, Fits(dlls), NEW d \in 1 .. Len(dlls),
           NEW area, NEW slots, NEW s \in Int, NEW base, NEW hi, s = IatAt(dlls, d) + ItemCount(dlls, d),
           SlotsFound(dlls, area, slots, s, base, hi), EndsFound(dlls, slots, s),
           slots[s] = <<"end", 0>>
    PROVE  SlotsFound(dlls, area, slots, s + 1, base, hi) /\ EndsFound(dlls, slots, s + 1)
<1>1. ASSUME NEW e \in 1 .. Len(dlls)
      PROVE  IatAt(dlls, e) \in Nat /\ ItemCount(dlls, e) \in Nat
  <2>1. e \in 1 .. Len(dlls) + 1
    BY DllFacts
  <2> QED BY <2>1, DllFacts, IatNext
<1>3. ASSUME NEW e \in 1 .. Len(dlls), NEW j \in 1 .. ItemCount(dlls, e), SlotOf(dlls, e, j) < s + 1
      PROVE  SlotFound(dlls, area, slots, e, j, base, hi)
  <2>1. j - 1 \in 0 .. ItemCount(dlls, e) /\ SlotOf(dlls, e, j) = IatAt(dlls, e) + (j - 1) /\ IatAt(dlls, e) \in Nat
    BY <1>1 DEF SlotOf
  <2>2. SlotOf(dlls, e, j) < s \/ SlotOf(dlls, e, j) = s
    BY <1>3, <2>1
  <2>3. CASE SlotOf(dlls, e, j) = s
    <3> DEFINE x == ItemCount(dlls, d)
               y == j - 1
    <3>2. x \in 0 .. ItemCount(dlls, d) /\ y \in 0 .. ItemCount(dlls, e) /\ IatAt(dlls, d) + x = IatAt(dlls, e) + y
      BY <1>1, <2>1, <2>3
    <3>3. y # ItemCount(dlls, e)
      BY <1>1
    <3> HIDE DEF y
    <3>4. d = e /\ x = y
      BY <3>2, SlotIsOne
    <3> QED BY <3>3, <3>4
  <2> QED BY <2>2, <2>3 DEF SlotsFound
<1>4. ASSUME NEW e \in 1 .. Len(dlls), IatAt(dlls, e) + ItemCount(dlls, e) < s + 1
      PROVE  slots[IatAt(dlls, e) + ItemCount(dlls, e)] = <<"end", 0>>
  <2>1. IatAt(dlls, e) \in Nat /\ ItemCount(dlls, e) \in Nat
    BY <1>1
  <2>2. CASE IatAt(dlls, e) + ItemCount(dlls, e) = s
    BY <2>2
  <2>3. CASE IatAt(dlls, e) + ItemCount(dlls, e) < s
    BY <2>3 DEF EndsFound
  <2> QED BY <1>4, <2>1, <2>2, <2>3
<1> QED BY <1>3, <1>4 DEF SlotsFound, EndsFound

-----------------------------------------------------------------------------
(* A round of rebuild_imports *)

AreaEnd(dlls, preset) == IF preset THEN Place * (SlotEnd(dlls) + 1) ELSE AreaSize(dlls)

NamesBase(dlls, preset) == IF preset THEN 0 ELSE Even(DllNames(dlls))

ImportAccs(dlls, preset) ==
    [area : [0 .. AreaEnd(dlls, preset) - 1 -> Cells], slots : [0 .. SlotEnd(dlls) - 1 -> SlotKinds],
     namePos : Int, newiat : Nat]

\* The places that were set for the slots to come
PlacesSet(dlls, slots, s) ==
    \A u \in 0 .. SlotEnd(dlls) - 1 : u >= s => slots[u] = <<"at", Place * (u + 1)>>

\* What is found when the DLLs up to D have their names and the slots before
\* acc.newiat are done: the names of the DLLs end at lo, all of them at hi
ImportsReached(dlls, preset, names, acc, D, lo, hi) ==
    /\ acc \in ImportAccs(dlls, preset)
    /\ lo \in Nat /\ hi \in Nat /\ lo <= hi /\ NamesBase(dlls, preset) <= hi
    /\ NamesFound(dlls, acc.area, names, D, lo)
    /\ SlotsFound(dlls, acc.area, acc.slots, acc.newiat, NamesBase(dlls, preset), hi)
    /\ EndsFound(dlls, acc.slots, acc.newiat)
    /\ preset => PlacesSet(dlls, acc.slots, acc.newiat)

OneSlotSet(slots, slots2, s) == \A u \in DOMAIN slots : u # s => slots2[u] = slots[u]

LEMMA BoundsAre ==
    ASSUME NEW dlls, Fits(dlls), NEW preset \in BOOLEAN
    PROVE  /\ SlotEnd(dlls) \in Nat /\ AreaEnd(dlls, preset) \in Nat /\ AreaEnd(dlls, preset) \in Int
           /\ NamesBase(dlls, preset) \in Nat /\ NamesBase(dlls, preset) \in Int
           /\ Even(DllNames(dlls)) \in Nat /\ NamesTo(dlls, Len(dlls)) <= Even(DllNames(dlls))
           /\ Len(dlls) \in Nat
<1>1. Len(dlls) \in Nat /\ Len(dlls) + 1 \in 1 .. Len(dlls) + 1 /\ Len(dlls) \in 0 .. Len(dlls)
  BY DllFacts
<1>2. SlotEnd(dlls) \in Nat
  BY <1>1, IatNext DEF SlotEnd
<1>3. NamesTo(dlls, Len(dlls)) \in Nat /\ DllNames(dlls) = NamesTo(dlls, Len(dlls))
  BY <1>1, NamesNext
<1>4. Even(DllNames(dlls)) \in Nat /\ NamesTo(dlls, Len(dlls)) <= Even(DllNames(dlls))
  <2> DEFINE n == DllNames(dlls)
  <2>1. n \in Nat
    BY <1>3
  <2> HIDE DEF n
  <2>2. Even(n) \in Nat /\ n <= Even(n)
    BY <2>1, EvenIs
  <2> QED BY <1>3, <2>2 DEF n
<1>5. RoomTo(dlls, Len(dlls)) \in Nat /\ AreaSize(dlls) = Even(DllNames(dlls)) + RoomTo(dlls, Len(dlls))
  BY <1>1, RoomNext
<1>6. AreaSize(dlls) \in Nat
  BY <1>4, <1>5
<1>7. Place * (SlotEnd(dlls) + 1) \in Nat
  <2> DEFINE s == SlotEnd(dlls) + 1
  <2>1. s \in Nat
    BY <1>2
  <2> HIDE DEF s
  <2>2. Place * s \in Nat
    BY <2>1, PlaceTimes
  <2> QED BY <2>2 DEF s
<1> QED BY <1>1, <1>2, <1>4, <1>6, <1>7 DEF AreaEnd, NamesBase

LEMMA ImportAccIs ==
    ASSUME NEW dlls, NEW preset, NEW acc, acc \in ImportAccs(dlls, preset)
    PROVE  /\ acc.area \in [0 .. AreaEnd(dlls, preset) - 1 -> Cells]
           /\ acc.slots \in [0 .. SlotEnd(dlls) - 1 -> SlotKinds]
           /\ acc.namePos \in Int /\ acc.newiat \in Nat /\ acc.newiat \in Int
BY DEF ImportAccs

LEMMA MakesAcc ==
    ASSUME NEW dlls, NEW preset,
           NEW area \in [0 .. AreaEnd(dlls, preset) - 1 -> Cells],
           NEW slots \in [0 .. SlotEnd(dlls) - 1 -> SlotKinds], NEW pos \in Int, NEW s \in Nat
    PROVE  [area |-> area, slots |-> slots, namePos |-> pos, newiat |-> s] \in ImportAccs(dlls, preset)
BY DEF ImportAccs

\* The name of a DLL is written where all names of DLLs end
LEMMA DllNameKeeps ==
    ASSUME NEW dlls, Fits(dlls), NEW preset \in BOOLEAN, NEW d \in 1 .. Len(dlls),
           NEW names, NEW names2, NEW acc, NEW acc2, NEW lo, NEW hi, NEW lo2 \in Nat, NEW hi2 \in Nat,
           ImportsReached(dlls, preset, names, acc, d - 1, lo, hi),
           names2[d] = lo, NamesKept(dlls, names, names2, d - 1),
           acc2 = [area |-> PutAt(acc.area, lo, Spelled(d, 0, dlls[d].len)), slots |-> acc.slots,
                   namePos |-> acc.namePos, newiat |-> acc.newiat],
           lo + dlls[d].len + 1 <= AreaEnd(dlls, preset), lo + dlls[d].len + 1 <= lo2,
           lo2 <= hi2, hi <= hi2,
           hi <= lo \/ lo + dlls[d].len + 1 <= NamesBase(dlls, preset)
    PROVE  ImportsReached(dlls, preset, names2, acc2, d, lo2, hi2)
<1> DEFINE size == AreaEnd(dlls, preset)
           base == NamesBase(dlls, preset)
           len == dlls[d].len
           text == Spelled(d, 0, len)
           area == acc.area
           new == PutAt(area, lo, text)
<1>1. /\ area \in [0 .. size - 1 -> Cells] /\ acc.slots \in [0 .. SlotEnd(dlls) - 1 -> SlotKinds]
      /\ acc.namePos \in Int /\ acc.newiat \in Nat /\ acc.newiat \in Int
  BY ImportAccIs DEF ImportsReached
<1>2. size \in Int /\ base \in Int
  BY BoundsAre
<1>3. len \in Nat /\ d \in Int /\ 0 \in Int
  BY DllFacts
<1>4. lo \in Nat /\ hi \in Nat /\ lo <= hi /\ base <= hi
  BY DEF ImportsReached
<1>5. text \in Seq(Cells) /\ Len(text) = len + 1 /\ DOMAIN text = 1 .. len + 1
  <2> HIDE DEF len
  <2> QED BY <1>3, SpelledIs
<1>6. lo + len + 1 <= size /\ lo + len + 1 <= lo2 /\ (hi <= lo \/ lo + len + 1 <= base)
  OBVIOUS
<1>7. acc2.area = new /\ acc2.slots = acc.slots /\ acc2.newiat = acc.newiat
  OBVIOUS
<1>8. acc2 = [area |-> new, slots |-> acc.slots, namePos |-> acc.namePos, newiat |-> acc.newiat]
  OBVIOUS
<1> HIDE DEF size, base, text, area, new, len
<1>9. lo + Len(text) <= size
  BY <1>3, <1>4, <1>5, <1>6
<1>10. new \in [0 .. size - 1 -> Cells] /\ ReadsAt(new, lo, text)
  BY <1>1, <1>2, <1>4, <1>5, <1>9, PutIs DEF new
<1>11. \A p \in 0 .. size - 1 : p < lo \/ p >= lo + Len(text) => new[p] = area[p]
  BY <1>1, <1>2, <1>4, <1>5, <1>9, PutIs, Zenon DEF new
<1>12. AreaKept(area, new, size, 0, lo)
  BY <1>11 DEF AreaKept
<1>13. AreaKept(area, new, size, base, hi)
  <2> SUFFICES ASSUME NEW p \in 0 .. size - 1, base <= p, p < hi PROVE p < lo \/ p >= lo + Len(text)
    BY <1>11 DEF AreaKept
  <2> QED BY <1>2, <1>3, <1>4, <1>5, <1>6
<1>14. SlotsFound(dlls, new, acc.slots, acc.newiat, base, hi2) /\ EndsFound(dlls, acc.slots, acc.newiat)
  <2>1. SlotsFound(dlls, area, acc.slots, acc.newiat, base, hi) /\ EndsFound(dlls, acc.slots, acc.newiat)
    BY DEF ImportsReached, area, base
  <2>2. hi \in Int /\ hi2 \in Int
    BY <1>4
  <2>3. SlotsKept(acc.slots, acc.slots, acc.newiat)
    BY DEF SlotsKept
  <2> QED BY <1>1, <1>2, <1>10, <1>13, <2>1, <2>2, <2>3, SlotsStay
<1>15. NamesFound(dlls, new, names2, d, lo2)
  <2>1. NamesFound(dlls, area, names, d - 1, lo)
    BY DEF ImportsReached, area
  <2>2. lo \in Int /\ lo2 \in Int /\ d - 1 \in Int /\ lo <= lo2
    BY <1>3, <1>4, <1>6
  <2>3. NamesFound(dlls, new, names2, d - 1, lo2)
    BY <1>1, <1>2, <1>10, <1>12, <2>1, <2>2, NamesStay
  <2>4. DllFound(dlls, new, names2, d, lo2)
    BY <1>4, <1>6, <1>10 DEF DllFound, text, len
  <2>5. ASSUME NEW e \in 1 .. Len(dlls), e <= d PROVE DllFound(dlls, new, names2, e, lo2)
    <3>1. e <= d - 1 \/ e = d
      BY <2>5
    <3> QED BY <2>3, <2>4, <3>1 DEF NamesFound
  <2> QED BY <2>5 DEF NamesFound
<1>16. acc2 \in ImportAccs(dlls, preset)
  BY <1>1, <1>8, <1>10, MakesAcc DEF size
<1>17. preset => PlacesSet(dlls, acc2.slots, acc2.newiat)
  BY <1>7 DEF ImportsReached
<1>18. base <= hi2
  BY <1>2, <1>4
<1> QED BY <1>7, <1>14, <1>15, <1>16, <1>17, <1>18 DEF ImportsReached, base

\* An import is done: what was written lies behind all names
LEMMA SlotKeeps ==
    ASSUME NEW dlls, Fits(dlls), NEW preset \in BOOLEAN,
           NEW d \in 1 .. Len(dlls), NEW i \in 1 .. ItemCount(dlls, d),
           NEW names, NEW acc, NEW acc2, NEW lo, NEW hi, NEW hi2 \in Nat,
           ImportsReached(dlls, preset, names, acc, d, lo, hi),
           acc.newiat = SlotOf(dlls, d, i), acc2 \in ImportAccs(dlls, preset), acc2.newiat = acc.newiat + 1,
           AreaKept(acc.area, acc2.area, AreaEnd(dlls, preset), 0, hi),
           OneSlotSet(acc.slots, acc2.slots, acc.newiat),
           SlotFound(dlls, acc2.area, acc2.slots, d, i, NamesBase(dlls, preset), hi2), hi <= hi2
    PROVE  ImportsReached(dlls, preset, names, acc2, d, lo, hi2)
<1> DEFINE size == AreaEnd(dlls, preset)
           base == NamesBase(dlls, preset)
           s == acc.newiat
<1>1. acc \in ImportAccs(dlls, preset) /\ lo \in Nat /\ hi \in Nat /\ lo <= hi /\ base <= hi
  BY DEF ImportsReached
<1>2. acc.area \in [0 .. size - 1 -> Cells] /\ acc2.area \in [0 .. size - 1 -> Cells] /\ s \in Nat
  BY <1>1, ImportAccIs
<1>3. size \in Int /\ base \in Int /\ lo \in Int /\ hi \in Int /\ hi2 \in Int /\ s \in Int /\ d \in Int
  BY <1>1, <1>2, BoundsAre
<1>4. SlotFound(dlls, acc2.area, acc2.slots, d, i, base, hi2)
  OBVIOUS
<1>5. AreaKept(acc.area, acc2.area, size, 0, hi)
  OBVIOUS
<1> DEFINE area == acc.area
           slots == acc.slots
           area2 == acc2.area
           slots2 == acc2.slots
<1>6. NamesFound(dlls, area, names, d, lo) /\ SlotsFound(dlls, area, slots, s, base, hi) /\ EndsFound(dlls, slots, s)
  BY DEF ImportsReached
<1>7. s = SlotOf(dlls, d, i) /\ OneSlotSet(slots, slots2, s)
  OBVIOUS
<1>8. preset => PlacesSet(dlls, slots, s)
  BY DEF ImportsReached
<1> HIDE DEF size, base, s, area, slots, area2, slots2
<1>17. slots \in [0 .. SlotEnd(dlls) - 1 -> SlotKinds]
  BY <1>1, ImportAccIs DEF slots
<1>9. area \in [0 .. size - 1 -> Cells] /\ area2 \in [0 .. size - 1 -> Cells]
  BY <1>2 DEF area, area2
<1>10. AreaKept(area, area2, size, 0, hi)
  BY <1>5 DEF area, area2
<1>11. NamesFound(dlls, area2, names, d, lo)
  <2>1. AreaKept(area, area2, size, 0, lo)
    BY <1>1, <1>10 DEF AreaKept
  <2>2. NamesKept(dlls, names, names, d)
    BY DEF NamesKept
  <2>3. lo <= lo
    BY <1>1
  <2> QED BY <1>3, <1>6, <1>9, <2>1, <2>2, <2>3, NamesStay
<1>12. SlotsFound(dlls, area2, slots2, s, base, hi2) /\ EndsFound(dlls, slots2, s)
  <2>1. AreaKept(area, area2, size, base, hi)
    BY <1>10 DEF AreaKept
  <2>2. SlotsKept(slots, slots2, s)
    BY <1>3, <1>7 DEF SlotsKept, OneSlotSet
  <2>3. hi <= hi2
    OBVIOUS
  <2> QED BY <1>3, <1>6, <1>9, <1>17, <2>1, <2>2, <2>3, SlotsStay
<1>13. SlotFound(dlls, area2, slots2, d, i, base, hi2)
  BY <1>4 DEF area2, slots2
<1>14. SlotsFound(dlls, area2, slots2, s + 1, base, hi2) /\ EndsFound(dlls, slots2, s + 1)
  BY <1>3, <1>7, <1>12, <1>13, OneSlotMore
<1>15. preset => PlacesSet(dlls, slots2, s + 1)
  <2> SUFFICES ASSUME PlacesSet(dlls, slots, s) PROVE PlacesSet(dlls, slots2, s + 1)
    BY <1>8
  <2>1. ASSUME NEW u \in 0 .. SlotEnd(dlls) - 1, u >= s + 1 PROVE slots2[u] = <<"at", Place * (u + 1)>>
    <3>1. u \in DOMAIN slots /\ u # s /\ u >= s
      BY <1>3, <1>17, <2>1
    <3>2. slots2[u] = slots[u]
      BY <1>7, <3>1 DEF OneSlotSet
    <3>3. slots[u] = <<"at", Place * (u + 1)>>
      BY <3>1, Zenon DEF PlacesSet
    <3> QED BY <3>2, <3>3, Zenon
  <2> QED BY <2>1 DEF PlacesSet
<1>16. acc2.newiat = s + 1 /\ base <= hi2 /\ lo <= hi2
  BY <1>1, <1>3 DEF s
<1> QED BY <1>1, <1>11, <1>14, <1>15, <1>16 DEF ImportsReached, base, area2, slots2

\* The terminator of a DLL
LEMMA EndKeeps ==
    ASSUME NEW dlls, Fits(dlls), NEW preset \in BOOLEAN,
           NEW d \in 1 .. Len(dlls),
           NEW names, NEW acc, NEW acc2, NEW lo, NEW hi, NEW hi2 \in Nat, NEW lo2 \in Nat,
           ImportsReached(dlls, preset, names, acc, d, lo, hi),
           acc.newiat = IatAt(dlls, d) + ItemCount(dlls, d),
           acc2 \in ImportAccs(dlls, preset), acc2.newiat = acc.newiat + 1,
           acc2.area = acc.area, acc2.slots[acc.newiat] = <<"end", 0>>,
           OneSlotSet(acc.slots, acc2.slots, acc.newiat),
           hi <= hi2, lo <= lo2, lo2 <= hi2
    PROVE  ImportsReached(dlls, preset, names, acc2, d, lo2, hi2)
<1> DEFINE size == AreaEnd(dlls, preset)
           base == NamesBase(dlls, preset)
           s == acc.newiat
<1>1. acc \in ImportAccs(dlls, preset) /\ lo \in Nat /\ hi \in Nat /\ lo <= hi /\ base <= hi
  BY DEF ImportsReached
<1>2. acc.area \in [0 .. size - 1 -> Cells] /\ s \in Nat
  BY <1>1, ImportAccIs
<1>3. size \in Int /\ base \in Int /\ lo \in Int /\ hi \in Int /\ hi2 \in Int /\ s \in Int /\ d \in Int /\ lo2 \in Int
  BY <1>1, <1>2, BoundsAre
<1> DEFINE area == acc.area
           slots == acc.slots
           slots2 == acc2.slots
<1>6. NamesFound(dlls, area, names, d, lo) /\ SlotsFound(dlls, area, slots, s, base, hi) /\ EndsFound(dlls, slots, s)
  BY DEF ImportsReached
<1>7. /\ s = IatAt(dlls, d) + ItemCount(dlls, d) /\ slots2[s] = <<"end", 0>>
      /\ OneSlotSet(slots, slots2, s)
  OBVIOUS
<1>8. preset => PlacesSet(dlls, slots, s)
  BY DEF ImportsReached
<1> HIDE DEF size, base, s, area, slots, slots2
<1>17. slots \in [0 .. SlotEnd(dlls) - 1 -> SlotKinds]
  BY <1>1, ImportAccIs DEF slots
<1>9. area \in [0 .. size - 1 -> Cells]
  BY <1>2 DEF area
<1>11. NamesFound(dlls, area, names, d, lo2)
  <2>1. AreaKept(area, area, size, 0, lo)
    BY DEF AreaKept
  <2>2. NamesKept(dlls, names, names, d)
    BY DEF NamesKept
  <2> QED BY <1>3, <1>6, <1>9, <2>1, <2>2, NamesStay
<1>12. SlotsFound(dlls, area, slots2, s, base, hi2) /\ EndsFound(dlls, slots2, s)
  <2>1. AreaKept(area, area, size, base, hi)
    BY DEF AreaKept
  <2>2. SlotsKept(slots, slots2, s)
    BY <1>3, <1>7 DEF SlotsKept, OneSlotSet
  <2>3. hi <= hi2
    OBVIOUS
  <2> QED BY <1>3, <1>6, <1>9, <1>17, <2>1, <2>2, <2>3, SlotsStay
<1>14. SlotsFound(dlls, area, slots2, s + 1, base, hi2) /\ EndsFound(dlls, slots2, s + 1)
  BY <1>3, <1>7, <1>12, OneEndMore
<1>15. preset => PlacesSet(dlls, slots2, s + 1)
  <2> SUFFICES ASSUME PlacesSet(dlls, slots, s) PROVE PlacesSet(dlls, slots2, s + 1)
    BY <1>8
  <2>1. ASSUME NEW u \in 0 .. SlotEnd(dlls) - 1, u >= s + 1 PROVE slots2[u] = <<"at", Place * (u + 1)>>
    <3>1. u \in DOMAIN slots /\ u # s /\ u >= s
      BY <1>3, <1>17, <2>1
    <3>2. slots2[u] = slots[u]
      BY <1>7, <3>1 DEF OneSlotSet
    <3>3. slots[u] = <<"at", Place * (u + 1)>>
      BY <3>1, Zenon DEF PlacesSet
    <3> QED BY <3>2, <3>3, Zenon
  <2> QED BY <2>1 DEF PlacesSet
<1>16. acc2.newiat = s + 1 /\ base <= hi2 /\ acc2.area = area
  BY <1>1, <1>3 DEF s, area
<1> QED BY <1>1, <1>11, <1>14, <1>15, <1>16 DEF ImportsReached, base, slots2

LEMMA SlotsSetIs ==
    ASSUME NEW dlls, NEW slots \in [0 .. SlotEnd(dlls) - 1 -> SlotKinds], NEW s \in 0 .. SlotEnd(dlls) - 1,
           NEW value \in SlotKinds
    PROVE  /\ [slots EXCEPT ![s] = value] \in [0 .. SlotEnd(dlls) - 1 -> SlotKinds]
           /\ [slots EXCEPT ![s] = value][s] = value
           /\ OneSlotSet(slots, [slots EXCEPT ![s] = value], s)
<1> DEFINE S == 0 .. SlotEnd(dlls) - 1
           slots2 == [slots EXCEPT ![s] = value]
<1> HIDE DEF S
<1>1. slots \in [S -> SlotKinds] /\ s \in S
  BY DEF S
<1>2. slots2 = [x \in S |-> IF x = s THEN value ELSE slots[x]]
  BY <1>1
<1>3. slots2 \in [S -> SlotKinds] /\ slots2[s] = value
  BY <1>1, <1>2
<1>4. DOMAIN slots = S
  BY <1>1
<1>5. OneSlotSet(slots, slots2, s)
  <2> SUFFICES ASSUME NEW u \in S, u # s PROVE slots2[u] = slots[u]
    BY <1>4 DEF OneSlotSet
  <2> QED BY <1>2
<1> QED BY <1>3, <1>5 DEF S

\* A name is written behind the others, and the slot points to it
LEMMA PutWorks ==
    ASSUME NEW dlls, Fits(dlls), NEW preset \in BOOLEAN,
           NEW d \in 1 .. Len(dlls), NEW i \in 1 .. ItemCount(dlls, d),
           NEW names, NEW acc, NEW acc2, NEW lo, NEW hi, NEW hi2 \in Nat,
           ImportsReached(dlls, preset, names, acc, d, lo, hi), acc.newiat = SlotOf(dlls, d, i),
           dlls[d].items[i] > 0, NEW a \in Nat, hi <= a, a + dlls[d].items[i] + 1 <= AreaEnd(dlls, preset),
           a + dlls[d].items[i] + 1 <= hi2,
           NEW slots2 \in [0 .. SlotEnd(dlls) - 1 -> SlotKinds], OneSlotSet(acc.slots, slots2, acc.newiat),
           slots2[acc.newiat] = <<"at", a - 2>>, NEW pos \in Int,
           acc2 = [area |-> PutAt(acc.area, a, Spelled(d, i, dlls[d].items[i])), slots |-> slots2,
                   namePos |-> pos, newiat |-> acc.newiat + 1]
    PROVE  ImportsReached(dlls, preset, names, acc2, d, lo, hi2)
<1> DEFINE size == AreaEnd(dlls, preset)
           base == NamesBase(dlls, preset)
           n == dlls[d].items[i]
           text == Spelled(d, i, n)
           area == acc.area
           new == PutAt(area, a, text)
           s == acc.newiat
<1>1. /\ area \in [0 .. size - 1 -> Cells] /\ s \in Nat /\ s \in Int
  BY ImportAccIs DEF ImportsReached
<1>2. size \in Int /\ base \in Int
  BY BoundsAre
<1>3. n \in Nat /\ d \in Int /\ i \in Int
  <2>1. n \in ItemKinds /\ n > 0
    BY DllFacts
  <2>2. ItemCount(dlls, d) \in Nat
    BY DllFacts
  <2> HIDE DEF n
  <2>3. n \in Nat
    BY <2>1 DEF ItemKinds
  <2>4. Len(dlls) \in Nat
    BY DllFacts
  <2> QED BY <2>2, <2>3, <2>4
<1>4. lo \in Nat /\ hi \in Nat /\ lo <= hi /\ base <= hi
  BY DEF ImportsReached
<1>5. text \in Seq(Cells) /\ Len(text) = n + 1
  <2> HIDE DEF n
  <2> QED BY <1>3, SpelledIs
<1>6. a + n + 1 <= size /\ a + n + 1 <= hi2 /\ hi <= a /\ n > 0
  OBVIOUS
<1>7. slots2[s] = <<"at", a - 2>> /\ s = SlotOf(dlls, d, i) /\ n = dlls[d].items[i]
  OBVIOUS
<1>8. acc2.area = new /\ acc2.slots = slots2 /\ acc2.newiat = s + 1
  OBVIOUS
<1>9. acc2 = [area |-> new, slots |-> slots2, namePos |-> pos, newiat |-> s + 1]
  OBVIOUS
<1> HIDE DEF size, base, n, text, area, new, s
<1>10. a + Len(text) <= size
  BY <1>3, <1>5, <1>6
<1>11. new \in [0 .. size - 1 -> Cells] /\ ReadsAt(new, a, text)
  BY <1>1, <1>2, <1>5, <1>10, PutIs DEF new
<1>12. \A p \in 0 .. size - 1 : p < a \/ p >= a + Len(text) => new[p] = area[p]
  BY <1>1, <1>2, <1>5, <1>10, PutIs, Zenon DEF new
<1>13. AreaKept(area, new, size, 0, hi)
  BY <1>4, <1>6, <1>12 DEF AreaKept
<1>14. NameFound(new, a, d, i, n, base, hi2)
  BY <1>2, <1>4, <1>6, <1>11 DEF NameFound, text
<1>15. SlotFound(dlls, new, slots2, d, i, base, hi2)
  <2>1. slots2[s][1] = "at" /\ slots2[s][2] = a - 2
    BY <1>7
  <2>2. slots2[s][2] + 2 = a
    BY <2>1
  <2>3. ~(n = 0) /\ ~(n < 0)
    BY <1>3, <1>6
  <2> QED BY <1>7, <1>14, <2>1, <2>2, <2>3 DEF SlotFound
<1>16. acc2 \in ImportAccs(dlls, preset)
  <2> DEFINE t == s + 1
  <2>1. t \in Nat
    BY <1>1
  <2>2. acc2 = [area |-> new, slots |-> slots2, namePos |-> pos, newiat |-> t]
    BY <1>9
  <2> HIDE DEF t
  <2>3. [area |-> new, slots |-> slots2, namePos |-> pos, newiat |-> t] \in ImportAccs(dlls, preset)
    BY <1>11, <2>1, MakesAcc DEF size
  <2> QED BY <2>2, <2>3
<1>17. hi <= hi2
  BY <1>2, <1>3, <1>4, <1>6
<1>18. /\ acc.newiat = SlotOf(dlls, d, i) /\ acc2.newiat = acc.newiat + 1
       /\ AreaKept(acc.area, acc2.area, AreaEnd(dlls, preset), 0, hi)
       /\ OneSlotSet(acc.slots, acc2.slots, acc.newiat)
       /\ SlotFound(dlls, acc2.area, acc2.slots, d, i, NamesBase(dlls, preset), hi2)
  BY <1>8, <1>13, <1>15 DEF s, area, size, base
<1> QED BY <1>16, <1>17, <1>18, SlotKeeps

\* An ordinal or a bound entry
LEMMA MarkWorks ==
    ASSUME NEW dlls, Fits(dlls), NEW preset \in BOOLEAN,
           NEW d \in 1 .. Len(dlls), NEW i \in 1 .. ItemCount(dlls, d),
           NEW names, NEW acc, NEW acc2, NEW lo, NEW hi, NEW hi2 \in Nat,
           ImportsReached(dlls, preset, names, acc, d, lo, hi), acc.newiat = SlotOf(dlls, d, i),
           ~(dlls[d].items[i] > 0), hi <= hi2,
           NEW value \in SlotKinds, NEW pos \in Int,
           dlls[d].items[i] = 0 => value = <<"ordinal", i>>,
           dlls[d].items[i] < 0 => value = <<"bound", i>>,
           acc2 = [area |-> acc.area, slots |-> [acc.slots EXCEPT ![acc.newiat] = value],
                   namePos |-> pos, newiat |-> acc.newiat + 1]
    PROVE  ImportsReached(dlls, preset, names, acc2, d, lo, hi2)
<1> DEFINE s == acc.newiat
           slots2 == [acc.slots EXCEPT ![s] = value]
<1>1. /\ acc.area \in [0 .. AreaEnd(dlls, preset) - 1 -> Cells] /\ s \in Nat
      /\ acc.slots \in [0 .. SlotEnd(dlls) - 1 -> SlotKinds]
  BY ImportAccIs DEF ImportsReached
<1>2. s \in 0 .. SlotEnd(dlls) - 1 /\ s = SlotOf(dlls, d, i)
  <2>1. i \in 1 .. ItemCount(dlls, d) + 1
    BY DllFacts
  <2> QED BY <2>1, SlotInside
<1>3. acc2.area = acc.area /\ acc2.slots = slots2 /\ acc2.newiat = s + 1
  OBVIOUS
<1>4. acc2 = [area |-> acc.area, slots |-> slots2, namePos |-> pos, newiat |-> s + 1]
  OBVIOUS
<1>5. slots2 \in [0 .. SlotEnd(dlls) - 1 -> SlotKinds] /\ slots2[s] = value
  BY <1>1, <1>2
<1>6. OneSlotSet(acc.slots, slots2, s)
  BY <1>1, <1>2, SlotsSetIs
<1> HIDE DEF s, slots2
<1>7. AreaKept(acc.area, acc2.area, AreaEnd(dlls, preset), 0, hi)
  BY <1>3 DEF AreaKept
<1>8. SlotFound(dlls, acc2.area, acc2.slots, d, i, NamesBase(dlls, preset), hi2)
  BY <1>2, <1>3, <1>5 DEF SlotFound
<1>9. acc2 \in ImportAccs(dlls, preset)
  <2> DEFINE t == s + 1
  <2>1. t \in Nat
    BY <1>1
  <2>2. acc2 = [area |-> acc.area, slots |-> slots2, namePos |-> pos, newiat |-> t]
    BY <1>4
  <2> HIDE DEF t
  <2>3. [area |-> acc.area, slots |-> slots2, namePos |-> pos, newiat |-> t] \in ImportAccs(dlls, preset)
    BY <1>1, <1>5, <2>1, MakesAcc
  <2> QED BY <2>2, <2>3
<1>10. /\ acc.newiat = SlotOf(dlls, d, i) /\ acc2.newiat = acc.newiat + 1
       /\ OneSlotSet(acc.slots, acc2.slots, acc.newiat)
  BY <1>3, <1>6 DEF s
<1> QED BY <1>7, <1>8, <1>9, <1>10, SlotKeeps

\* Where the next name would be, and what one import makes of the four parts
HereOf(acc) == IF (acc.namePos - work.start) % 2 = 1 THEN acc.namePos - 1 ELSE acc.namePos

NamedAs(acc, d, i, n) ==
    [area |-> PutAt(acc.area, HereOf(acc) + 2, Spelled(d, i, n)),
     slots |-> [acc.slots EXCEPT ![acc.newiat] = <<"at", HereOf(acc)>>],
     namePos |-> HereOf(acc) + 2 + n + 1, newiat |-> acc.newiat + 1]

PlacedAs(acc, d, i, n) ==
    [area |-> PutAt(acc.area, acc.slots[acc.newiat][2] + 2, Spelled(d, i, n)),
     slots |-> acc.slots, namePos |-> acc.namePos, newiat |-> acc.newiat + 1]

MarkedAs(acc, value) ==
    [area |-> acc.area, slots |-> [acc.slots EXCEPT ![acc.newiat] = value],
     namePos |-> acc.namePos, newiat |-> acc.newiat + 1]

LEMMA ItemIs ==
    ASSUME NEW acc \in ImportAccs(work.dlls, work.preset), NEW d, NEW i, NEW n, n = work.dlls[d].items[i], n \in Int,
           work.preset \in BOOLEAN
    PROVE  /\ n > 0 /\ ~work.preset => Item(acc, d, i) = NamedAs(acc, d, i, n)
           /\ n > 0 /\ work.preset => Item(acc, d, i) = PlacedAs(acc, d, i, n)
           /\ n = 0 => Item(acc, d, i) = MarkedAs(acc, <<"ordinal", i>>)
           /\ n < 0 => Item(acc, d, i) = MarkedAs(acc, <<"bound", i>>)
<1>1. acc = [area |-> acc.area, slots |-> acc.slots, namePos |-> acc.namePos, newiat |-> acc.newiat]
  BY DEF ImportAccs
<1> DEFINE next == [acc EXCEPT !.newiat = acc.newiat + 1]
<1>2. next = [area |-> acc.area, slots |-> acc.slots, namePos |-> acc.namePos, newiat |-> acc.newiat + 1]
  BY <1>1
<1> DEFINE named == [next EXCEPT !.area = PutAt(next.area, HereOf(acc) + 2, Spelled(d, i, n)),
                                 !.slots[acc.newiat] = <<"at", HereOf(acc)>>,
                                 !.namePos = HereOf(acc) + 2 + n + 1]
           placed == [next EXCEPT !.area = PutAt(next.area, acc.slots[acc.newiat][2] + 2, Spelled(d, i, n))]
           ordinal == [next EXCEPT !.slots[acc.newiat] = <<"ordinal", i>>]
           bound == [next EXCEPT !.slots[acc.newiat] = <<"bound", i>>]
<1>3. Item(acc, d, i) = CASE n > 0 /\ ~work.preset -> named
                          [] n > 0 /\ work.preset -> placed
                          [] n = 0 -> ordinal
                          [] OTHER -> bound
  BY Zenon DEF Item, HereOf
<1> HIDE DEF next, named, placed, ordinal, bound
<1>4. /\ n > 0 /\ ~work.preset => Item(acc, d, i) = named
      /\ n > 0 /\ work.preset => Item(acc, d, i) = placed
      /\ n = 0 => Item(acc, d, i) = ordinal
      /\ n < 0 => Item(acc, d, i) = bound
  BY <1>3
<1>5. named = NamedAs(acc, d, i, n)
  <2> DEFINE area == PutAt(next.area, HereOf(acc) + 2, Spelled(d, i, n))
             pos == HereOf(acc) + 2 + n + 1
             value == <<"at", HereOf(acc)>>
  <2>1. named = [next EXCEPT !.area = area, !.slots[acc.newiat] = value, !.namePos = pos]
    BY Zenon DEF named
  <2>2. next.area = acc.area
    BY <1>2
  <2> HIDE DEF area, value, pos
  <2>3. named = [area |-> area, slots |-> [acc.slots EXCEPT ![acc.newiat] = value],
                 namePos |-> pos, newiat |-> acc.newiat + 1]
    BY <1>2, <2>1
  <2> QED BY <2>2, <2>3, Zenon DEF area, value, pos, NamedAs
<1>6. placed = PlacedAs(acc, d, i, n)
  BY <1>2 DEF placed, PlacedAs
<1>7. ordinal = MarkedAs(acc, <<"ordinal", i>>) /\ bound = MarkedAs(acc, <<"bound", i>>)
  BY <1>2 DEF ordinal, bound, MarkedAs
<1> QED BY <1>4, <1>5, <1>6, <1>7

\* Where all names end: the packer's places are Place apart
HiOf(preset, cells, pos) == IF preset THEN Place * cells ELSE pos

Mid(dlls, preset, names, d, lo, acc, i) ==
    /\ ImportsReached(dlls, preset, names, acc, d, lo, HiOf(preset, acc.newiat + 1, acc.namePos))
    /\ acc.newiat = IatAt(dlls, d) + i
    /\ ~preset => acc.namePos <= Even(DllNames(dlls)) + RoomTo(dlls, d - 1) + ItemsTo(dlls[d], i)

\* The last place a name may end
LEMMA RoomLeft ==
    ASSUME NEW dlls, Fits(dlls), NEW d \in 1 .. Len(dlls), NEW i \in 1 .. ItemCount(dlls, d), NEW pos \in Int,
           pos <= Even(DllNames(dlls)) + RoomTo(dlls, d - 1) + ItemsTo(dlls[d], i - 1)
    PROVE  /\ i - 1 \in 0 .. ItemCount(dlls, d)
           /\ pos <= Even(DllNames(dlls)) + RoomTo(dlls, d - 1) + ItemsTo(dlls[d], i)
           /\ pos + 4 + dlls[d].items[i] <= Even(DllNames(dlls)) + RoomTo(dlls, d - 1) + ItemsTo(dlls[d], i)
           /\ pos + 4 + dlls[d].items[i] <= AreaEnd(dlls, FALSE)
<1> DEFINE dll == dlls[d]
           n == dll.items[i]
           L == Len(dlls)
<1>1. dll.items \in Seq(ItemKinds) /\ ItemCount(dlls, d) = Len(dll.items) /\ Len(dll.items) \in Nat /\ n \in ItemKinds
  BY DllFacts DEF ItemCount
<1>2. L \in Nat /\ d - 1 \in 0 .. L /\ d \in 0 .. L /\ L \in 0 .. L
  BY DllFacts
<1>3. /\ RoomTo(dlls, d - 1) \in Nat /\ RoomTo(dlls, d) \in Nat /\ RoomTo(dlls, L) \in Nat
      /\ RoomTo(dlls, d) <= RoomTo(dlls, L) /\ RoomTo(dlls, d) = RoomTo(dlls, d - 1) + Room(dll)
      /\ AreaSize(dlls) = Even(DllNames(dlls)) + RoomTo(dlls, L)
  BY <1>2, RoomNext
<1>4. Even(DllNames(dlls)) \in Nat
  <2>1. TRUE \in BOOLEAN
    OBVIOUS
  <2> QED BY <2>1, BoundsAre
<1> HIDE DEF dll, n, L
<1>5. i - 1 \in 0 .. Len(dll.items) /\ i \in 0 .. Len(dll.items) /\ i \in 1 .. Len(dll.items)
  BY <1>1
<1>6. ItemsTo(dll, i - 1) \in Nat /\ ItemsTo(dll, i) \in Nat /\ ItemsTo(dll, i) <= Room(dll)
  BY <1>1, <1>5, ItemsNext
<1>7. ItemsTo(dll, i - 1) + 4 <= ItemsTo(dll, i) /\ ItemsTo(dll, i - 1) + 4 + dll.items[i] <= ItemsTo(dll, i)
  BY <1>1, <1>5, ItemsNext
<1>8. Room(dll) \in Nat
  <2>1. Len(dll.items) \in 0 .. Len(dll.items)
    BY <1>1
  <2>2. ItemsTo(dll, Len(dll.items)) \in Nat /\ Room(dll) = ItemsTo(dll, Len(dll.items))
    BY <1>1, <2>1, ItemsNext
  <2> QED BY <2>2
<1>9. n \in Int /\ n = dll.items[i]
  BY <1>1 DEF ItemKinds, n
<1>10. pos <= Even(DllNames(dlls)) + RoomTo(dlls, d - 1) + ItemsTo(dll, i - 1)
  BY DEF dll
<1> DEFINE e == Even(DllNames(dlls))
           r == RoomTo(dlls, d - 1)
           before == ItemsTo(dll, i - 1)
           after == ItemsTo(dll, i)
           room == Room(dll)
<1>14. /\ e \in Nat /\ r \in Nat /\ before \in Nat /\ after \in Nat /\ n \in Int /\ room \in Nat
       /\ pos <= e + r + before /\ before + 4 <= after /\ before + 4 + n <= after /\ after <= room
  BY <1>3, <1>4, <1>6, <1>7, <1>8, <1>9, <1>10
<1>15. e + r + room <= AreaSize(dlls) /\ AreaSize(dlls) \in Nat
  BY <1>3, <1>4, <1>8
<1> HIDE DEF e, r, before, after, room
<1>11. pos + 4 + n <= e + r + after
  BY <1>14
<1>12. pos <= e + r + after
  BY <1>14
<1>13. pos + 4 + n <= AreaSize(dlls)
  BY <1>11, <1>14, <1>15
<1> QED BY <1>1, <1>5, <1>9, <1>11, <1>12, <1>13 DEF AreaEnd, dll, e, r, after

\* What Item sees of the work
WorksOn(dlls, preset) ==
    /\ work.dlls = dlls /\ work.preset = preset /\ work.start = Even(DllNames(dlls))

LEMMA HiIs ==
    ASSUME NEW preset \in BOOLEAN, NEW s \in Nat, NEW pos \in Int, NEW pos2 \in Int, pos <= pos2, ~preset => pos \in Nat
    PROVE  /\ HiOf(preset, s, pos) \in Nat /\ HiOf(preset, s + 1, pos2) \in Nat
           /\ HiOf(preset, s, pos) <= HiOf(preset, s + 1, pos2)
<1>1. Place * s \in Nat /\ Place * (s + 1) = Place * s + Place /\ Place \in Nat
  BY PlaceTimes
<1> DEFINE x == Place * s
           y == Place * (s + 1)
<1> HIDE DEF x, y
<1>2. x \in Nat /\ y = x + Place /\ Place \in Nat
  BY <1>1 DEF x, y
<1>3. HiOf(preset, s, pos) = (IF preset THEN x ELSE pos) /\ HiOf(preset, s + 1, pos2) = (IF preset THEN y ELSE pos2)
  BY DEF HiOf, x, y
<1> QED BY <1>2, <1>3

\* The facts about an import that is next
NextItem(dlls, preset, names, d, lo, acc, i, n, s, pos) ==
    /\ acc \in ImportAccs(dlls, preset) /\ s = acc.newiat /\ pos = acc.namePos
    /\ s \in Nat /\ pos \in Int /\ s = SlotOf(dlls, d, i) /\ s \in 0 .. SlotEnd(dlls) - 1 /\ SlotEnd(dlls) \in Nat
    /\ acc.area \in [0 .. AreaEnd(dlls, preset) - 1 -> Cells]
    /\ acc.slots \in [0 .. SlotEnd(dlls) - 1 -> SlotKinds]
    /\ n = dlls[d].items[i] /\ n \in Int /\ n + 2 < Place
    /\ ImportsReached(dlls, preset, names, acc, d, lo, HiOf(preset, s + 1, pos))
    /\ ~preset => Even(DllNames(dlls)) <= pos /\ Even(DllNames(dlls)) \in Nat
    /\ preset => PlacesSet(dlls, acc.slots, s)
    /\ s + 1 = IatAt(dlls, d) + i

LEMMA NextItemIs ==
    ASSUME NEW dlls, Fits(dlls), NEW preset \in BOOLEAN, NEW d \in 1 .. Len(dlls), NEW i \in 1 .. ItemCount(dlls, d),
           NEW names, NEW acc, NEW lo, Mid(dlls, preset, names, d, lo, acc, i - 1)
    PROVE  NextItem(dlls, preset, names, d, lo, acc, i, dlls[d].items[i], acc.newiat, acc.namePos)
<1> DEFINE n == dlls[d].items[i]
           s == acc.newiat
           pos == acc.namePos
<1>1. /\ ImportsReached(dlls, preset, names, acc, d, lo, HiOf(preset, s + 1, pos))
      /\ s = IatAt(dlls, d) + (i - 1)
  BY DEF Mid
<1>2. acc \in ImportAccs(dlls, preset) /\ NamesBase(dlls, preset) <= HiOf(preset, s + 1, pos)
  BY <1>1 DEF ImportsReached
<1>3. /\ s \in Nat /\ pos \in Int
      /\ acc.area \in [0 .. AreaEnd(dlls, preset) - 1 -> Cells]
      /\ acc.slots \in [0 .. SlotEnd(dlls) - 1 -> SlotKinds]
  BY <1>2, ImportAccIs
<1>4. ItemCount(dlls, d) \in Nat /\ n \in ItemKinds /\ n + 2 < Place
  BY DllFacts
<1>5. /\ SlotOf(dlls, d, i) \in 0 .. SlotEnd(dlls) - 1
      /\ SlotOf(dlls, d, i) = IatAt(dlls, d) + i - 1 /\ IatAt(dlls, d) \in Nat /\ SlotEnd(dlls) \in Nat
  <2>1. i \in 1 .. ItemCount(dlls, d) + 1
    BY <1>4
  <2> QED BY <2>1, SlotInside
<1>6. s = SlotOf(dlls, d, i) /\ s + 1 = IatAt(dlls, d) + i
  BY <1>1, <1>4, <1>5
<1>7. ~preset => Even(DllNames(dlls)) <= pos /\ Even(DllNames(dlls)) \in Nat
  <2>1. Even(DllNames(dlls)) \in Nat
    BY BoundsAre
  <2> QED BY <1>2, <2>1 DEF NamesBase, HiOf
<1>8. preset => PlacesSet(dlls, acc.slots, s)
  BY <1>1 DEF ImportsReached
<1>9. n \in Int
  BY <1>4 DEF ItemKinds
<1> QED BY <1>1, <1>2, <1>3, <1>4, <1>5, <1>6, <1>7, <1>8, <1>9 DEF NextItem

LEMMA AtIsKind == \A x \in Int : <<"at", x>> \in SlotKinds /\ <<"ordinal", x>> \in SlotKinds /\ <<"bound", x>> \in SlotKinds /\ <<"end", x>> \in SlotKinds /\ <<"unset", x>> \in SlotKinds
BY DEF SlotKinds

LEMMA NamePlaced ==
    ASSUME NEW n \in Int, NEW pos \in Int, NEW here \in Int, NEW start \in Nat, NEW end \in Nat, n > 0,
           pos - 1 <= here, here <= pos, here >= start, pos + 4 + n <= end
    PROVE  /\ here + 2 \in Nat /\ pos <= here + 2 /\ (here + 2) + n + 1 <= end
           /\ (here + 2) + n + 1 <= here + 2 + n + 1
           /\ here + 2 + n + 1 \in Nat /\ here + 2 + n + 1 \in Int
           /\ (here + 2) - 2 = here /\ here + 2 + n + 1 <= pos + 4 + n
OBVIOUS

\* A name that is put where the cursor is
LEMMA NamedKeeps ==
    ASSUME NEW dlls, Fits(dlls), WorksOn(dlls, FALSE), NEW d \in 1 .. Len(dlls), NEW i \in 1 .. ItemCount(dlls, d),
           NEW names, NEW acc, NEW lo, Mid(dlls, FALSE, names, d, lo, acc, i - 1), dlls[d].items[i] > 0
    PROVE  Mid(dlls, FALSE, names, d, lo, Item(acc, d, i), i)
<1> DEFINE n == dlls[d].items[i]
           s == acc.newiat
           pos == acc.namePos
           here == HereOf(acc)
           a == here + 2
           pos2 == here + 2 + n + 1
           start == Even(DllNames(dlls))
           slots2 == [acc.slots EXCEPT ![s] = <<"at", here>>]
           acc2 == [area |-> PutAt(acc.area, a, Spelled(d, i, n)), slots |-> slots2,
                    namePos |-> pos2, newiat |-> s + 1]
           last == Even(DllNames(dlls)) + RoomTo(dlls, d - 1) + ItemsTo(dlls[d], i)
<1>1. NextItem(dlls, FALSE, names, d, lo, acc, i, n, s, pos)
  BY NextItemIs
<1>2. /\ acc \in ImportAccs(dlls, FALSE) /\ s \in Nat /\ pos \in Int /\ s = SlotOf(dlls, d, i)
      /\ s \in 0 .. SlotEnd(dlls) - 1 /\ acc.slots \in [0 .. SlotEnd(dlls) - 1 -> SlotKinds]
      /\ n \in Int /\ n = dlls[d].items[i] /\ start <= pos /\ start \in Nat /\ s + 1 = IatAt(dlls, d) + i
      /\ ImportsReached(dlls, FALSE, names, acc, d, lo, HiOf(FALSE, s + 1, pos))
  BY <1>1 DEF NextItem
<1>3. /\ pos <= last /\ pos + 4 + n <= last /\ pos + 4 + n <= AreaEnd(dlls, FALSE)
  <2>1. pos <= Even(DllNames(dlls)) + RoomTo(dlls, d - 1) + ItemsTo(dlls[d], i - 1)
    BY DEF Mid
  <2> HIDE DEF pos
  <2> QED BY <1>2, <2>1, RoomLeft
<1>4. Item(acc, d, i) = acc2
  <2>1. work.preset = FALSE /\ work.dlls = dlls /\ work.preset \in BOOLEAN
    BY DEF WorksOn
  <2>2. acc \in ImportAccs(work.dlls, work.preset)
    BY <1>2, <2>1
  <2>3. n = work.dlls[d].items[i] /\ n > 0
    BY <2>1
  <2>4. n \in Int
    BY <1>2
  <2> HIDE DEF n
  <2>5. Item(acc, d, i) = NamedAs(acc, d, i, n)
    BY <2>1, <2>2, <2>3, <2>4, ItemIs
  <2> QED BY <2>5, Zenon DEF NamedAs
<1>5. here \in Int /\ pos - 1 <= here /\ here <= pos /\ here >= start
  <2>1. here = IF (pos - start) % 2 = 1 THEN pos - 1 ELSE pos
    BY DEF HereOf, WorksOn
  <2> HIDE DEF here, start, pos, s, n
  <2>2. CASE (pos - start) % 2 = 1
    <3>1. pos # start
      <4> SUFFICES ASSUME pos = start PROVE FALSE
        OBVIOUS
      <4>1. pos - start = 0
        BY <1>2
      <4>2. 0 % 2 = 0
        OBVIOUS
      <4> QED BY <2>2, <4>1, <4>2
    <3> QED BY <1>2, <2>1, <2>2, <3>1
  <2>3. CASE ~((pos - start) % 2 = 1)
    BY <1>2, <2>1, <2>3
  <2> QED BY <2>2, <2>3
<1>6. slots2 \in [0 .. SlotEnd(dlls) - 1 -> SlotKinds] /\ slots2[s] = <<"at", here>> /\ OneSlotSet(acc.slots, slots2, s)
  <2>1. <<"at", here>> \in SlotKinds
    BY <1>5, AtIsKind
  <2> HIDE DEF here, s
  <2> QED BY <1>2, <2>1, SlotsSetIs
<1>7. HiOf(FALSE, s + 1, pos) = pos /\ HiOf(FALSE, s + 2, pos2) = pos2
  BY DEF HiOf
<1>8. n > 0
  OBVIOUS
<1> HIDE DEF n, s, pos, here, start, last, slots2
<1>9. /\ a \in Nat /\ pos <= a /\ a + n + 1 <= AreaEnd(dlls, FALSE) /\ a + n + 1 <= pos2 /\ pos2 \in Nat /\ pos2 \in Int
      /\ a - 2 = here /\ pos2 <= pos + 4 + n
  <2>1. AreaEnd(dlls, FALSE) \in Nat
    <3>1. FALSE \in BOOLEAN
      OBVIOUS
    <3> QED BY <3>1, BoundsAre
  <2> DEFINE end == AreaEnd(dlls, FALSE)
  <2>2. /\ n \in Int /\ pos \in Int /\ start \in Nat /\ here \in Int /\ n > 0 /\ end \in Nat
        /\ pos - 1 <= here /\ here <= pos /\ here >= start /\ pos + 4 + n <= end
    BY <1>2, <1>3, <1>5, <1>8, <2>1
  <2> HIDE DEF end
  <2>3. /\ a \in Nat /\ pos <= a /\ a + n + 1 <= end /\ a + n + 1 <= pos2 /\ pos2 \in Nat /\ pos2 \in Int
        /\ a - 2 = here /\ pos2 <= pos + 4 + n
    BY <2>2, NamePlaced
  <2> QED BY <2>3 DEF end
<1>10. ImportsReached(dlls, FALSE, names, acc2, d, lo, pos2)
  <2>1. ImportsReached(dlls, FALSE, names, acc, d, lo, pos)
    BY <1>2, <1>7
  <2>2. slots2[acc.newiat] = <<"at", a - 2>> /\ OneSlotSet(acc.slots, slots2, acc.newiat) /\ acc.newiat = SlotOf(dlls, d, i)
    BY <1>2, <1>6, <1>9 DEF s
  <2>3. acc2 = [area |-> PutAt(acc.area, a, Spelled(d, i, dlls[d].items[i])), slots |-> slots2,
                namePos |-> pos2, newiat |-> acc.newiat + 1]
    BY <1>2 DEF s
  <2>4. dlls[d].items[i] > 0 /\ a + dlls[d].items[i] + 1 <= AreaEnd(dlls, FALSE) /\ a + dlls[d].items[i] + 1 <= pos2
    BY <1>8, <1>9 DEF n
  <2>5. FALSE \in BOOLEAN
    OBVIOUS
  <2> HIDE DEF a, pos2, acc2
  <2> QED BY <1>6, <1>9, <2>1, <2>2, <2>3, <2>4, <2>5, PutWorks
<1>11. acc2.newiat = IatAt(dlls, d) + i /\ acc2.namePos = pos2 /\ acc2.newiat = s + 1
  BY <1>2
<1>12. pos2 <= last
  <2>1. last \in Int
    <3>1. d - 1 \in 0 .. Len(dlls) /\ Len(dlls) \in Nat
      BY DllFacts
    <3>2. RoomTo(dlls, d - 1) \in Nat
      BY <3>1, RoomNext
    <3>3. dlls[d].items \in Seq(ItemKinds) /\ i \in 0 .. Len(dlls[d].items)
      BY DllFacts DEF ItemCount
    <3> DEFINE dll == dlls[d]
    <3> HIDE DEF dll
    <3>4. ItemsTo(dll, i) \in Nat
      BY <3>3, ItemsNext DEF dll
    <3> QED BY <1>2, <3>2, <3>4 DEF last, dll, start
  <2> QED BY <1>2, <1>3, <1>9, <2>1
<1> QED BY <1>4, <1>7, <1>10, <1>11, <1>12 DEF Mid, HiOf, last

LEMMA PlaceOf ==
    ASSUME NEW s \in Nat, NEW e \in Nat, s + 1 <= e
    PROVE  /\ Place * (s + 1) \in Nat /\ Place * (s + 2) = Place * (s + 1) + Place /\ Place \in Nat
           /\ Place * (s + 2) \in Nat /\ Place * (e + 1) \in Nat
           /\ Place * (s + 1) <= Place * (s + 2) /\ Place * (s + 2) <= Place * (e + 1)
<1> DEFINE x == s + 1
           y == e + 1
<1>1. x \in Nat /\ x + 1 \in Nat /\ y \in Nat /\ x <= x + 1 /\ x + 1 <= y /\ x + 1 = s + 2
  OBVIOUS
<1> HIDE DEF x, y
<1>2. Place \in Nat /\ Place * x \in Nat /\ Place * (x + 1) \in Nat /\ Place * (x + 1) = Place * x + Place
  BY <1>1, PlaceTimes
<1>3. Place * x <= Place * (x + 1)
  BY <1>1, PlaceTimes
<1>4. Place * y \in Nat /\ Place * (x + 1) <= Place * y
  BY <1>1, PlaceTimes
<1> QED BY <1>1, <1>2, <1>3, <1>4 DEF x, y

\* A name that is put where the packer has set it
LEMMA PlacedKeeps ==
    ASSUME NEW dlls, Fits(dlls), WorksOn(dlls, TRUE), NEW d \in 1 .. Len(dlls), NEW i \in 1 .. ItemCount(dlls, d),
           NEW names, NEW acc, NEW lo, Mid(dlls, TRUE, names, d, lo, acc, i - 1), dlls[d].items[i] > 0
    PROVE  Mid(dlls, TRUE, names, d, lo, Item(acc, d, i), i)
<1> DEFINE n == dlls[d].items[i]
           s == acc.newiat
           pos == acc.namePos
           hi == Place * (s + 1)
           hi2 == Place * (s + 2)
           a == hi + 2
           acc2 == [area |-> PutAt(acc.area, a, Spelled(d, i, n)), slots |-> acc.slots,
                    namePos |-> pos, newiat |-> s + 1]
<1>1. NextItem(dlls, TRUE, names, d, lo, acc, i, n, s, pos)
  <2>1. TRUE \in BOOLEAN
    OBVIOUS
  <2> QED BY <2>1, NextItemIs
<1>2. /\ acc \in ImportAccs(dlls, TRUE) /\ s \in Nat /\ pos \in Int /\ s = SlotOf(dlls, d, i)
      /\ s \in 0 .. SlotEnd(dlls) - 1 /\ acc.slots \in [0 .. SlotEnd(dlls) - 1 -> SlotKinds]
      /\ n \in Int /\ s + 1 = IatAt(dlls, d) + i /\ SlotEnd(dlls) \in Nat
      /\ PlacesSet(dlls, acc.slots, s)
      /\ ImportsReached(dlls, TRUE, names, acc, d, lo, HiOf(TRUE, s + 1, pos))
  BY <1>1 DEF NextItem
<1>3. n + 2 < Place /\ n > 0
  BY <1>1 DEF NextItem
<1>4. acc.slots[s] = <<"at", hi>>
  <2>1. s >= s
    BY <1>2
  <2> HIDE DEF s
  <2> QED BY <1>2, <2>1, Zenon DEF PlacesSet
<1>5. Item(acc, d, i) = acc2
  <2>1. work.preset = TRUE /\ work.dlls = dlls /\ work.preset \in BOOLEAN
    BY DEF WorksOn
  <2>2. acc \in ImportAccs(work.dlls, work.preset)
    BY <1>2, <2>1
  <2>3. n = work.dlls[d].items[i] /\ n > 0
    BY <2>1
  <2>4. n \in Int
    BY <1>2
  <2> HIDE DEF n
  <2>7. work.preset
    BY <2>1
  <2>5. Item(acc, d, i) = PlacedAs(acc, d, i, n)
    BY <2>1, <2>2, <2>3, <2>4, <2>7, ItemIs
  <2>6. acc.slots[acc.newiat][2] = hi
    <3> HIDE DEF hi
    <3> QED BY <1>4
  <2> QED BY <2>5, <2>6, Zenon DEF PlacedAs
<1>6. /\ hi \in Nat /\ hi2 = hi + Place /\ Place \in Nat /\ hi2 \in Nat /\ AreaEnd(dlls, TRUE) \in Nat
      /\ hi2 <= AreaEnd(dlls, TRUE)
  <2> DEFINE e == SlotEnd(dlls)
  <2>1. e \in Nat /\ s \in Nat /\ s + 1 <= e
    BY <1>2
  <2>2. AreaEnd(dlls, TRUE) = Place * (e + 1)
    BY DEF AreaEnd
  <2> HIDE DEF e, s
  <2> QED BY <2>1, <2>2, PlaceOf
<1>7. HiOf(TRUE, s + 1, pos) = hi /\ HiOf(TRUE, (s + 1) + 1, pos) = hi2
  <2>1. (s + 1) + 1 = s + 2
    BY <1>2
  <2> QED BY <2>1 DEF HiOf
<1>8. n = dlls[d].items[i] /\ s = acc.newiat /\ pos = acc.namePos
  OBVIOUS
<1> HIDE DEF n, s, pos, hi, hi2
<1>9. /\ a \in Nat /\ hi <= a /\ a + n + 1 <= AreaEnd(dlls, TRUE) /\ a + n + 1 <= hi2 /\ a - 2 = hi
  <2> DEFINE end == AreaEnd(dlls, TRUE)
  <2>1. /\ hi \in Nat /\ hi2 = hi + Place /\ Place \in Nat /\ hi2 \in Nat /\ end \in Nat /\ hi2 <= end
        /\ n + 2 < Place /\ n > 0 /\ n \in Int
    BY <1>2, <1>3, <1>6
  <2> HIDE DEF end
  <2>2. /\ a \in Nat /\ hi <= a /\ a + n + 1 <= end /\ a + n + 1 <= hi2 /\ a - 2 = hi
    BY <2>1
  <2> QED BY <2>2 DEF end
<1>10. ImportsReached(dlls, TRUE, names, acc2, d, lo, hi2)
  <2>1. ImportsReached(dlls, TRUE, names, acc, d, lo, hi)
    BY <1>2, <1>7
  <2>2. acc.slots[acc.newiat] = <<"at", a - 2>> /\ OneSlotSet(acc.slots, acc.slots, acc.newiat) /\ acc.newiat = SlotOf(dlls, d, i)
    BY <1>2, <1>4, <1>8, <1>9 DEF OneSlotSet
  <2>3. acc2 = [area |-> PutAt(acc.area, a, Spelled(d, i, dlls[d].items[i])), slots |-> acc.slots,
                namePos |-> pos, newiat |-> acc.newiat + 1]
    BY <1>8
  <2>4. dlls[d].items[i] > 0 /\ a + dlls[d].items[i] + 1 <= AreaEnd(dlls, TRUE) /\ a + dlls[d].items[i] + 1 <= hi2
    BY <1>3, <1>8, <1>9
  <2>5. TRUE \in BOOLEAN
    OBVIOUS
  <2>6. pos \in Int
    BY <1>2
  <2> HIDE DEF a, acc2
  <2> QED BY <1>2, <1>6, <1>9, <2>1, <2>2, <2>3, <2>4, <2>5, <2>6, PutWorks
<1>11. acc2.newiat = IatAt(dlls, d) + i /\ acc2.namePos = pos /\ acc2.newiat = s + 1
  BY <1>2
<1> QED BY <1>5, <1>7, <1>10, <1>11 DEF Mid

\* An ordinal or a bound entry
LEMMA MarkedKeeps ==
    ASSUME NEW dlls, Fits(dlls), NEW preset \in BOOLEAN, WorksOn(dlls, preset),
           NEW d \in 1 .. Len(dlls), NEW i \in 1 .. ItemCount(dlls, d),
           NEW names, NEW acc, NEW lo, Mid(dlls, preset, names, d, lo, acc, i - 1), ~(dlls[d].items[i] > 0)
    PROVE  Mid(dlls, preset, names, d, lo, Item(acc, d, i), i)
<1> DEFINE n == dlls[d].items[i]
           s == acc.newiat
           pos == acc.namePos
           value == IF n = 0 THEN <<"ordinal", i>> ELSE <<"bound", i>>
           hi == HiOf(preset, s + 1, pos)
           hi2 == HiOf(preset, (s + 1) + 1, pos)
           acc2 == [area |-> acc.area, slots |-> [acc.slots EXCEPT ![s] = value],
                    namePos |-> pos, newiat |-> s + 1]
<1>1. NextItem(dlls, preset, names, d, lo, acc, i, n, s, pos)
  BY NextItemIs
<1>2. /\ acc \in ImportAccs(dlls, preset) /\ s \in Nat /\ pos \in Int /\ s = SlotOf(dlls, d, i)
      /\ n \in Int /\ s + 1 = IatAt(dlls, d) + i
      /\ ImportsReached(dlls, preset, names, acc, d, lo, hi)
  BY <1>1 DEF NextItem
<1>3. ~preset => pos \in Nat
  <2>1. ~preset => Even(DllNames(dlls)) <= pos /\ Even(DllNames(dlls)) \in Nat
    BY <1>1 DEF NextItem
  <2> QED BY <1>2, <2>1
<1>4. hi \in Nat /\ hi2 \in Nat /\ hi <= hi2
  <2> DEFINE t == s + 1
  <2>1. t \in Nat /\ pos \in Int /\ pos <= pos
    BY <1>2
  <2> HIDE DEF t, pos
  <2>2. HiOf(preset, t, pos) \in Nat /\ HiOf(preset, t + 1, pos) \in Nat /\ HiOf(preset, t, pos) <= HiOf(preset, t + 1, pos)
    BY <1>3, <2>1, HiIs
  <2> QED BY <2>2 DEF t
<1>5. Item(acc, d, i) = acc2
  <2>1. work.preset = preset /\ work.dlls = dlls /\ work.preset \in BOOLEAN
    BY DEF WorksOn
  <2>2. acc \in ImportAccs(work.dlls, work.preset)
    BY <1>2, <2>1
  <2>3. n = work.dlls[d].items[i] /\ ~(n > 0)
    BY <2>1
  <2>4. n \in Int
    BY <1>2
  <2> HIDE DEF n
  <2>5. n = 0 => Item(acc, d, i) = MarkedAs(acc, <<"ordinal", i>>)
    BY <2>1, <2>2, <2>3, <2>4, ItemIs
  <2>6. n < 0 => Item(acc, d, i) = MarkedAs(acc, <<"bound", i>>)
    BY <2>1, <2>2, <2>3, <2>4, ItemIs
  <2>7. n = 0 \/ (n < 0 /\ n # 0)
    BY <2>3, <2>4
  <2> QED BY <2>5, <2>6, <2>7, Zenon DEF MarkedAs
<1>6. value \in SlotKinds /\ (n = 0 => value = <<"ordinal", i>>) /\ (n < 0 => value = <<"bound", i>>)
  <2>1. i \in Int
    BY DllFacts
  <2>2. n < 0 => n # 0
    BY <1>2
  <2> HIDE DEF n
  <2> QED BY <2>1, <2>2, AtIsKind
<1>7. n = dlls[d].items[i] /\ s = acc.newiat /\ pos = acc.namePos
  OBVIOUS
<1> HIDE DEF n, s, pos, value, hi, hi2
<1>8. ImportsReached(dlls, preset, names, acc2, d, lo, hi2)
  <2>1. acc.newiat = SlotOf(dlls, d, i)
    BY <1>2, <1>7
  <2>2. /\ ~(dlls[d].items[i] > 0) /\ (dlls[d].items[i] = 0 => value = <<"ordinal", i>>)
        /\ (dlls[d].items[i] < 0 => value = <<"bound", i>>)
    BY <1>6, <1>7
  <2>3. acc2 = [area |-> acc.area, slots |-> [acc.slots EXCEPT ![acc.newiat] = value],
                namePos |-> pos, newiat |-> acc.newiat + 1]
    BY <1>7
  <2>4. pos \in Int /\ value \in SlotKinds
    BY <1>2, <1>6
  <2> HIDE DEF acc2
  <2> QED BY <1>2, <1>4, <2>1, <2>2, <2>3, <2>4, MarkWorks
<1>9. acc2.newiat = IatAt(dlls, d) + i /\ acc2.namePos = pos /\ acc2.newiat = s + 1
  BY <1>2
<1>10. ~preset => pos <= Even(DllNames(dlls)) + RoomTo(dlls, d - 1) + ItemsTo(dlls[d], i)
  <2> SUFFICES ASSUME ~preset PROVE pos <= Even(DllNames(dlls)) + RoomTo(dlls, d - 1) + ItemsTo(dlls[d], i)
    OBVIOUS
  <2>1. pos <= Even(DllNames(dlls)) + RoomTo(dlls, d - 1) + ItemsTo(dlls[d], i - 1)
    BY <1>7 DEF Mid
  <2> QED BY <1>2, <2>1, RoomLeft
<1> QED BY <1>5, <1>8, <1>9, <1>10 DEF Mid, hi2

LEMMA ItemKeeps ==
    ASSUME NEW dlls, Fits(dlls), NEW preset \in BOOLEAN, WorksOn(dlls, preset),
           NEW d \in 1 .. Len(dlls), NEW i \in 1 .. ItemCount(dlls, d),
           NEW names, NEW acc, NEW lo, Mid(dlls, preset, names, d, lo, acc, i - 1)
    PROVE  Mid(dlls, preset, names, d, lo, Item(acc, d, i), i)
<1>1. CASE dlls[d].items[i] > 0 /\ preset
  <2>1. preset = TRUE
    BY <1>1
  <2>2. WorksOn(dlls, TRUE) /\ Mid(dlls, TRUE, names, d, lo, acc, i - 1)
    BY <2>1
  <2>3. Mid(dlls, TRUE, names, d, lo, Item(acc, d, i), i)
    BY <1>1, <2>2, PlacedKeeps
  <2> QED BY <2>1, <2>3
<1>2. CASE dlls[d].items[i] > 0 /\ ~preset
  <2>1. preset = FALSE
    BY <1>2
  <2>2. WorksOn(dlls, FALSE) /\ Mid(dlls, FALSE, names, d, lo, acc, i - 1)
    BY <2>1
  <2>3. Mid(dlls, FALSE, names, d, lo, Item(acc, d, i), i)
    BY <1>2, <2>2, NamedKeeps
  <2> QED BY <2>1, <2>3
<1>3. CASE ~(dlls[d].items[i] > 0)
  BY <1>3, MarkedKeeps
<1> QED BY <1>1, <1>2, <1>3

\* The recursion of Items, as the specification writes it
IsItemRun(d, begin, acc) ==
    acc = [i \in 0 .. Len(work.dlls[d].items) |-> IF i = 0 THEN begin ELSE Item(acc[i - 1], d, i)]

ItemRunOf(d, begin) == CHOOSE acc : IsItemRun(d, begin, acc)

LEMMA ItemsIs == ASSUME NEW d, NEW begin PROVE Items(d, begin) = ItemRunOf(d, begin)[Len(work.dlls[d].items)]
BY DEF Items, ItemRunOf, IsItemRun

LEMMA ItemsKeep ==
    ASSUME NEW dlls, Fits(dlls), NEW preset \in BOOLEAN, WorksOn(dlls, preset), NEW d \in 1 .. Len(dlls),
           NEW names, NEW lo, NEW begin, Mid(dlls, preset, names, d, lo, begin, 0)
    PROVE  Mid(dlls, preset, names, d, lo, Items(d, begin), ItemCount(dlls, d))
<1> DEFINE n == ItemCount(dlls, d)
           S == ImportAccs(dlls, preset)
           Good(a, k) == Mid(dlls, preset, names, d, lo, a, k)
           Step == [x \in S \X (1 .. n) |-> IF Good(x[1], x[2] - 1) THEN Item(x[1], d, x[2]) ELSE x[1]]
<1>1. n \in Nat /\ n = Len(work.dlls[d].items)
  BY DllFacts DEF ItemCount, WorksOn
<1>2. \A a, k : Good(a, k) => a \in S
  BY DEF Mid, ImportsReached
<1>3. \A a, k : k \in 1 .. n /\ Good(a, k - 1) => Good(Item(a, d, k), k)
  BY ItemKeeps
<1>4. Good(begin, 0)
  OBVIOUS
<1> HIDE DEF n, S, Good
<1>5. Step \in [S \X (1 .. n) -> S]
  <2>1. ASSUME NEW a \in S, NEW k \in 1 .. n PROVE (IF Good(a, k - 1) THEN Item(a, d, k) ELSE a) \in S
    BY <1>2, <1>3
  <2> QED BY <2>1
<1>6. \A a \in S, k \in 1 .. n : Good(a, k - 1) => Step[<<a, k>>] = Item(a, d, k)
  OBVIOUS
<1> HIDE DEF Step
<1>7. PICK f \in [0 .. n -> S] : Iterates(f, begin, Step, n)
  <2>1. begin \in S
    BY <1>2, <1>4
  <2> QED BY <1>1, <1>5, <2>1, Recursion
<1>8. \A k \in 0 .. n : Good(f[k], k)
  <2> DEFINE T == {k \in 0 .. n : Good(f[k], k)}
  <2>1. 0 \in T
    BY <1>1, <1>4, <1>7 DEF Iterates
  <2>2. \A k \in 0 .. n - 1 : k \in T => k + 1 \in T
    <3> SUFFICES ASSUME NEW k \in 0 .. n - 1, Good(f[k], k) PROVE Good(f[k + 1], k + 1) /\ k + 1 \in 0 .. n
      OBVIOUS
    <3>1. k \in 0 .. n /\ k + 1 \in 1 .. n /\ (k + 1) - 1 = k /\ k + 1 \in 0 .. n
      BY <1>1
    <3>2. f[k] \in S
      BY <3>1
    <3>3. f[k + 1] = Step[<<f[k], k + 1>>]
      BY <1>7, <3>1 DEF Iterates
    <3>4. Good(f[k], (k + 1) - 1)
      BY <3>1
    <3>5. f[k + 1] = Item(f[k], d, k + 1)
      BY <1>6, <3>1, <3>2, <3>3, <3>4
    <3> QED BY <1>3, <3>1, <3>4, <3>5
  <2> HIDE DEF T
  <2>3. 0 \in Int /\ n \in Int
    BY <1>1
  <2>4. \A k \in 0 .. n : k \in T
    BY <2>1, <2>2, <2>3, UpFrom
  <2> QED BY <2>4 DEF T
<1>9. \A k \in 1 .. n : f[k] = Item(f[k - 1], d, k)
  <2> SUFFICES ASSUME NEW k \in 1 .. n PROVE f[k] = Item(f[k - 1], d, k)
    OBVIOUS
  <2>1. k - 1 \in 0 .. n
    BY <1>1
  <2>2. f[k - 1] \in S /\ Good(f[k - 1], k - 1)
    BY <1>8, <2>1
  <2>3. f[k] = Step[<<f[k - 1], k>>]
    BY <1>7 DEF Iterates
  <2> QED BY <1>6, <2>2, <2>3
<1>10. IsItemRun(d, begin, f)
  <2> DEFINE F == [i \in 0 .. n |-> IF i = 0 THEN begin ELSE Item(f[i - 1], d, i)]
  <2>1. ASSUME NEW k \in 0 .. n PROVE f[k] = F[k]
    <3>1. CASE k = 0
      BY <1>7, <3>1 DEF Iterates
    <3>2. CASE k # 0
      <4>1. k \in 1 .. n
        BY <1>1, <3>2
      <4> QED BY <1>9, <3>2, <4>1
    <3> QED BY <3>1, <3>2
  <2>2. F = [k \in 0 .. n |-> F[k]] /\ f = [k \in 0 .. n |-> f[k]]
    OBVIOUS
  <2> HIDE DEF F
  <2>3. f = F
    BY <2>1, <2>2
  <2> QED BY <1>1, <2>3 DEF F, IsItemRun
<1> DEFINE c == ItemRunOf(d, begin)
<1>11. IsItemRun(d, begin, c)
  BY <1>10, Zenon DEF ItemRunOf
<1> HIDE DEF c
<1>12. c[0] = begin /\ \A k \in 1 .. n : c[k] = Item(c[k - 1], d, k)
  <2>1. c = [i \in 0 .. n |-> IF i = 0 THEN begin ELSE Item(c[i - 1], d, i)]
    BY <1>1, <1>11 DEF IsItemRun
  <2>2. 0 \in 0 .. n /\ \A k \in 1 .. n : k \in 0 .. n /\ k # 0
    BY <1>1
  <2> QED BY <2>1, <2>2
<1>13. GoOnAlike(c, f, n)
  <2>1. c[0] = f[0]
    BY <1>7, <1>12 DEF Iterates
  <2>2. ASSUME NEW k \in 1 .. n, c[k - 1] = f[k - 1] PROVE c[k] = f[k]
    BY <1>9, <1>12, <2>2
  <2> QED BY <2>1, <2>2 DEF GoOnAlike
<1>14. Alike(c, f, n)
  BY <1>1, <1>13, RunsAgree
<1>15. n \in 0 .. n
  BY <1>1
<1>16. c[n] = f[n] /\ Good(f[n], n)
  BY <1>8, <1>14, <1>15 DEF Alike
<1>17. Items(d, begin) = c[n]
  BY <1>1, ItemsIs DEF c
<1> QED BY <1>16, <1>17 DEF Good, n

-----------------------------------------------------------------------------
(* The state between two rounds *)

ImportAccOf(w) ==
    [area |-> w.area, slots |-> w.slots, namePos |-> w.namePos, newiat |-> IatAt(w.dlls, w.next)]

ImportState(w) ==
    /\ w = [dlls |-> w.dlls, preset |-> w.preset, next |-> w.next, dllPos |-> w.dllPos, start |-> w.start,
            namePos |-> w.namePos, area |-> w.area, names |-> w.names, slots |-> w.slots]
    /\ Fits(w.dlls) /\ w.preset \in BOOLEAN /\ w.next \in 1 .. Len(w.dlls) + 1
    /\ w.start = Even(DllNames(w.dlls))
    /\ DOMAIN w.names = 1 .. Len(w.dlls)
    /\ w.preset => \A e \in 1 .. Len(w.dlls) : e >= w.next => w.names[e] = Place * IatAt(w.dlls, e)
    /\ ~w.preset => /\ w.dllPos = NamesTo(w.dlls, w.next - 1)
                    /\ w.namePos <= Even(DllNames(w.dlls)) + RoomTo(w.dlls, w.next - 1)
    /\ ImportsReached(w.dlls, w.preset, w.names, ImportAccOf(w), w.next - 1,
               HiOf(w.preset, IatAt(w.dlls, w.next), NamesTo(w.dlls, w.next - 1)),
               HiOf(w.preset, IatAt(w.dlls, w.next), w.namePos))

LEMMA ListsFit == ASSUME NEW dlls \in ImportLists PROVE Fits(dlls)
BY ImportAssumption DEF Fits, DllKinds, ItemKinds

LEMMA ImportsBegin ==
    ASSUME NEW dlls, Fits(dlls), NEW preset \in BOOLEAN
    PROVE  ImportState(ImportWork(dlls, preset))
<1> DEFINE w == ImportWork(dlls, preset)
           L == Len(dlls)
           e == SlotEnd(dlls)
           size == AreaEnd(dlls, preset)
           start == Even(DllNames(dlls))
           area == [p \in 0 .. size - 1 |-> Nul]
           names == [d \in DOMAIN dlls |-> IF preset THEN Place * IatAt(dlls, d) ELSE 0]
           slots == [s \in 0 .. e - 1 |-> IF preset THEN <<"at", Place * (s + 1)>> ELSE <<"unset", 0>>]
           acc == [area |-> area, slots |-> slots, namePos |-> start, newiat |-> 0]
<1>1. w = [dlls |-> dlls, preset |-> preset, next |-> 1, dllPos |-> 0, start |-> start, namePos |-> start,
           area |-> area, names |-> names, slots |-> slots]
  BY DEF ImportWork, AreaEnd, SlotEnd
<1>2. L \in Nat /\ DOMAIN dlls = 1 .. L /\ 1 \in 1 .. L + 1 /\ 0 \in 0 .. L
  BY DllFacts
<1>3. e \in Nat /\ size \in Nat /\ start \in Nat
  BY BoundsAre
<1>4. IatAt(dlls, 1) = 0 /\ NamesTo(dlls, 0) = 0 /\ RoomTo(dlls, 0) = 0
  BY IatNext, NamesNext, RoomNext
<1>5. area \in [0 .. size - 1 -> Cells]
  BY DEF Nul, Cells
<1>6. slots \in [0 .. e - 1 -> SlotKinds]
  <2>1. ASSUME NEW s \in 0 .. e - 1
        PROVE  (IF preset THEN <<"at", Place * (s + 1)>> ELSE <<"unset", 0>>) \in SlotKinds
    <3> DEFINE t == s + 1
    <3>1. t \in Nat /\ t <= t
      OBVIOUS
    <3> HIDE DEF t
    <3>2. Place * t \in Nat
      BY <3>1, PlaceTimes
    <3>3. Place * t \in Int /\ 0 \in Int
      BY <3>2
    <3> DEFINE x == Place * t
    <3> HIDE DEF x
    <3>4. <<"at", x>> \in SlotKinds /\ <<"unset", 0>> \in SlotKinds
      BY <3>3, AtIsKind DEF x
    <3>5. (IF preset THEN <<"at", x>> ELSE <<"unset", 0>>) \in SlotKinds
      BY <3>4
    <3> QED BY <3>5, Zenon DEF t, x
  <2> QED BY <2>1
<1>7. preset => PlacesSet(dlls, slots, 0)
  <2> SUFFICES ASSUME preset PROVE \A u \in 0 .. e - 1 : slots[u] = <<"at", Place * (u + 1)>>
    BY DEF PlacesSet
  <2> QED OBVIOUS
<1>8. preset => \A d \in 1 .. L : names[d] = Place * IatAt(dlls, d)
  BY <1>2
<1>9. DOMAIN names = 1 .. L
  BY <1>2
<1>10. Place * 0 = 0
  <2>1. Place \in Nat
    BY ImportAssumption
  <2> QED BY <2>1
<1>11. HiOf(preset, 0, 0) = 0 /\ HiOf(preset, 0, start) = (IF preset THEN 0 ELSE start)
  <2>1. CASE preset
    BY <1>10, <2>1, Zenon DEF HiOf
  <2>2. CASE ~preset
    BY <2>2, Zenon DEF HiOf
  <2> QED BY <2>1, <2>2
<1> HIDE DEF area, names, slots, e, size, start, w
<1>19. /\ w.dlls = dlls /\ w.preset = preset /\ w.next = 1 /\ w.dllPos = 0 /\ w.start = start /\ w.namePos = start
       /\ w.area = area /\ w.names = names /\ w.slots = slots
  BY <1>1
<1>12. ImportAccOf(w) = acc
  BY <1>4, <1>19, Zenon DEF ImportAccOf
<1>13. acc \in ImportAccs(dlls, preset)
  <2>1. start \in Int /\ 0 \in Nat
    BY <1>3
  <2> QED BY <1>5, <1>6, <2>1, MakesAcc DEF e, size
<1>14. NamesFound(dlls, area, names, 0, 0)
  BY DEF NamesFound
<1> DEFINE base == NamesBase(dlls, preset)
           hi == HiOf(preset, 0, start)
<1>15. SlotsFound(dlls, area, slots, 0, base, hi)
  <2> SUFFICES ASSUME NEW d \in 1 .. Len(dlls), NEW j \in 1 .. ItemCount(dlls, d), SlotOf(dlls, d, j) < 0 PROVE FALSE
    BY DEF SlotsFound
  <2>1. j \in 1 .. ItemCount(dlls, d) + 1
    BY DllFacts
  <2>2. SlotOf(dlls, d, j) \in Nat
    BY <2>1, SlotInside
  <2> QED BY <2>2
<1>16. EndsFound(dlls, slots, 0)
  <2> SUFFICES ASSUME NEW d \in 1 .. Len(dlls), IatAt(dlls, d) + ItemCount(dlls, d) < 0 PROVE FALSE
    BY DEF EndsFound
  <2>1. ItemCount(dlls, d) \in Nat /\ d \in 1 .. Len(dlls) + 1
    BY DllFacts
  <2>2. IatAt(dlls, d) \in Nat
    BY <2>1, IatNext
  <2> QED BY <2>1, <2>2
<1>17. base <= hi /\ hi \in Nat /\ 0 <= hi
  BY <1>3, <1>11 DEF NamesBase, start
<1>18. ImportsReached(dlls, preset, names, acc, 0, 0, hi)
  <2> HIDE DEF base, hi
  <2>1. acc.area = area /\ acc.slots = slots /\ acc.newiat = 0
    OBVIOUS
  <2>2. 0 \in Nat
    OBVIOUS
  <2> QED BY <1>7, <1>13, <1>14, <1>15, <1>16, <1>17, <2>1, <2>2 DEF ImportsReached, base
<1> HIDE DEF acc
<1>20. 1 - 1 = 0
  OBVIOUS
<1>21. start <= start + 0
  BY <1>3
<1> QED BY <1>1, <1>2, <1>4, <1>8, <1>9, <1>11, <1>12, <1>18, <1>19, <1>20, <1>21 DEF ImportState, w, start, L

\* The two places of a name: that of the packer, and the next free one
LEMMA PresetPlace ==
    ASSUME NEW len \in Nat, NEW step \in Nat, len < step, NEW x \in Nat, NEW y, y = x + step, NEW z \in Nat, y <= z
    PROVE  /\ x + len + 1 <= z /\ x + len + 1 <= y /\ y \in Nat /\ y <= y /\ x <= y /\ x <= x
OBVIOUS

LEMMA FreePlace ==
    ASSUME NEW len \in Nat, NEW before \in Nat, NEW after, after = before + (len + 1), NEW top \in Nat, after <= top,
           NEW start \in Nat, top <= start, NEW room \in Nat, NEW pos \in Int, start <= pos
    PROVE  /\ before + len + 1 <= start + room /\ before + len + 1 <= after /\ after \in Nat /\ after <= pos
           /\ pos <= pos /\ pos \in Nat /\ before + len + 1 <= start
OBVIOUS

NameHasRoom(dlls, preset, d, pos, s, before, after) ==
    /\ s \in Nat /\ before \in Nat /\ after \in Nat
    /\ HiOf(preset, s, before) \in Nat
    /\ HiOf(preset, s, before) + dlls[d].len + 1 <= AreaEnd(dlls, preset)
    /\ HiOf(preset, s, before) + dlls[d].len + 1 <= HiOf(preset, s + 1, after)
    /\ HiOf(preset, s + 1, after) \in Nat /\ HiOf(preset, s + 1, pos) \in Nat
    /\ HiOf(preset, s + 1, after) <= HiOf(preset, s + 1, pos)
    /\ HiOf(preset, s, pos) <= HiOf(preset, s + 1, pos)
    /\ \/ HiOf(preset, s, pos) <= HiOf(preset, s, before)
       \/ HiOf(preset, s, before) + dlls[d].len + 1 <= NamesBase(dlls, preset)

\* Where the name of the next DLL goes, and how much room there is
LEMMA NamePlace ==
    ASSUME NEW dlls, Fits(dlls), NEW preset \in BOOLEAN, NEW d \in 1 .. Len(dlls), NEW pos \in Int,
           ~preset => Even(DllNames(dlls)) <= pos,
           NEW s, s = IatAt(dlls, d), NEW before, before = NamesTo(dlls, d - 1), NEW after, after = NamesTo(dlls, d)
    PROVE  NameHasRoom(dlls, preset, d, pos, s, before, after)
<1> DEFINE len == dlls[d].len
           L == Len(dlls)
           e == SlotEnd(dlls)
           start == Even(DllNames(dlls))
           room == RoomTo(dlls, L)
<1>1. L \in Nat /\ len \in Nat /\ len < Place /\ d - 1 \in 0 .. L /\ d \in 0 .. L /\ L \in 0 .. L /\ d \in 1 .. L + 1
  BY DllFacts
<1>2. s \in Nat
  BY <1>1, IatNext
<1>3. e \in Nat /\ s + 1 <= e
  <2>1. 1 \in 1 .. ItemCount(dlls, d) + 1 /\ ItemCount(dlls, d) \in Nat
    BY DllFacts
  <2> DEFINE u == SlotOf(dlls, d, 1)
  <2>2. u \in 0 .. e - 1 /\ u = s + 1 - 1 /\ e \in Nat
    BY <2>1, SlotInside
  <2> HIDE DEF u, e
  <2> QED BY <1>2, <2>2
<1>4. /\ before \in Nat /\ after \in Nat /\ after = before + (len + 1) /\ after <= NamesTo(dlls, L)
      /\ NamesTo(dlls, L) \in Nat
  BY <1>1, NamesNext
<1>5. start \in Nat /\ NamesTo(dlls, L) <= start
  BY BoundsAre
<1>6. room \in Nat /\ AreaSize(dlls) = start + room
  BY <1>1, RoomNext
<1> DEFINE x == Place * s
           y == Place * (s + 1)
           z == Place * (e + 1)
<1>7. x \in Nat /\ y = x + Place /\ Place \in Nat /\ y \in Nat
  <2> DEFINE t == s + 1
  <2>1. s <= t /\ t \in Nat
    BY <1>2
  <2>2. Place \in Nat /\ Place * s \in Nat /\ Place * t \in Nat /\ Place * (s + 1) = Place * s + Place
    <3> HIDE DEF t
    <3> QED BY <1>2, <2>1, PlaceTimes
  <2> HIDE DEF x, y
  <2>3. x = Place * s /\ y = Place * (s + 1) /\ y = Place * t
    BY DEF x, y
  <2> QED BY <2>2, <2>3
<1>8. z \in Nat /\ y <= z
  <2> HIDE DEF e
  <2>1. Place * (s + 2) \in Nat /\ Place * (e + 1) \in Nat /\ Place * (s + 1) \in Nat /\ Place * (s + 1) <= Place * (s + 2) /\ Place * (s + 2) <= Place * (e + 1)
    BY <1>2, <1>3, PlaceOf
  <2> DEFINE t == Place * (s + 2)
  <2>2. z \in Nat /\ y \in Nat /\ t \in Nat /\ y <= t /\ t <= z
    BY <2>1
  <2> HIDE DEF t, y, z
  <2> QED BY <2>2
<1>9. /\ HiOf(preset, s, before) = (IF preset THEN x ELSE before)
      /\ HiOf(preset, s + 1, after) = (IF preset THEN y ELSE after)
      /\ HiOf(preset, s + 1, pos) = (IF preset THEN y ELSE pos)
      /\ HiOf(preset, s, pos) = (IF preset THEN x ELSE pos)
      /\ AreaEnd(dlls, preset) = (IF preset THEN z ELSE AreaSize(dlls))
      /\ NamesBase(dlls, preset) = (IF preset THEN 0 ELSE start)
  BY Zenon DEF HiOf, AreaEnd, NamesBase
<1>10. ~preset => start <= pos
  OBVIOUS
<1> HIDE DEF len, L, e, start, room, x, y, z
<1>11. CASE preset
  <2>1. HiOf(preset, s, before) = x /\ HiOf(preset, s + 1, after) = y /\ HiOf(preset, s + 1, pos) = y
        /\ HiOf(preset, s, pos) = x /\ AreaEnd(dlls, preset) = z
    BY <1>9, <1>11
  <2>2. /\ x + len + 1 <= z /\ x + len + 1 <= y /\ y \in Nat /\ y <= y /\ x <= y /\ x <= x
    BY <1>1, <1>7, <1>8, PresetPlace
  <2>3. s \in Nat /\ before \in Nat /\ after \in Nat /\ x \in Nat
    BY <1>2, <1>4, <1>7
  <2> QED BY <2>1, <2>2, <2>3 DEF len, NameHasRoom
<1>12. CASE ~preset
  <2>1. HiOf(preset, s, before) = before /\ HiOf(preset, s + 1, after) = after /\ HiOf(preset, s + 1, pos) = pos
        /\ HiOf(preset, s, pos) = pos /\ AreaEnd(dlls, preset) = start + room /\ NamesBase(dlls, preset) = start
    BY <1>6, <1>9, <1>12
  <2>2. start <= pos
    BY <1>10, <1>12
  <2> DEFINE top == NamesTo(dlls, L)
  <2>3. top \in Nat /\ after <= top /\ top <= start
    BY <1>4, <1>5
  <2> HIDE DEF top
  <2>4. /\ before + len + 1 <= start + room /\ before + len + 1 <= after /\ after \in Nat /\ after <= pos
        /\ pos <= pos /\ pos \in Nat /\ before + len + 1 <= start
    BY <1>1, <1>4, <1>5, <1>6, <2>2, <2>3, FreePlace
  <2>5. s \in Nat /\ before \in Nat /\ after \in Nat /\ pos \in Nat
    BY <1>2, <1>4, <2>4
  <2> QED BY <2>1, <2>4, <2>5 DEF len, NameHasRoom
<1> QED BY <1>11, <1>12 DEF NameHasRoom, len

\* The round up to the terminator: the name of the DLL and its imports
RoundBegin(w) ==
    [area |-> PutAt(w.area, IF w.preset THEN w.names[w.next] ELSE w.dllPos, Spelled(w.next, 0, w.dlls[w.next].len)),
     slots |-> w.slots, namePos |-> w.namePos, newiat |-> IatAt(w.dlls, w.next)]

LEMMA RoundBegins ==
    ASSUME NEW w, ImportState(w), NEW d, d = w.next, d <= Len(w.dlls),
           NEW at, at = (IF w.preset THEN w.names[d] ELSE w.dllPos)
    PROVE  /\ d \in 1 .. Len(w.dlls) /\ at \in Nat /\ w.namePos \in Int
           /\ Mid(w.dlls, w.preset, [w.names EXCEPT ![d] = at], d,
                  HiOf(w.preset, IatAt(w.dlls, d) + 1, NamesTo(w.dlls, d)), RoundBegin(w), 0)
<1> DEFINE dlls == w.dlls
           preset == w.preset
           names == w.names
           names2 == [names EXCEPT ![d] = at]
           pos == w.namePos
           s == IatAt(dlls, d)
           before == NamesTo(dlls, d - 1)
           after == NamesTo(dlls, d)
           lo == HiOf(preset, s, before)
           hi == HiOf(preset, s, pos)
           lo2 == HiOf(preset, s + 1, after)
           hi2 == HiOf(preset, s + 1, pos)
           acc == ImportAccOf(w)
           acc2 == RoundBegin(w)
<1>1. /\ Fits(dlls) /\ preset \in BOOLEAN /\ w.next \in 1 .. Len(dlls) + 1 /\ DOMAIN names = 1 .. Len(dlls)
      /\ (preset => \A e \in 1 .. Len(dlls) : e >= d => names[e] = Place * IatAt(dlls, e))
      /\ (~preset => w.dllPos = before /\ pos <= Even(DllNames(dlls)) + RoomTo(dlls, d - 1))
      /\ ImportsReached(dlls, preset, names, acc, d - 1, lo, hi)
  BY DEF ImportState
<1>2. d \in 1 .. Len(dlls) /\ d \in Int /\ Len(dlls) \in Nat
  <2>1. Len(dlls) \in Nat
    BY <1>1, DllFacts
  <2> QED BY <1>1, <2>1
<1>3. acc.area = w.area /\ acc.slots = w.slots /\ acc.namePos = pos /\ acc.newiat = s
  BY DEF ImportAccOf
<1>4. acc \in ImportAccs(dlls, preset) /\ NamesBase(dlls, preset) <= hi /\ hi \in Nat
  BY <1>1 DEF ImportsReached
<1>5. pos \in Int
  BY <1>3, <1>4, ImportAccIs
<1>6. at = lo
  <2>1. CASE preset
    <3>1. names[d] = Place * s
      <4>1. d >= d
        BY <1>2
      <4> QED BY <1>1, <1>2, <2>1, <4>1
    <3> QED BY <2>1, <3>1, Zenon DEF HiOf
  <2>2. CASE ~preset
    BY <1>1, <2>2 DEF HiOf
  <2> QED BY <2>1, <2>2
<1>7. ~preset => Even(DllNames(dlls)) <= pos
  <2> SUFFICES ASSUME ~preset PROVE Even(DllNames(dlls)) <= pos
    OBVIOUS
  <2>1. NamesBase(dlls, preset) = Even(DllNames(dlls)) /\ hi = pos
    BY Zenon DEF NamesBase, HiOf
  <2> QED BY <1>4, <2>1
<1>8. names2[d] = at /\ NamesKept(dlls, names, names2, d - 1)
  <2>1. names2[d] = at
    BY <1>1, <1>2
  <2>2. \A e \in 1 .. Len(dlls) : e <= d - 1 => names2[e] = names[e]
    BY <1>1, <1>2
  <2> QED BY <2>1, <2>2 DEF NamesKept
<1>9. acc2 = [area |-> PutAt(acc.area, at, Spelled(d, 0, dlls[d].len)), slots |-> acc.slots,
              namePos |-> acc.namePos, newiat |-> acc.newiat]
  <2>1. acc2 = [area |-> PutAt(w.area, at, Spelled(d, 0, dlls[d].len)), slots |-> w.slots,
                namePos |-> w.namePos, newiat |-> IatAt(dlls, d)]
    BY DEF RoundBegin
  <2> HIDE DEF acc2, acc
  <2> QED BY <1>3, <2>1
<1>10. d - 1 \in 0 .. Len(dlls) /\ d - 1 = d - 1
  BY <1>2
<1> HIDE DEF dlls, preset, names, pos, acc, acc2, names2
<1>11. /\ s \in Nat /\ before \in Nat /\ after \in Nat
       /\ lo \in Nat
       /\ lo + dlls[d].len + 1 <= AreaEnd(dlls, preset)
       /\ lo + dlls[d].len + 1 <= lo2
       /\ lo2 \in Nat /\ hi2 \in Nat
       /\ lo2 <= hi2
       /\ hi <= hi2
       /\ hi <= lo \/ lo + dlls[d].len + 1 <= NamesBase(dlls, preset)
  <2>1. s = IatAt(dlls, d) /\ before = NamesTo(dlls, d - 1) /\ after = NamesTo(dlls, d)
    OBVIOUS
  <2> HIDE DEF s, before, after
  <2>2. Fits(dlls) /\ preset \in BOOLEAN /\ d \in 1 .. Len(dlls) /\ pos \in Int
    BY <1>1, <1>2, <1>5
  <2>3. NameHasRoom(dlls, preset, d, pos, s, before, after)
    BY <1>7, <2>1, <2>2, NamePlace
  <2> QED BY <2>3, Zenon DEF NameHasRoom
<1> HIDE DEF s, before, after, lo, hi, lo2, hi2
<1>12. ImportsReached(dlls, preset, names2, acc2, d, lo2, hi2)
  BY <1>1, <1>2, <1>6, <1>8, <1>9, <1>11, DllNameKeeps
<1>13. acc2.newiat = s /\ acc2.namePos = pos
  BY <1>3, <1>9
<1>14. ItemsTo(dlls[d], 0) = 0
  <2>1. dlls[d].items \in Seq(ItemKinds)
    BY <1>1, <1>2, DllFacts
  <2> QED BY <2>1, ItemsNext
<1>15. ~preset => pos <= Even(DllNames(dlls)) + RoomTo(dlls, d - 1) + ItemsTo(dlls[d], 0)
  <2>1. RoomTo(dlls, d - 1) \in Nat /\ Even(DllNames(dlls)) \in Nat
    BY <1>1, <1>10, RoomNext, BoundsAre
  <2> QED BY <1>1, <1>5, <1>14, <2>1 DEF pos
<1>16. s = IatAt(dlls, d) + 0
  BY <1>11 DEF s
<1>17. Mid(dlls, preset, names2, d, lo2, acc2, 0)
  <2>1. HiOf(preset, acc2.newiat + 1, acc2.namePos) = hi2
    BY <1>13 DEF hi2
  <2> QED BY <1>12, <1>13, <1>15, <1>16, <2>1 DEF Mid
<1>18. lo2 = HiOf(preset, IatAt(dlls, d) + 1, NamesTo(dlls, d))
  BY DEF lo2, s, after
<1>19. at \in Nat
  BY <1>6, <1>11
<1> QED BY <1>2, <1>5, <1>17, <1>18, <1>19 DEF dlls, preset, names, pos, acc2, names2

\* The state when a round has ended
RoundEnd(w, acc, at) ==
    [dlls |-> w.dlls, preset |-> w.preset, next |-> w.next + 1, dllPos |-> w.dllPos + w.dlls[w.next].len + 1,
     start |-> w.start, namePos |-> acc.namePos, area |-> acc.area, names |-> [w.names EXCEPT ![w.next] = at],
     slots |-> [acc.slots EXCEPT ![acc.newiat] = <<"end", 0>>]]

DllAt(w) == IF w.preset THEN w.names[w.next] ELSE w.dllPos

LEMMA RoundIs ==
    ASSUME ImportState(work), RebuildDll
    PROVE  /\ work' = RoundEnd(work, Items(work.next, RoundBegin(work)), DllAt(work))
           /\ work.next <= Len(work.dlls)
<1> DEFINE acc == Items(work.next, RoundBegin(work))
           w == [dlls |-> work.dlls, preset |-> work.preset, next |-> work.next, dllPos |-> work.dllPos,
                 start |-> work.start, namePos |-> work.namePos, area |-> work.area, names |-> work.names,
                 slots |-> work.slots]
<1>1. work = w
  BY DEF ImportState
<1>2. /\ work.next <= Len(work.dlls)
      /\ work' = [work EXCEPT !.next = @ + 1, !.names[work.next] = DllAt(work),
                              !.dllPos = @ + work.dlls[work.next].len + 1,
                              !.area = acc.area, !.namePos = acc.namePos,
                              !.slots = [acc.slots EXCEPT ![acc.newiat] = <<"end", 0>>]]
  BY DEF RebuildDll, RoundBegin, DllAt
<1> HIDE DEF acc
<1>3. work' = [w EXCEPT !.next = @ + 1, !.names[work.next] = DllAt(work),
                        !.dllPos = @ + work.dlls[work.next].len + 1,
                        !.area = acc.area, !.namePos = acc.namePos,
                        !.slots = [acc.slots EXCEPT ![acc.newiat] = <<"end", 0>>]]
  BY <1>1, <1>2
<1>4. work' = RoundEnd(work, acc, DllAt(work))
  BY <1>3 DEF RoundEnd
<1> QED BY <1>2, <1>4 DEF acc

\* What the terminator leaves: the places at which the next round begins
NextPlaces(dlls, preset, d, u, pos) ==
    /\ u = IatAt(dlls, d) + ItemCount(dlls, d) /\ u + 1 = IatAt(dlls, d + 1)
    /\ u \in 0 .. SlotEnd(dlls) - 1 /\ u + 1 \in Nat
    /\ HiOf(preset, IatAt(dlls, d + 1), NamesTo(dlls, d)) \in Nat
    /\ HiOf(preset, IatAt(dlls, d) + 1, NamesTo(dlls, d)) <= HiOf(preset, IatAt(dlls, d + 1), NamesTo(dlls, d))
    /\ HiOf(preset, IatAt(dlls, d + 1), NamesTo(dlls, d)) <= HiOf(preset, IatAt(dlls, d + 1), pos)
    /\ HiOf(preset, IatAt(dlls, d + 1), pos) \in Nat

LEMMA NextPlacesAre ==
    ASSUME NEW dlls, Fits(dlls), NEW preset \in BOOLEAN, NEW d \in 1 .. Len(dlls), NEW pos \in Int,
           ~preset => Even(DllNames(dlls)) <= pos, NEW u, u = IatAt(dlls, d) + ItemCount(dlls, d)
    PROVE  NextPlaces(dlls, preset, d, u, pos)
<1> DEFINE s == IatAt(dlls, d)
           t == IatAt(dlls, d + 1)
           n == ItemCount(dlls, d)
           names == NamesTo(dlls, d)
           start == Even(DllNames(dlls))
<1>1. n \in Nat /\ d \in 0 .. Len(dlls) /\ d \in 1 .. Len(dlls) + 1 /\ d + 1 \in 1 .. Len(dlls) + 1
      /\ n + 1 \in 1 .. n + 1 /\ Len(dlls) \in Nat
  BY DllFacts
<1>2. s \in Nat /\ t \in Nat /\ t = s + n + 1
  BY <1>1, IatNext
<1>3. names \in Nat /\ names <= NamesTo(dlls, Len(dlls)) /\ NamesTo(dlls, Len(dlls)) \in Nat
  <2>1. Len(dlls) \in 0 .. Len(dlls)
    BY <1>1
  <2> QED BY <1>1, <2>1, NamesNext
<1>4. start \in Nat /\ NamesTo(dlls, Len(dlls)) <= start
  BY BoundsAre
<1>5. u \in 0 .. SlotEnd(dlls) - 1
  <2>1. SlotOf(dlls, d, n + 1) \in 0 .. SlotEnd(dlls) - 1 /\ SlotOf(dlls, d, n + 1) = s + (n + 1) - 1
    BY <1>1, SlotInside
  <2> QED BY <1>1, <1>2, <2>1
<1>6. u + 1 = t /\ s + 1 \in Nat /\ s + 1 <= t
  BY <1>1, <1>2
<1> HIDE DEF s, t, n, names, start
<1>7. CASE preset
  <2> DEFINE v == s + 1
             x == Place * v
             y == Place * t
  <2>1. v \in Nat /\ v <= t
    BY <1>6
  <2> HIDE DEF v
  <2>2. x \in Nat /\ y \in Nat /\ x <= y
    BY <1>2, <2>1, PlaceTimes
  <2> HIDE DEF x, y
  <2>3. HiOf(preset, v, names) = x /\ HiOf(preset, t, names) = y /\ HiOf(preset, t, pos) = y
    BY <1>7 DEF HiOf, x, y
  <2>4. y <= y
    BY <2>2
  <2> QED BY <1>2, <1>5, <1>6, <2>2, <2>3, <2>4, Zenon DEF NextPlaces, s, t, n, names, v
<1>8. CASE ~preset
  <2>1. HiOf(preset, s + 1, names) = names /\ HiOf(preset, t, names) = names /\ HiOf(preset, t, pos) = pos
    BY <1>8 DEF HiOf
  <2>2. names <= pos /\ pos \in Nat /\ names <= names
    BY <1>3, <1>4, <1>8 DEF start
  <2> QED BY <1>2, <1>3, <1>5, <1>6, <2>1, <2>2, Zenon DEF NextPlaces, s, t, n, names
<1> QED BY <1>7, <1>8

LEMMA RoundEnds ==
    ASSUME NEW w, ImportState(w), NEW d, d = w.next, d \in 1 .. Len(w.dlls), NEW at, at \in Nat, NEW acc,
           Mid(w.dlls, w.preset, [w.names EXCEPT ![d] = at], d,
               HiOf(w.preset, IatAt(w.dlls, d) + 1, NamesTo(w.dlls, d)), acc, ItemCount(w.dlls, d))
    PROVE  ImportState(RoundEnd(w, acc, at))
<1> DEFINE dlls == w.dlls
           preset == w.preset
           names2 == [w.names EXCEPT ![d] = at]
           n == ItemCount(dlls, d)
           u == acc.newiat
           pos == acc.namePos
           slots2 == [acc.slots EXCEPT ![u] = <<"end", 0>>]
           w2 == RoundEnd(w, acc, at)
           acc2 == [area |-> acc.area, slots |-> slots2, namePos |-> pos, newiat |-> u + 1]
           lo == HiOf(preset, IatAt(dlls, d) + 1, NamesTo(dlls, d))
           lo2 == HiOf(preset, IatAt(dlls, d + 1), NamesTo(dlls, d))
           hi == HiOf(preset, u + 1, pos)
<1>1. /\ Fits(dlls) /\ preset \in BOOLEAN /\ DOMAIN w.names = 1 .. Len(dlls)
      /\ w.start = Even(DllNames(dlls))
      /\ (preset => \A e \in 1 .. Len(dlls) : e >= d => w.names[e] = Place * IatAt(dlls, e))
      /\ (~preset => w.dllPos = NamesTo(dlls, d - 1))
  BY DEF ImportState
<1>2. /\ ImportsReached(dlls, preset, names2, acc, d, lo, hi)
      /\ u = IatAt(dlls, d) + n
      /\ ~preset => pos <= Even(DllNames(dlls)) + RoomTo(dlls, d - 1) + ItemsTo(dlls[d], n)
  BY DEF Mid
<1>3. /\ w2 = [dlls |-> dlls, preset |-> preset, next |-> d + 1, dllPos |-> w.dllPos + dlls[d].len + 1,
               start |-> w.start, namePos |-> pos, area |-> acc.area, names |-> names2, slots |-> slots2]
  BY DEF RoundEnd
<1>4. DOMAIN names2 = 1 .. Len(dlls) /\ \A e \in 1 .. Len(dlls) : e # d => names2[e] = w.names[e]
  BY <1>1
<1>5. d \in 1 .. Len(dlls) /\ d \in Int
  OBVIOUS
<1> DEFINE dllPos == w.dllPos
           start == w.start
           names == w.names
<1> HIDE DEF dlls, preset, names2, w2, acc2, lo, lo2, hi, slots2, u, pos, n, dllPos, start, names
<1>6. Len(dlls) \in Nat /\ dlls[d].len \in Nat /\ dlls[d].items \in Seq(ItemKinds) /\ n = Len(dlls[d].items)
  BY <1>1, <1>5, DllFacts DEF n, ItemCount
<1>7. /\ acc \in ImportAccs(dlls, preset) /\ acc.area \in [0 .. AreaEnd(dlls, preset) - 1 -> Cells]
      /\ acc.slots \in [0 .. SlotEnd(dlls) - 1 -> SlotKinds] /\ pos \in Int /\ u \in Nat
  <2>1. acc \in ImportAccs(dlls, preset)
    BY <1>2 DEF ImportsReached
  <2> QED BY <2>1, ImportAccIs DEF pos, u
<1>8. NamesBase(dlls, preset) <= hi /\ hi \in Nat /\ lo \in Nat
  BY <1>2 DEF ImportsReached
<1>9. ~preset => Even(DllNames(dlls)) <= pos
  <2> SUFFICES ASSUME ~preset PROVE Even(DllNames(dlls)) <= pos
    OBVIOUS
  <2>1. NamesBase(dlls, preset) = Even(DllNames(dlls)) /\ hi = pos
    BY Zenon DEF NamesBase, HiOf, hi
  <2> QED BY <1>8, <2>1
<1>10. NextPlaces(dlls, preset, d, u, pos)
  <2>1. u = IatAt(dlls, d) + ItemCount(dlls, d)
    BY <1>2 DEF n
  <2> QED BY <1>1, <1>5, <1>7, <1>9, <2>1, NextPlacesAre
<1>11. /\ u + 1 = IatAt(dlls, d + 1) /\ u \in 0 .. SlotEnd(dlls) - 1 /\ u + 1 \in Nat
       /\ lo2 \in Nat /\ lo <= lo2 /\ lo2 <= hi
  <2>1. hi = HiOf(preset, IatAt(dlls, d + 1), pos)
    BY <1>10 DEF NextPlaces, hi
  <2> QED BY <1>10, <2>1 DEF NextPlaces, lo, lo2
<1>12. /\ slots2 \in [0 .. SlotEnd(dlls) - 1 -> SlotKinds] /\ slots2[u] = <<"end", 0>>
       /\ OneSlotSet(acc.slots, slots2, u)
  <2>1. <<"end", 0>> \in SlotKinds
    <3>1. 0 \in Int
      OBVIOUS
    <3> QED BY <3>1, AtIsKind
  <2> QED BY <1>7, <1>11, <2>1, SlotsSetIs DEF slots2
<1>13. acc2 \in ImportAccs(dlls, preset)
  BY <1>7, <1>11, <1>12, MakesAcc DEF acc2
<1>14. /\ acc2.newiat = u + 1 /\ acc2.area = acc.area /\ acc2.slots = slots2
       /\ u = acc.newiat
  BY DEF acc2, u
<1>15. ImportsReached(dlls, preset, names2, acc2, d, lo2, hi)
  <2>1. acc2.slots[acc.newiat] = <<"end", 0>> /\ OneSlotSet(acc.slots, acc2.slots, acc.newiat)
        /\ acc2.newiat = acc.newiat + 1 /\ acc.newiat = IatAt(dlls, d) + ItemCount(dlls, d)
    BY <1>2, <1>12, <1>14 DEF n
  <2>2. hi <= hi
    BY <1>8
  <2> QED BY <1>1, <1>2, <1>5, <1>8, <1>11, <1>13, <1>14, <2>1, <2>2, EndKeeps
<1>16. /\ w2.dlls = dlls /\ w2.preset = preset /\ w2.next = d + 1 /\ w2.dllPos = dllPos + dlls[d].len + 1
       /\ w2.start = start /\ w2.namePos = pos /\ w2.area = acc.area /\ w2.names = names2 /\ w2.slots = slots2
  BY <1>3 DEF dllPos, start
<1>17. ImportAccOf(w2) = acc2
  <2>1. ImportAccOf(w2) = [area |-> acc.area, slots |-> slots2, namePos |-> pos, newiat |-> IatAt(dlls, d + 1)]
    BY <1>16, Zenon DEF ImportAccOf
  <2> QED BY <1>11, <2>1 DEF acc2
<1>18. d + 1 \in 1 .. Len(dlls) + 1 /\ d + 1 - 1 = d /\ (d + 1) - 1 = d
  BY <1>5, <1>6
<1>19. preset => \A e \in 1 .. Len(dlls) : e >= d + 1 => names2[e] = Place * IatAt(dlls, e)
  <2> SUFFICES ASSUME preset, NEW e \in 1 .. Len(dlls), e >= d + 1 PROVE names2[e] = Place * IatAt(dlls, e)
    OBVIOUS
  <2>1. e >= d /\ e # d
    BY <1>5, <1>6
  <2> QED BY <1>1, <1>4, <2>1
<1>20. ~preset => dllPos + dlls[d].len + 1 = NamesTo(dlls, d)
  <2>1. NamesTo(dlls, d) = NamesTo(dlls, d - 1) + (dlls[d].len + 1) /\ NamesTo(dlls, d - 1) \in Nat
    <3>1. d - 1 \in 0 .. Len(dlls)
      BY <1>5, <1>6
    <3> QED BY <1>1, <1>5, <3>1, NamesNext
  <2> QED BY <1>1, <1>6, <2>1 DEF dllPos
<1>21. ~preset => pos <= Even(DllNames(dlls)) + RoomTo(dlls, d)
  <2>1. /\ RoomTo(dlls, d) = RoomTo(dlls, d - 1) + Room(dlls[d]) /\ RoomTo(dlls, d - 1) \in Nat
    <3>1. d - 1 \in 0 .. Len(dlls)
      BY <1>5, <1>6
    <3> QED BY <1>1, <1>5, <3>1, RoomNext
  <2>2. Room(dlls[d]) = ItemsTo(dlls[d], n) /\ ItemsTo(dlls[d], n) \in Nat
    <3>1. n \in 0 .. Len(dlls[d].items)
      BY <1>6
    <3> QED BY <1>6, <3>1, ItemsNext
  <2>3. Even(DllNames(dlls)) \in Nat
    BY <1>1, BoundsAre
  <2> QED BY <1>2, <1>7, <2>1, <2>2, <2>3
<1>22. ImportsReached(w2.dlls, w2.preset, w2.names, ImportAccOf(w2), w2.next - 1,
               HiOf(w2.preset, IatAt(w2.dlls, w2.next), NamesTo(w2.dlls, w2.next - 1)),
               HiOf(w2.preset, IatAt(w2.dlls, w2.next), w2.namePos))
  <2>1. hi = HiOf(preset, IatAt(dlls, d + 1), pos)
    BY <1>11 DEF hi
  <2>2. HiOf(w2.preset, IatAt(w2.dlls, w2.next), NamesTo(w2.dlls, w2.next - 1)) = lo2
    BY <1>16, <1>18 DEF lo2
  <2>3. HiOf(w2.preset, IatAt(w2.dlls, w2.next), w2.namePos) = hi
    BY <1>16, <2>1
  <2> QED BY <1>15, <1>16, <1>17, <1>18, <2>2, <2>3
<1>23. w2.next - 1 = d
  BY <1>16, <1>18
<1>24. w2 = [dlls |-> w2.dlls, preset |-> w2.preset, next |-> w2.next, dllPos |-> w2.dllPos, start |-> w2.start,
             namePos |-> w2.namePos, area |-> w2.area, names |-> w2.names, slots |-> w2.slots]
  BY <1>3
<1>25. start = Even(DllNames(dlls))
  BY <1>1 DEF start
<1>26. ImportState(w2)
  BY <1>1, <1>4, <1>16, <1>18, <1>19, <1>20, <1>21, <1>22, <1>23, <1>24, <1>25 DEF ImportState
<1> QED BY <1>26 DEF w2

LEMMA RoundKeeps == ASSUME ImportState(work), RebuildDll PROVE ImportState(work')
<1> DEFINE w == work
           d == w.next
           begin == RoundBegin(w)
           acc == Items(d, begin)
           at == DllAt(w)
           names2 == [w.names EXCEPT ![d] = at]
           lo == HiOf(w.preset, IatAt(w.dlls, d) + 1, NamesTo(w.dlls, d))
<1>1. work' = RoundEnd(w, acc, at) /\ d <= Len(w.dlls)
  BY RoundIs
<1>2. at = (IF w.preset THEN w.names[d] ELSE w.dllPos)
  BY DEF DllAt
<1> HIDE DEF at
<1>3. ImportState(w) /\ Fits(w.dlls) /\ w.preset \in BOOLEAN
  BY DEF ImportState
<1>4. /\ d \in 1 .. Len(w.dlls) /\ at \in Nat /\ w.namePos \in Int
      /\ Mid(w.dlls, w.preset, names2, d, lo, begin, 0)
  <2> HIDE DEF w
  <2> QED BY <1>1, <1>2, <1>3, RoundBegins
<1>5. WorksOn(w.dlls, w.preset)
  BY DEF WorksOn, ImportState
<1> DEFINE n == ItemCount(w.dlls, d)
<1>6. Mid(w.dlls, w.preset, names2, d, lo, acc, n)
  <2> HIDE DEF w, names2, lo, begin, d
  <2> QED BY <1>3, <1>4, <1>5, ItemsKeep
<1>7. ImportState(RoundEnd(w, acc, at))
  <2> HIDE DEF w, acc
  <2> QED BY <1>3, <1>4, <1>6, RoundEnds
<1> QED BY <1>1, <1>7

LEMMA ImportsOfAll == ImportState(work) /\ phase = "dll" => ImportsLeadToNames
<1> SUFFICES ASSUME ImportState(work), work.next > Len(work.dlls) PROVE ImportsLeadToNames
  BY DEF ImportsLeadToNames
<1> DEFINE dlls == work.dlls
           L == Len(dlls)
           area == work.area
           slots == work.slots
           names == work.names
           base == NamesBase(dlls, work.preset)
           hi == HiOf(work.preset, SlotEnd(dlls), work.namePos)
           lo == HiOf(work.preset, SlotEnd(dlls), NamesTo(dlls, L))
<1>1. /\ Fits(dlls) /\ work.next \in 1 .. L + 1 /\ work.next > L
      /\ ImportsReached(dlls, work.preset, names, ImportAccOf(work), work.next - 1,
               HiOf(work.preset, IatAt(dlls, work.next), NamesTo(dlls, work.next - 1)),
               HiOf(work.preset, IatAt(dlls, work.next), work.namePos))
  BY DEF ImportState
<1>2. L \in Nat /\ DOMAIN dlls = 1 .. L
  BY <1>1, DllFacts
<1>3. work.next = L + 1 /\ work.next - 1 = L /\ IatAt(dlls, work.next) = SlotEnd(dlls)
  <2>1. work.next = L + 1 /\ work.next - 1 = L
    BY <1>1, <1>2
  <2> QED BY <2>1 DEF SlotEnd
<1>4. ImportAccOf(work).area = area /\ ImportAccOf(work).slots = slots /\ ImportAccOf(work).newiat = SlotEnd(dlls)
  BY <1>3 DEF ImportAccOf
<1>5. /\ NamesFound(dlls, area, names, L, lo)
      /\ SlotsFound(dlls, area, slots, SlotEnd(dlls), base, hi)
      /\ EndsFound(dlls, slots, SlotEnd(dlls))
  <2> HIDE DEF area, slots, names, dlls, L
  <2> QED BY <1>1, <1>3, <1>4 DEF ImportsReached
<1> HIDE DEF dlls, L, area, slots, names, base, hi, lo
<1>6. ASSUME NEW d \in 1 .. L
      PROVE  /\ ReadsAt(area, names[d], Spelled(d, 0, dlls[d].len))
             /\ slots[IatAt(dlls, d) + ItemCount(dlls, d)] = <<"end", 0>>
             /\ \A i \in 1 .. ItemCount(dlls, d) : SlotFound(dlls, area, slots, d, i, base, hi)
  <2> DEFINE n == ItemCount(dlls, d)
  <2>1. n \in Nat /\ n + 1 \in 1 .. n + 1 /\ \A i \in 1 .. n : i \in 1 .. n + 1
    BY <1>1, <1>2, DllFacts DEF L
  <2>2. \A i \in 1 .. n + 1 : SlotOf(dlls, d, i) \in 0 .. SlotEnd(dlls) - 1
                              /\ SlotOf(dlls, d, i) = IatAt(dlls, d) + i - 1 /\ IatAt(dlls, d) \in Nat
                              /\ SlotOf(dlls, d, i) \in Nat /\ SlotEnd(dlls) \in Nat
    BY <1>1, SlotInside DEF L
  <2> HIDE DEF n
  <2>3. d <= L /\ d \in 1 .. Len(dlls)
    BY <1>2 DEF L
  <2>4. ReadsAt(area, names[d], Spelled(d, 0, dlls[d].len))
    BY <1>5, <2>3 DEF NamesFound, DllFound
  <2>5. IatAt(dlls, d) + n < SlotEnd(dlls)
    <3>1. SlotOf(dlls, d, n + 1) \in 0 .. SlotEnd(dlls) - 1 /\ SlotOf(dlls, d, n + 1) = IatAt(dlls, d) + (n + 1) - 1
          /\ IatAt(dlls, d) \in Nat /\ SlotEnd(dlls) \in Nat
      BY <2>1, <2>2
    <3> QED BY <2>1, <3>1
  <2>6. slots[IatAt(dlls, d) + n] = <<"end", 0>>
    BY <1>5, <2>3, <2>5 DEF EndsFound, n
  <2>7. ASSUME NEW i \in 1 .. n PROVE SlotFound(dlls, area, slots, d, i, base, hi)
    <3>1. SlotOf(dlls, d, i) < SlotEnd(dlls)
      BY <2>1, <2>2
    <3> QED BY <1>5, <2>3, <3>1 DEF SlotsFound, n
  <2> QED BY <2>4, <2>6, <2>7 DEF n
<1>7. \A d \in 1 .. L : DOMAIN dlls[d].items = 1 .. ItemCount(dlls, d)
                        /\ \A i \in 1 .. ItemCount(dlls, d) : dlls[d].items[i] \in Int
  BY <1>1, DllFacts DEF L, ItemKinds
<1> DEFINE Found(d) ==
        /\ ReadsAt(area, names[d], Spelled(d, 0, dlls[d].len))
        /\ slots[IatAt(dlls, d) + Len(dlls[d].items)] = <<"end", 0>>
        /\ \A i \in DOMAIN dlls[d].items :
              CASE dlls[d].items[i] > 0 ->
                      /\ slots[IatAt(dlls, d) + i - 1][1] = "at"
                      /\ ReadsAt(area, slots[IatAt(dlls, d) + i - 1][2] + 2, Spelled(d, i, dlls[d].items[i]))
                [] dlls[d].items[i] = 0 -> slots[IatAt(dlls, d) + i - 1] = <<"ordinal", i>>
                [] OTHER -> slots[IatAt(dlls, d) + i - 1] = <<"bound", i>>
<1>8. ASSUME NEW d \in 1 .. L PROVE Found(d)
  <2>1. ASSUME NEW i \in DOMAIN dlls[d].items
        PROVE CASE dlls[d].items[i] > 0 ->
                      /\ slots[IatAt(dlls, d) + i - 1][1] = "at"
                      /\ ReadsAt(area, slots[IatAt(dlls, d) + i - 1][2] + 2, Spelled(d, i, dlls[d].items[i]))
                [] dlls[d].items[i] = 0 -> slots[IatAt(dlls, d) + i - 1] = <<"ordinal", i>>
                [] OTHER -> slots[IatAt(dlls, d) + i - 1] = <<"bound", i>>
    <3> DEFINE m == dlls[d].items[i]
               slot == slots[IatAt(dlls, d) + i - 1]
    <3>1. i \in 1 .. ItemCount(dlls, d) /\ m \in Int
      BY <1>7
    <3>2. SlotFound(dlls, area, slots, d, i, base, hi)
      BY <1>6, <3>1
    <3>3. /\ m > 0 => slot[1] = "at" /\ ReadsAt(area, slot[2] + 2, Spelled(d, i, m))
          /\ m = 0 => slot = <<"ordinal", i>>
          /\ m < 0 => slot = <<"bound", i>>
      BY <3>2, Zenon DEF SlotFound, SlotOf, NameFound
    <3>4. m > 0 \/ m = 0 \/ m < 0
      BY <3>1
    <3>5. (m > 0 => m # 0) /\ (m < 0 => ~(m > 0) /\ m # 0) /\ (m = 0 => ~(m > 0))
      BY <3>1
    <3> HIDE DEF m, slot
    <3>6. (CASE m > 0 -> slot[1] = "at" /\ ReadsAt(area, slot[2] + 2, Spelled(d, i, m))
             [] m = 0 -> slot = <<"ordinal", i>>
             [] OTHER -> slot = <<"bound", i>>)
      <4>1. CASE m > 0
        BY <3>3, <3>5, <4>1, Zenon
      <4>2. CASE m = 0
        BY <3>3, <3>5, <4>2, Zenon
      <4>3. CASE m < 0
        BY <3>3, <3>5, <4>3, Zenon
      <4> QED BY <3>4, <4>1, <4>2, <4>3, Zenon
    <3> QED BY <3>6 DEF m, slot
  <2>2. slots[IatAt(dlls, d) + Len(dlls[d].items)] = <<"end", 0>>
        /\ ReadsAt(area, names[d], Spelled(d, 0, dlls[d].len))
    BY <1>6 DEF ItemCount
  <2> QED BY <2>1, <2>2, Zenon
<1>9. \A d \in DOMAIN dlls : Found(d)
  BY <1>2, <1>8
<1> QED BY <1>9, Zenon DEF ImportsLeadToNames, ReadsAt, dlls, area, slots, names

-----------------------------------------------------------------------------
(* The invariant of the imports *)

ImportInv == phase = "dll" => ImportState(work)

LEMMA ImportsElsewhere == ASSUME phase' # "dll" PROVE ImportInv'
BY DEF ImportInv

LEMMA BeginImportsKeeps == ASSUME BeginImports PROVE ImportInv'
<1>1. CASE phase' # "dll"
  BY <1>1, ImportsElsewhere
<1>2. CASE phase' = "dll"
  <2>1. PICK dlls \in ImportLists, preset \in BOOLEAN : work' = ImportWork(dlls, preset)
    BY <1>2 DEF BeginImports, Go
  <2>2. Fits(dlls)
    BY ListsFit
  <2>3. ImportState(ImportWork(dlls, preset))
    BY <2>2, ImportsBegin
  <2> QED BY <2>1, <2>3 DEF ImportInv
<1> QED BY <1>1, <1>2

LEMMA RebuildDllKeeps == ASSUME ImportInv, RebuildDll PROVE ImportInv'
<1>1. ImportState(work)
  BY DEF ImportInv, RebuildDll
<1>2. ImportState(work')
  BY <1>1, RoundKeeps
<1> QED BY <1>2 DEF ImportInv

LEMMA ImportInvStep == ImportInv /\ [Next]_vars => ImportInv'
<1> SUFFICES ASSUME ImportInv, [Next]_vars PROVE ImportInv'
  OBVIOUS
<1>1. CASE UpxNext
  <2>1. CASE FindHeader
    BY <2>1, ImportsElsewhere DEF FindHeader, Fail, Go
  <2>2. CASE Decode
    BY <2>2, ImportsElsewhere DEF Decode, Fail, Go
  <2>3. CASE Unfilter
    BY <2>3, ImportsElsewhere DEF Unfilter, Fail, Go
  <2>4. CASE BeginImports
    BY <2>4, BeginImportsKeeps
  <2>5. CASE RebuildDll
    BY <2>5, RebuildDllKeeps
  <2>6. CASE BeginRelocs
    BY <2>6, ImportsElsewhere DEF BeginRelocs, Go
  <2>7. CASE DecodeDelta
    BY <2>7, ImportsElsewhere DEF DecodeDelta, Fail, Go
  <2>8. CASE BuildBlocks
    BY <2>8, ImportsElsewhere DEF BuildBlocks, Go
  <2>9. CASE BeginResources
    BY <2>9, ImportsElsewhere DEF BeginResources, Go
  <2>10. CASE BuildNode
    BY <2>10, ImportsElsewhere DEF BuildNode, Fail, Go
  <2>11. CASE PhaseDone
    BY <2>11, ImportsElsewhere DEF PhaseDone, PhaseOver, Go
  <2>12. CASE Assemble
    <3>1. phase' \in {"failed", "done"}
      BY <2>12 DEF Assemble, Go
    <3> QED BY <3>1, ImportsElsewhere
  <2> QED
    BY <1>1, <2>1, <2>2, <2>3, <2>4, <2>5, <2>6, <2>7, <2>8, <2>9, <2>10, <2>11, <2>12 DEF UpxNext
<1>2. CASE StartUpx
  BY <1>2, ImportsElsewhere, Zenon DEF StartUpx, BeginUpx, Go
<1>3. CASE UpxReturns
  BY <1>3, ImportsElsewhere DEF UpxReturns
<1>4. CASE UNCHANGED upxVars
  BY <1>4 DEF upxVars, ImportInv
<1> QED
  BY <1>1, <1>2, <1>3, <1>4, Zenon DEF Next, vars, StartDump, DumpReturns

LEMMA ImportsRead == ImportInv => ImportsLeadToNames
BY ImportsOfAll DEF ImportInv, ImportsLeadToNames

\* The loader finds the imports of the program, for any list of imports of any
\* number of DLLs, whether the packer has set the places of the names or not: the
\* area is as large as the names that go there, and the two bytes before a name
\* may begin on the terminator of the name before, the name itself never.
\* (rebuild_imports)
THEOREM ImportsReadBack == Spec => []ImportsLeadToNames
<1>1. Init => ImportInv
  BY DEF Init, UpxInit, ImportInv
<1> QED
  BY <1>1, ImportInvStep, ImportsRead, PTL DEF Spec

-----------------------------------------------------------------------------
(* What the loader reads of the resources, spelled out                      *)

NamedIn(dir, entry, node) ==
    IF node.name = 0 THEN entry.key = <<"id", node.key>>
    ELSE /\ entry.key[1] = "name"
         /\ \A u \in 0 .. node.name - 1 : dir[entry.key[2] + u] = Unit("name", node.key, u)

LeafRead(dir, at, node) == dir[at].kind = "data" /\ dir[at].at = node.sub

NameRead(dir, at, node) ==
    /\ dir[at].kind = "dir" /\ dir[at].key = Len(node.sub)
    /\ \A k \in DOMAIN node.sub :
          /\ dir[at + 1 + k].kind = "entry" /\ NamedIn(dir, dir[at + 1 + k], node.sub[k])
          /\ LeafRead(dir, dir[at + 1 + k].at, node.sub[k])

TypeRead(dir, at, node) ==
    /\ dir[at].kind = "dir" /\ dir[at].key = Len(node.sub)
    /\ \A k \in DOMAIN node.sub :
          /\ dir[at + 1 + k].kind = "entry" /\ NamedIn(dir, dir[at + 1 + k], node.sub[k])
          /\ NameRead(dir, dir[at + 1 + k].at, node.sub[k])

TreeRead(dir, at, nodes) ==
    /\ dir[at].kind = "dir" /\ dir[at].key = Len(nodes)
    /\ \A k \in DOMAIN nodes :
          /\ dir[at + 1 + k].kind = "entry" /\ NamedIn(dir, dir[at + 1 + k], nodes[k])
          /\ TypeRead(dir, dir[at + 1 + k].at, nodes[k])

IconUnits(w, K) ==
    {u \in DOMAIN w.newdir : w.newdir[u].kind = "data" /\ w.newdir[u].at = "moved" /\
         \E k \in 1 .. K : w.tree[k].name = 0 /\ w.tree[k].key = GroupIcon /\ w.newdir[1 + k].at < u
                           /\ (k < K => u < w.newdir[2 + k].at)}

LEMMA ReadBackIs ==
    ASSUME phase = "tree" /\ work.todo = <<>> => TreeRead(work.newdir, 0, work.tree),
           DOMAIN work.tree = 1 .. Len(work.tree),
           phase = "tree" /\ work.todo = <<>> =>
              work.patched = IF work.counted = 0 \/ IconUnits(work, Len(work.tree)) = {} THEN <<>> ELSE <<Min(IconUnits(work, Len(work.tree)))>>
    PROVE  ResourcesReadBack
<1> DEFINE dir == work.newdir
           icons == {u \in DOMAIN dir : dir[u].kind = "data" /\ dir[u].at = "moved" /\
                         \E k \in DOMAIN work.tree : work.tree[k].name = 0
                             /\ work.tree[k].key = GroupIcon /\ dir[1 + k].at < u
                             /\ (k < Len(work.tree) => u < dir[2 + k].at)}
<1>1. icons = IconUnits(work, Len(work.tree))
  BY DEF IconUnits
<1>2. phase = "tree" /\ work.todo = <<>> => TreeRead(dir, 0, work.tree)
  OBVIOUS
<1>3. phase = "tree" /\ work.todo = <<>> => work.patched = IF work.counted = 0 \/ icons = {} THEN <<>> ELSE <<Min(icons)>>
  BY <1>1
<1> QED BY <1>2, <1>3, Zenon DEF ResourcesReadBack, TreeRead, TypeRead, NameRead, LeafRead, NamedIn, icons, dir

-----------------------------------------------------------------------------
(* What a tree takes of the directory                                       *)

\* The sum over two rows, one behind the other
LEMMA SumJoin ==
    ASSUME NEW n \in Nat, NEW m \in Nat, NEW f \in [1 .. n -> Nat], NEW g \in [1 .. m -> Nat],
           NEW h \in [1 .. n + m -> Nat],
           \A i \in 1 .. n : h[i] = f[i], \A i \in 1 .. m : h[n + i] = g[i]
    PROVE  SumTo(h, n + m) = SumTo(f, n) + SumTo(g, m)
<1>1. n + m \in Nat
  OBVIOUS
<1>2. /\ SumTo(f, 0) = 0
      /\ \A i \in 0 .. n : SumTo(f, i) \in Nat
      /\ \A i \in 1 .. n : SumTo(f, i) = SumTo(f, i - 1) + f[i]
  BY SumNext
<1>3. /\ SumTo(g, 0) = 0
      /\ \A i \in 0 .. m : SumTo(g, i) \in Nat
      /\ \A i \in 1 .. m : SumTo(g, i) = SumTo(g, i - 1) + g[i]
  BY SumNext
<1>4. /\ SumTo(h, 0) = 0
      /\ \A i \in 0 .. n + m : SumTo(h, i) \in Nat
      /\ \A i \in 1 .. n + m : SumTo(h, i) = SumTo(h, i - 1) + h[i]
  BY <1>1, SumNext
<1> DEFINE A == {i \in 0 .. n : SumTo(h, i) = SumTo(f, i)}
           B == {i \in 0 .. m : SumTo(h, n + i) = SumTo(f, n) + SumTo(g, i)}
<1>5. 0 \in A
  BY <1>2, <1>4
<1>6. \A i \in 0 .. n - 1 : i \in A => i + 1 \in A
  <2> SUFFICES ASSUME NEW i \in 0 .. n - 1, SumTo(h, i) = SumTo(f, i) PROVE i + 1 \in A
    OBVIOUS
  <2> DEFINE j == i + 1
  <2>1. j \in 1 .. n /\ j - 1 = i /\ j \in 0 .. n /\ j \in 1 .. n + m
    OBVIOUS
  <2> HIDE DEF j
  <2>2. SumTo(h, j) = SumTo(f, j)
    BY <1>2, <1>4, <2>1
  <2> QED BY <2>1, <2>2 DEF j
<1>7. 0 \in Int /\ n \in Int /\ m \in Int
  OBVIOUS
<1>8. \A i \in 0 .. n : i \in A
  <2> HIDE DEF A
  <2> QED BY <1>5, <1>6, <1>7, UpFrom
<1>9. SumTo(h, n) = SumTo(f, n)
  <2>1. n \in 0 .. n
    OBVIOUS
  <2> QED BY <1>8, <2>1 DEF A
<1>10. 0 \in B
  <2>1. n + 0 = n /\ SumTo(f, n) + 0 = SumTo(f, n)
    BY <1>2
  <2> QED BY <1>3, <1>9, <2>1
<1>11. \A i \in 0 .. m - 1 : i \in B => i + 1 \in B
  <2> SUFFICES ASSUME NEW i \in 0 .. m - 1, SumTo(h, n + i) = SumTo(f, n) + SumTo(g, i) PROVE i + 1 \in B
    OBVIOUS
  <2> DEFINE j == i + 1
             k == n + j
  <2>1. j \in 1 .. m /\ j - 1 = i /\ j \in 0 .. m /\ k \in 1 .. n + m /\ k - 1 = n + i /\ i \in 0 .. m /\ n \in 0 .. n
    OBVIOUS
  <2> HIDE DEF j, k
  <2>2. SumTo(h, k) = SumTo(h, k - 1) + h[k]
    BY <1>4, <2>1
  <2>3. SumTo(g, j) = SumTo(g, i) + g[j] /\ SumTo(g, i) \in Nat /\ g[j] \in Nat /\ SumTo(f, n) \in Nat
    BY <1>2, <1>3, <2>1
  <2>4. h[k] = g[j]
    BY <2>1 DEF k
  <2>5. SumTo(h, k) = SumTo(f, n) + SumTo(g, j)
    BY <2>1, <2>2, <2>3, <2>4
  <2> QED BY <2>1, <2>5 DEF k, j
<1>12. \A i \in 0 .. m : i \in B
  <2> HIDE DEF B
  <2> QED BY <1>7, <1>10, <1>11, UpFrom
<1>13. m \in 0 .. m
  OBVIOUS
<1> QED BY <1>12, <1>13 DEF B

-----------------------------------------------------------------------------
(* Trees, and what waits to be built *)

Leaves == [key : Nat, name : Nat, sub : {"moved", "kept"}]
NameNodes == [key : Nat, name : Nat, sub : Seq(Leaves)]
TypeNodes == [key : Nat, name : Nat, sub : Seq(NameNodes)]

NodesOf(level) == IF level = 2 THEN Leaves ELSE IF level = 1 THEN NameNodes ELSE TypeNodes

Tasks == {t \in [node : Leaves \cup NameNodes \cup TypeNodes, slot : Nat, level : 0 .. 2, type : Nat] :
              t.node \in NodesOf(t.level)}

\* What a node takes of the directory and of the names
UnitsOf(dirs, node, level) ==
    IF dirs THEN (IF level = 2 THEN 2 ELSE IF level = 1 THEN LanguageDir(node) ELSE NameDir(node))
    ELSE (IF level = 2 THEN node.name ELSE IF level = 1 THEN NamesOfOne(node) ELSE NamesOfType(node))

\* What all that waits takes
Left(dirs, todo) == SumTo([k \in 1 .. Len(todo) |-> UnitsOf(dirs, todo[k].node, todo[k].level)], Len(todo))

LEMMA LeafFacts ==
    ASSUME NEW node \in Leaves
    PROVE  node.key \in Nat /\ node.name \in Nat /\ node.sub \in {"moved", "kept"}
BY DEF Leaves

LEMMA NameFacts ==
    ASSUME NEW node \in NameNodes
    PROVE  /\ node.key \in Nat /\ node.name \in Nat /\ node.sub \in Seq(Leaves)
           /\ Len(node.sub) \in Nat /\ DOMAIN node.sub = 1 .. Len(node.sub)
           /\ \A k \in 1 .. Len(node.sub) : node.sub[k] \in Leaves
BY DEF NameNodes

LEMMA TypeFacts ==
    ASSUME NEW node \in TypeNodes
    PROVE  /\ node.key \in Nat /\ node.name \in Nat /\ node.sub \in Seq(NameNodes)
           /\ Len(node.sub) \in Nat /\ DOMAIN node.sub = 1 .. Len(node.sub)
           /\ \A k \in 1 .. Len(node.sub) : node.sub[k] \in NameNodes
BY DEF TypeNodes

\* A total of numbers is a number
LEMMA TotalNat == ASSUME NEW n \in Nat, NEW f \in [1 .. n -> Nat] PROVE Total(f) \in Nat /\ Total(f) = SumTo(f, n)
<1>1. f = [k \in 1 .. n |-> f[k]]
  OBVIOUS
<1>2. Total(f) = SumTo(f, n)
  BY <1>1 DEF SumTo
<1>3. SumTo(f, n) \in Nat
  <2>1. n \in 0 .. n
    OBVIOUS
  <2> QED BY <2>1, SumNext
<1> QED BY <1>2, <1>3

LEMMA DirOfIs ==
    ASSUME NEW nodes, NEW S, nodes \in Seq(S), NEW below \in [1 .. Len(nodes) -> Nat]
    PROVE  /\ DirOf(nodes, below) \in Nat /\ Total(below) \in Nat
           /\ nodes # <<>> => DirOf(nodes, below) = 2 + Len(nodes) + Total(below)
<1>1. Len(nodes) \in Nat
  OBVIOUS
<1>2. Total(below) \in Nat
  BY <1>1, TotalNat
<1> QED BY <1>1, <1>2 DEF DirOf

LEMMA NameUnits ==
    ASSUME NEW node \in NameNodes
    PROVE  LanguageDir(node) \in Nat /\ NamesOfOne(node) \in Nat
<1>1. /\ node.name \in Nat /\ node.sub \in Seq(Leaves) /\ Len(node.sub) \in Nat /\ DOMAIN node.sub = 1 .. Len(node.sub)
      /\ \A k \in 1 .. Len(node.sub) : node.sub[k].name \in Nat
  BY NameFacts, LeafFacts
<1> DEFINE f == [k \in DOMAIN node.sub |-> 2]
           g == [k \in DOMAIN node.sub |-> node.sub[k].name]
<1>2. f \in [1 .. Len(node.sub) -> Nat] /\ g \in [1 .. Len(node.sub) -> Nat]
  BY <1>1
<1> HIDE DEF f, g
<1>3. DirOf(node.sub, f) \in Nat
  BY <1>1, <1>2, DirOfIs
<1>4. Total(g) \in Nat
  BY <1>1, <1>2, TotalNat
<1> QED BY <1>1, <1>3, <1>4 DEF LanguageDir, NamesOfOne, f, g

LEMMA TypeUnits ==
    ASSUME NEW node \in TypeNodes
    PROVE  NameDir(node) \in Nat /\ NamesOfType(node) \in Nat
<1>1. /\ node.name \in Nat /\ node.sub \in Seq(NameNodes) /\ Len(node.sub) \in Nat /\ DOMAIN node.sub = 1 .. Len(node.sub)
      /\ \A k \in 1 .. Len(node.sub) : node.sub[k] \in NameNodes
  BY TypeFacts
<1> DEFINE f == [k \in DOMAIN node.sub |-> LanguageDir(node.sub[k])]
           g == [k \in DOMAIN node.sub |-> NamesOfOne(node.sub[k])]
<1>2. f \in [1 .. Len(node.sub) -> Nat] /\ g \in [1 .. Len(node.sub) -> Nat]
  BY <1>1, NameUnits
<1> HIDE DEF f, g
<1>3. DirOf(node.sub, f) \in Nat
  BY <1>1, <1>2, DirOfIs
<1>4. Total(g) \in Nat
  BY <1>1, <1>2, TotalNat
<1> QED BY <1>1, <1>3, <1>4 DEF NameDir, NamesOfType, f, g

LEMMA UnitsNat ==
    ASSUME NEW level \in 0 .. 2, NEW node \in NodesOf(level), NEW dirs \in BOOLEAN
    PROVE  UnitsOf(dirs, node, level) \in Nat
<1>1. CASE level = 2
  <2>1. node \in Leaves
    BY <1>1 DEF NodesOf
  <2>2. node.name \in Nat
    BY <2>1, LeafFacts
  <2> QED BY <1>1, <2>2 DEF UnitsOf
<1>2. CASE level = 1
  <2>1. node \in NameNodes
    BY <1>2 DEF NodesOf
  <2>2. LanguageDir(node) \in Nat /\ NamesOfOne(node) \in Nat
    BY <2>1, NameUnits
  <2> QED BY <1>2, <2>2 DEF UnitsOf
<1>3. CASE level = 0
  <2>1. node \in TypeNodes
    BY <1>3 DEF NodesOf
  <2>2. NameDir(node) \in Nat /\ NamesOfType(node) \in Nat
    BY <2>1, TypeUnits
  <2> QED BY <1>3, <2>2 DEF UnitsOf
<1> QED BY <1>1, <1>2, <1>3

LEMMA TaskFacts ==
    ASSUME NEW t \in Tasks
    PROVE  t.node \in NodesOf(t.level) /\ t.slot \in Nat /\ t.level \in 0 .. 2 /\ t.type \in Nat
BY DEF Tasks

LEMMA MakesTask ==
    ASSUME NEW level \in 0 .. 2, NEW node \in NodesOf(level), NEW slot \in Nat, NEW type \in Nat
    PROVE  [node |-> node, slot |-> slot, level |-> level, type |-> type] \in Tasks
<1>1. node \in Leaves \cup NameNodes \cup TypeNodes
  BY DEF NodesOf
<1> HIDE DEF Leaves, NameNodes, TypeNodes
<1> QED BY <1>1 DEF Tasks

LEMMA TodoUnits ==
    ASSUME NEW todo \in Seq(Tasks), NEW dirs \in BOOLEAN
    PROVE  /\ Len(todo) \in Nat
           /\ [k \in 1 .. Len(todo) |-> UnitsOf(dirs, todo[k].node, todo[k].level)] \in [1 .. Len(todo) -> Nat]
           /\ Left(dirs, todo) \in Nat
<1> DEFINE f == [k \in 1 .. Len(todo) |-> UnitsOf(dirs, todo[k].node, todo[k].level)]
<1>1. Len(todo) \in Nat
  OBVIOUS
<1>2. ASSUME NEW k \in 1 .. Len(todo) PROVE UnitsOf(dirs, todo[k].node, todo[k].level) \in Nat
  <2>1. todo[k] \in Tasks
    OBVIOUS
  <2>2. todo[k].node \in NodesOf(todo[k].level) /\ todo[k].level \in 0 .. 2
    BY <2>1, TaskFacts
  <2> QED BY <2>2, UnitsNat
<1>3. f \in [1 .. Len(todo) -> Nat]
  BY <1>2
<1> HIDE DEF f
<1>4. Len(todo) \in 0 .. Len(todo)
  BY <1>1
<1>5. SumTo(f, Len(todo)) \in Nat
  BY <1>1, <1>3, <1>4, SumNext
<1> QED BY <1>1, <1>3, <1>5 DEF Left, f

LEMMA LeftJoin ==
    ASSUME NEW a \in Seq(Tasks), NEW b \in Seq(Tasks), NEW dirs \in BOOLEAN
    PROVE  Left(dirs, a \o b) = Left(dirs, a) + Left(dirs, b)
<1> DEFINE c == a \o b
           n == Len(a)
           m == Len(b)
           f == [k \in 1 .. n |-> UnitsOf(dirs, a[k].node, a[k].level)]
           g == [k \in 1 .. m |-> UnitsOf(dirs, b[k].node, b[k].level)]
           h == [k \in 1 .. Len(c) |-> UnitsOf(dirs, c[k].node, c[k].level)]
<1>1. /\ n \in Nat /\ m \in Nat /\ c \in Seq(Tasks) /\ Len(c) = n + m
      /\ \A k \in 1 .. n : c[k] = a[k] /\ k \in 1 .. n + m
      /\ \A k \in 1 .. m : c[n + k] = b[k] /\ n + k \in 1 .. n + m
  OBVIOUS
<1> HIDE DEF c, n, m
<1>2. h \in [1 .. n + m -> Nat] /\ f \in [1 .. n -> Nat] /\ g \in [1 .. m -> Nat]
  <2>1. h \in [1 .. Len(c) -> Nat]
    BY <1>1, TodoUnits
  <2>2. f \in [1 .. n -> Nat] /\ g \in [1 .. m -> Nat]
    BY TodoUnits DEF n, m
  <2> QED BY <1>1, <2>1, <2>2
<1>3. ASSUME NEW k \in 1 .. n PROVE h[k] = f[k]
  BY <1>1
<1>4. ASSUME NEW k \in 1 .. m PROVE h[n + k] = g[k]
  BY <1>1
<1> HIDE DEF f, g, h
<1>5. SumTo(h, n + m) = SumTo(f, n) + SumTo(g, m)
  BY <1>1, <1>2, <1>3, <1>4, SumJoin
<1>6. Left(dirs, c) = SumTo(h, n + m)
  BY <1>1 DEF Left, h
<1>7. Left(dirs, a) = SumTo(f, n) /\ Left(dirs, b) = SumTo(g, m)
  BY DEF Left, f, g, n, m
<1> QED BY <1>5, <1>6, <1>7 DEF c

LEMMA LeftHead ==
    ASSUME NEW todo \in Seq(Tasks), todo # <<>>, NEW dirs \in BOOLEAN
    PROVE  Left(dirs, todo) = UnitsOf(dirs, Head(todo).node, Head(todo).level) + Left(dirs, Tail(todo))
<1> DEFINE t == Head(todo)
           a == <<t>>
           b == Tail(todo)
<1>1. a \in Seq(Tasks) /\ b \in Seq(Tasks) /\ todo = a \o b /\ Len(a) = 1 /\ a[1] = t /\ t \in Tasks
  OBVIOUS
<1>2. Left(dirs, todo) = Left(dirs, a) + Left(dirs, b)
  <2> HIDE DEF a, b
  <2> QED BY <1>1, LeftJoin
<1>3. Left(dirs, a) = UnitsOf(dirs, t.node, t.level)
  <2> DEFINE f == [k \in 1 .. Len(a) |-> UnitsOf(dirs, a[k].node, a[k].level)]
  <2>1. f \in [1 .. Len(a) -> Nat]
    <3> HIDE DEF a
    <3> QED BY <1>1, TodoUnits
  <2> HIDE DEF a, t
  <2>2. f \in [1 .. 1 -> Nat] /\ f[1] = UnitsOf(dirs, t.node, t.level) /\ f[1] \in Nat
    <3>1. 1 \in 1 .. 1
      OBVIOUS
    <3> QED BY <1>1, <2>1, <3>1
  <2>3. Left(dirs, a) = SumTo(f, 1)
    BY <1>1 DEF Left
  <2> HIDE DEF f
  <2>4. SumTo(f, 1) = SumTo(f, 1 - 1) + f[1] /\ SumTo(f, 0) = 0
    <3>1. 1 \in Nat /\ 1 \in 1 .. 1
      OBVIOUS
    <3> QED BY <2>2, <3>1, SumNext
  <2> QED BY <2>2, <2>3, <2>4
<1> QED BY <1>2, <1>3

TypeOf(node, level, type) == IF level > 0 THEN type ELSE IF node.name = 0 THEN node.key ELSE 0

LEMMA NodeKind ==
    ASSUME NEW level \in 0 .. 2, NEW node \in NodesOf(level)
    PROVE  node.key \in Nat /\ node.name \in Nat
BY LeafFacts, NameFacts, TypeFacts DEF NodesOf

LEMMA RowIsSeq == ASSUME NEW n \in Nat, NEW S, NEW f \in [1 .. n -> S] PROVE f \in Seq(S) /\ Len(f) = n
<1>1. f = [k \in 1 .. n |-> f[k]] /\ \A k \in 1 .. n : f[k] \in S
  OBVIOUS
<1>2. [k \in 1 .. n |-> f[k]] \in Seq(S) /\ Len([k \in 1 .. n |-> f[k]]) = n
  BY <1>1
<1> QED BY <1>1, <1>2

LEMMA PendingIs ==
    ASSUME NEW level \in 0 .. 2, NEW nodes \in Seq(NodesOf(level)), NEW base \in Nat, NEW type \in Nat
    PROVE  /\ Pending(nodes, base, level, type) \in Seq(Tasks)
           /\ Len(Pending(nodes, base, level, type)) = Len(nodes) /\ Len(nodes) \in Nat
           /\ \A k \in 1 .. Len(nodes) :
                 /\ Pending(nodes, base, level, type)[k].node = nodes[k]
                 /\ Pending(nodes, base, level, type)[k].slot = base + k - 1
                 /\ Pending(nodes, base, level, type)[k].level = level
                 /\ Pending(nodes, base, level, type)[k].type = TypeOf(nodes[k], level, type)
<1> DEFINE p == Pending(nodes, base, level, type)
           task(k) == [node |-> nodes[k], slot |-> base + k - 1, level |-> level,
                       type |-> TypeOf(nodes[k], level, type)]
<1>1. Len(nodes) \in Nat /\ DOMAIN nodes = 1 .. Len(nodes)
  OBVIOUS
<1>2. p = [k \in 1 .. Len(nodes) |-> task(k)]
  BY <1>1 DEF Pending, TypeOf
<1>3. ASSUME NEW k \in 1 .. Len(nodes) PROVE task(k) \in Tasks
  <2>1. nodes[k] \in NodesOf(level)
    OBVIOUS
  <2>2. nodes[k].key \in Nat /\ nodes[k].name \in Nat
    BY <2>1, NodeKind
  <2>3. TypeOf(nodes[k], level, type) \in Nat
    BY <2>2 DEF TypeOf
  <2>4. base + k - 1 \in Nat
    OBVIOUS
  <2> HIDE DEF NodesOf
  <2> QED BY <2>1, <2>3, <2>4, MakesTask
<1> HIDE DEF p
<1>4. \A k \in 1 .. Len(nodes) : p[k] = task(k)
  BY <1>2
<1>5. p \in Seq(Tasks) /\ Len(p) = Len(nodes)
  <2> DEFINE n == Len(nodes)
  <2> HIDE DEF task, n, Tasks
  <2>1. n \in Nat /\ p = [k \in 1 .. n |-> task(k)] /\ \A k \in 1 .. n : task(k) \in Tasks
    BY <1>1, <1>2, <1>3 DEF n
  <2>2. p \in [1 .. n -> Tasks]
    BY <2>1
  <2>3. p \in Seq(Tasks) /\ Len(p) = n
    BY <2>1, <2>2, RowIsSeq
  <2> QED BY <2>3 DEF n
<1>6. ASSUME NEW k \in 1 .. Len(nodes)
      PROVE  p[k].node = nodes[k] /\ p[k].slot = base + k - 1 /\ p[k].level = level
             /\ p[k].type = TypeOf(nodes[k], level, type)
  <2> DEFINE r == task(k)
  <2>1. p[k] = r
    BY <1>4
  <2>2. r.node = nodes[k] /\ r.slot = base + k - 1 /\ r.level = level /\ r.type = TypeOf(nodes[k], level, type)
    OBVIOUS
  <2> HIDE DEF r
  <2> QED BY <2>1, <2>2
<1> QED BY <1>1, <1>5, <1>6, Zenon DEF p

LEMMA LeftPending ==
    ASSUME NEW level \in 0 .. 2, NEW nodes \in Seq(NodesOf(level)), NEW base \in Nat, NEW type \in Nat,
           NEW dirs \in BOOLEAN
    PROVE  Left(dirs, Pending(nodes, base, level, type)) = Total([k \in DOMAIN nodes |-> UnitsOf(dirs, nodes[k], level)])
<1> DEFINE p == Pending(nodes, base, level, type)
           n == Len(nodes)
           f == [k \in 1 .. Len(p) |-> UnitsOf(dirs, p[k].node, p[k].level)]
           g == [k \in DOMAIN nodes |-> UnitsOf(dirs, nodes[k], level)]
<1>1. /\ p \in Seq(Tasks) /\ Len(p) = n /\ n \in Nat
      /\ \A k \in 1 .. n : p[k].node = nodes[k] /\ p[k].level = level
  <2> HIDE DEF NodesOf, Tasks
  <2> QED BY PendingIs
<1>2. DOMAIN nodes = 1 .. n
  OBVIOUS
<1> HIDE DEF p, n
<1>3. f = [k \in 1 .. n |-> UnitsOf(dirs, nodes[k], level)]
  BY <1>1
<1>4. g = [k \in 1 .. n |-> UnitsOf(dirs, nodes[k], level)]
  BY <1>2
<1>5. Left(dirs, p) = SumTo(g, n)
  BY <1>1, <1>3, <1>4 DEF Left
<1>6. g = [k \in 1 .. n |-> g[k]]
  BY <1>4
<1> HIDE DEF g
<1>7. SumTo(g, n) = Total(g)
  BY <1>6 DEF SumTo
<1> QED BY <1>5, <1>7 DEF p, g

Children(node, level, base, type) ==
    /\ node.sub \in Seq(NodesOf(level + 1)) /\ Len(node.sub) \in Nat
    /\ UnitsOf(TRUE, node, level) = 2 + Len(node.sub) + Left(TRUE, Pending(node.sub, base, level + 1, type))
    /\ UnitsOf(FALSE, node, level) = node.name + Left(FALSE, Pending(node.sub, base, level + 1, type))
    /\ Left(TRUE, Pending(node.sub, base, level + 1, type)) \in Nat
    /\ Left(FALSE, Pending(node.sub, base, level + 1, type)) \in Nat

LEMMA ChildUnits ==
    ASSUME NEW level \in 0 .. 1, NEW node \in NodesOf(level), node.sub # <<>>, NEW base \in Nat, NEW type \in Nat
    PROVE  Children(node, level, base, type)
<1> DEFINE sub == node.sub
           p == Pending(sub, base, level + 1, type)
<1>1. /\ sub \in Seq(NodesOf(level + 1)) /\ Len(sub) \in Nat /\ DOMAIN sub = 1 .. Len(sub) /\ level + 1 \in 0 .. 2
      /\ node.name \in Nat
  <2>1. CASE level = 1
    <3>1. node \in NameNodes
      BY <2>1 DEF NodesOf
    <3>2. NodesOf(level + 1) = Leaves
      BY <2>1 DEF NodesOf
    <3> QED BY <2>1, <3>1, <3>2, NameFacts
  <2>2. CASE level = 0
    <3>1. node \in TypeNodes
      BY <2>2 DEF NodesOf
    <3>2. NodesOf(level + 1) = NameNodes
      BY <2>2 DEF NodesOf
    <3> QED BY <2>2, <3>1, <3>2, TypeFacts
  <2> QED BY <2>1, <2>2
<1> DEFINE f == [k \in DOMAIN sub |-> UnitsOf(TRUE, sub[k], level + 1)]
           g == [k \in DOMAIN sub |-> UnitsOf(FALSE, sub[k], level + 1)]
<1>2. Left(TRUE, p) = Total(f) /\ Left(FALSE, p) = Total(g)
  <2> DEFINE l == level + 1
  <2>1. l \in 0 .. 2 /\ sub \in Seq(NodesOf(l)) /\ TRUE \in BOOLEAN /\ FALSE \in BOOLEAN
    BY <1>1
  <2> HIDE DEF l, sub
  <2>2. Left(TRUE, Pending(sub, base, l, type)) = Total([k \in DOMAIN sub |-> UnitsOf(TRUE, sub[k], l)])
    BY <2>1, LeftPending
  <2>3. Left(FALSE, Pending(sub, base, l, type)) = Total([k \in DOMAIN sub |-> UnitsOf(FALSE, sub[k], l)])
    BY <2>1, LeftPending
  <2> QED BY <2>2, <2>3 DEF l
<1>3. f \in [1 .. Len(sub) -> Nat] /\ g \in [1 .. Len(sub) -> Nat]
  <2> SUFFICES ASSUME NEW k \in 1 .. Len(sub)
               PROVE  UnitsOf(TRUE, sub[k], level + 1) \in Nat /\ UnitsOf(FALSE, sub[k], level + 1) \in Nat
    BY <1>1
  <2> DEFINE l == level + 1
  <2>1. l \in 0 .. 2 /\ sub[k] \in NodesOf(l) /\ TRUE \in BOOLEAN /\ FALSE \in BOOLEAN
    BY <1>1
  <2> HIDE DEF l, sub
  <2>2. UnitsOf(TRUE, sub[k], l) \in Nat /\ UnitsOf(FALSE, sub[k], l) \in Nat
    BY <2>1, UnitsNat
  <2> QED BY <2>2 DEF l
<1>8. level = 1 \/ level = 0
  OBVIOUS
<1>4. UnitsOf(TRUE, node, level) = DirOf(sub, f)
  <2>1. CASE level = 1
    <3>1. f = [k \in DOMAIN sub |-> 2]
      BY <2>1 DEF UnitsOf
    <3>2. UnitsOf(TRUE, node, level) = LanguageDir(node)
      BY <2>1 DEF UnitsOf
    <3> QED BY <3>1, <3>2 DEF LanguageDir
  <2>2. CASE level = 0
    <3>1. f = [k \in DOMAIN sub |-> LanguageDir(sub[k])]
      BY <2>2 DEF UnitsOf
    <3>2. UnitsOf(TRUE, node, level) = NameDir(node)
      BY <2>2 DEF UnitsOf
    <3> QED BY <3>1, <3>2 DEF NameDir
  <2> QED BY <1>8, <2>1, <2>2, Zenon
<1>5. UnitsOf(FALSE, node, level) = node.name + Total(g)
  <2>1. CASE level = 1
    <3>1. g = [k \in DOMAIN sub |-> sub[k].name]
      BY <2>1 DEF UnitsOf
    <3>2. UnitsOf(FALSE, node, level) = NamesOfOne(node)
      BY <2>1 DEF UnitsOf
    <3> QED BY <3>1, <3>2 DEF NamesOfOne
  <2>2. CASE level = 0
    <3>1. g = [k \in DOMAIN sub |-> NamesOfOne(sub[k])]
      BY <2>2 DEF UnitsOf
    <3>2. UnitsOf(FALSE, node, level) = NamesOfType(node)
      BY <2>2 DEF UnitsOf
    <3> QED BY <3>1, <3>2 DEF NamesOfType
  <2> QED BY <1>8, <2>1, <2>2, Zenon
<1> HIDE DEF f, g, p
<1>6. DirOf(sub, f) = 2 + Len(sub) + Total(f) /\ Total(f) \in Nat /\ Total(g) \in Nat
  <2> DEFINE S == NodesOf(level + 1)
  <2>1. sub \in Seq(S) /\ sub # <<>> /\ Len(sub) \in Nat
    BY <1>1
  <2> HIDE DEF S, sub
  <2>2. DirOf(sub, f) = 2 + Len(sub) + Total(f)
    BY <1>3, <2>1, DirOfIs
  <2>3. Total(f) \in Nat /\ Total(g) \in Nat
    BY <1>3, <2>1, TotalNat
  <2> QED BY <2>2, <2>3
<1>7. /\ Left(TRUE, p) \in Nat /\ Left(FALSE, p) \in Nat
      /\ UnitsOf(TRUE, node, level) = 2 + Len(sub) + Left(TRUE, p)
      /\ UnitsOf(FALSE, node, level) = node.name + Left(FALSE, p)
  BY <1>2, <1>4, <1>5, <1>6
<1> HIDE DEF sub
<1> QED BY <1>1, <1>7, Zenon DEF Children, p, sub

-----------------------------------------------------------------------------
(* What of the tree has been built                                          *)

Dirs(w) == DirUnits(w.tree).dirs

\* A unit that is written and not the slot of what waits
Settled(w, u) == u \in 0 .. w.bpos - 1 /\ \A j \in 1 .. Len(w.todo) : w.todo[j].slot # u

Held(w, s, node, level) ==
    \E j \in 1 .. Len(w.todo) : w.todo[j].slot = s /\ w.todo[j].node = node /\ w.todo[j].level = level

EntryIs(w, s, node) ==
    /\ w.newdir[s].kind = "entry" /\ w.newdir[s].at \in Nat
    /\ node.name = 0 => w.newdir[s].key = <<"id", node.key>>
    /\ node.name # 0 =>
          /\ w.newdir[s].key[1] = "name" /\ w.newdir[s].key[2] \in Nat
          /\ Dirs(w) <= w.newdir[s].key[2] /\ w.newdir[s].key[2] + node.name <= w.spos
          /\ \A u \in 0 .. node.name - 1 : w.newdir[w.newdir[s].key[2] + u] = Unit("name", node.key, u)

LeafAt(w, at, node) == Settled(w, at) /\ w.newdir[at].kind = "data" /\ w.newdir[at].at = node.sub

HeadAt(w, at, nodes) == Settled(w, at) /\ w.newdir[at].kind = "dir" /\ w.newdir[at].key = Len(nodes)

EntryAt(w, s, node) == Settled(w, s) /\ EntryIs(w, s, node)

LanguageBuilt(w, s, node) ==
    \/ Held(w, s, node, 2)
    \/ EntryAt(w, s, node) /\ LeafAt(w, w.newdir[s].at, node)

NameBuilt(w, s, node) ==
    \/ Held(w, s, node, 1)
    \/ /\ EntryAt(w, s, node) /\ HeadAt(w, w.newdir[s].at, node.sub)
       /\ \A k \in 1 .. Len(node.sub) : LanguageBuilt(w, w.newdir[s].at + 1 + k, node.sub[k])

TypeBuilt(w, s, node) ==
    \/ Held(w, s, node, 0)
    \/ /\ EntryAt(w, s, node) /\ HeadAt(w, w.newdir[s].at, node.sub)
       /\ \A k \in 1 .. Len(node.sub) : NameBuilt(w, w.newdir[s].at + 1 + k, node.sub[k])

TreeBuilt(w) == HeadAt(w, 0, w.tree) /\ \A k \in 1 .. Len(w.tree) : TypeBuilt(w, 1 + k, w.tree[k])

\* What one node of the walk leaves alone
GoesOn(w, w2, h) ==
    /\ w2.tree = w.tree /\ w.spos \in Int /\ w2.spos \in Int /\ w.spos <= w2.spos /\ Dirs(w) \in Int
    /\ \A u : Settled(w, u) => Settled(w2, u) /\ w2.newdir[u] = w.newdir[u]
    /\ \A u \in Int : Dirs(w) <= u /\ u < w.spos => w2.newdir[u] = w.newdir[u]
    /\ \A s, node, level : Held(w, s, node, level) =>
          Held(w2, s, node, level) \/ (s = h.slot /\ node = h.node /\ level = h.level)

HeadBuilt(w2, h) ==
    /\ h.level = 2 => LanguageBuilt(w2, h.slot, h.node)
    /\ h.level = 1 => NameBuilt(w2, h.slot, h.node)
    /\ h.level = 0 => TypeBuilt(w2, h.slot, h.node)

LEMMA EntryStays ==
    ASSUME NEW w, NEW w2, NEW h, GoesOn(w, w2, h), NEW s, NEW node, node.name \in Nat, EntryAt(w, s, node)
    PROVE  EntryAt(w2, s, node) /\ w2.newdir[s] = w.newdir[s]
<1> DEFINE e == w.newdir[s]
           n == node.name
<1>1. Settled(w2, s) /\ w2.newdir[s] = e
  BY DEF EntryAt, GoesOn
<1>2. Dirs(w2) = Dirs(w) /\ Dirs(w) \in Int /\ w.spos \in Int /\ w2.spos \in Int /\ w.spos <= w2.spos
  BY DEF GoesOn, Dirs
<1>3. e.kind = "entry" /\ e.at \in Nat /\ (n = 0 => e.key = <<"id", node.key>>)
  BY DEF EntryAt, EntryIs
<1>4. ASSUME n # 0
      PROVE  /\ e.key[1] = "name" /\ e.key[2] \in Nat
             /\ Dirs(w) <= e.key[2] /\ e.key[2] + n <= w2.spos
             /\ \A u \in 0 .. n - 1 : w2.newdir[e.key[2] + u] = Unit("name", node.key, u)
  <2> DEFINE p == e.key[2]
  <2>1. /\ e.key[1] = "name" /\ p \in Nat /\ Dirs(w) <= p /\ p + n <= w.spos
        /\ \A u \in 0 .. n - 1 : w.newdir[p + u] = Unit("name", node.key, u)
    BY <1>4 DEF EntryAt, EntryIs
  <2> HIDE DEF e, p
  <2>2. p + n <= w2.spos
    BY <1>2, <2>1
  <2>3. ASSUME NEW u \in 0 .. n - 1 PROVE w2.newdir[p + u] = Unit("name", node.key, u)
    <3> DEFINE q == p + u
    <3>1. q \in Int /\ Dirs(w) <= q /\ q < w.spos
      BY <1>2, <2>1
    <3> HIDE DEF q
    <3>2. w2.newdir[q] = w.newdir[q]
      BY <3>1 DEF GoesOn
    <3>3. w.newdir[q] = Unit("name", node.key, u)
      BY <2>1 DEF q
    <3> QED BY <3>2, <3>3 DEF q
  <2> QED BY <2>1, <2>2, <2>3 DEF p
<1> HIDE DEF e, n
<1>5. EntryIs(w2, s, node)
  BY <1>1, <1>2, <1>3, <1>4, Zenon DEF EntryIs, n
<1> QED BY <1>1, <1>5 DEF EntryAt, e

LEMMA HeadStays ==
    ASSUME NEW w, NEW w2, NEW h, GoesOn(w, w2, h), NEW at, NEW nodes, HeadAt(w, at, nodes)
    PROVE  HeadAt(w2, at, nodes)
BY DEF GoesOn, HeadAt

LEMMA LanguageStays ==
    ASSUME NEW w, NEW w2, NEW h, GoesOn(w, w2, h), HeadBuilt(w2, h), NEW s, NEW node \in Leaves,
           LanguageBuilt(w, s, node)
    PROVE  LanguageBuilt(w2, s, node)
<1>1. CASE Held(w, s, node, 2)
  <2>1. Held(w2, s, node, 2) \/ (s = h.slot /\ node = h.node /\ 2 = h.level)
    BY <1>1, Zenon DEF GoesOn
  <2> QED BY <2>1, Zenon DEF LanguageBuilt, HeadBuilt
<1>2. CASE EntryAt(w, s, node) /\ LeafAt(w, w.newdir[s].at, node)
  <2>1. EntryAt(w2, s, node) /\ w2.newdir[s] = w.newdir[s]
    BY <1>2, LeafFacts, EntryStays
  <2>2. LeafAt(w2, w.newdir[s].at, node)
    BY <1>2 DEF GoesOn, LeafAt
  <2> QED BY <2>1, <2>2 DEF LanguageBuilt
<1> QED BY <1>1, <1>2 DEF LanguageBuilt

LEMMA NameStays ==
    ASSUME NEW w, NEW w2, NEW h, GoesOn(w, w2, h), HeadBuilt(w2, h), NEW s, NEW node \in NameNodes,
           NameBuilt(w, s, node)
    PROVE  NameBuilt(w2, s, node)
<1>1. CASE Held(w, s, node, 1)
  <2>1. Held(w2, s, node, 1) \/ (s = h.slot /\ node = h.node /\ 1 = h.level)
    BY <1>1, Zenon DEF GoesOn
  <2> QED BY <2>1, Zenon DEF NameBuilt, HeadBuilt
<1>2. CASE /\ EntryAt(w, s, node) /\ HeadAt(w, w.newdir[s].at, node.sub)
           /\ \A k \in 1 .. Len(node.sub) : LanguageBuilt(w, w.newdir[s].at + 1 + k, node.sub[k])
  <2>1. EntryAt(w2, s, node) /\ w2.newdir[s] = w.newdir[s]
    BY <1>2, NameFacts, EntryStays
  <2>2. HeadAt(w2, w.newdir[s].at, node.sub)
    BY <1>2, HeadStays
  <2>3. ASSUME NEW k \in 1 .. Len(node.sub) PROVE LanguageBuilt(w2, w.newdir[s].at + 1 + k, node.sub[k])
    <3>1. node.sub[k] \in Leaves
      BY NameFacts
    <3> QED BY <1>2, <3>1, LanguageStays
  <2> QED BY <2>1, <2>2, <2>3 DEF NameBuilt
<1> QED BY <1>1, <1>2 DEF NameBuilt

LEMMA TypeStays ==
    ASSUME NEW w, NEW w2, NEW h, GoesOn(w, w2, h), HeadBuilt(w2, h), NEW s, NEW node \in TypeNodes,
           TypeBuilt(w, s, node)
    PROVE  TypeBuilt(w2, s, node)
<1>1. CASE Held(w, s, node, 0)
  <2>1. Held(w2, s, node, 0) \/ (s = h.slot /\ node = h.node /\ 0 = h.level)
    BY <1>1, Zenon DEF GoesOn
  <2> QED BY <2>1, Zenon DEF TypeBuilt, HeadBuilt
<1>2. CASE /\ EntryAt(w, s, node) /\ HeadAt(w, w.newdir[s].at, node.sub)
           /\ \A k \in 1 .. Len(node.sub) : NameBuilt(w, w.newdir[s].at + 1 + k, node.sub[k])
  <2>1. EntryAt(w2, s, node) /\ w2.newdir[s] = w.newdir[s]
    BY <1>2, TypeFacts, EntryStays
  <2>2. HeadAt(w2, w.newdir[s].at, node.sub)
    BY <1>2, HeadStays
  <2>3. ASSUME NEW k \in 1 .. Len(node.sub) PROVE NameBuilt(w2, w.newdir[s].at + 1 + k, node.sub[k])
    <3>1. node.sub[k] \in NameNodes
      BY TypeFacts
    <3> QED BY <1>2, <3>1, NameStays
  <2> QED BY <2>1, <2>2, <2>3 DEF TypeBuilt
<1> QED BY <1>1, <1>2 DEF TypeBuilt

LEMMA TreeStays ==
    ASSUME NEW w, NEW w2, NEW h, GoesOn(w, w2, h), HeadBuilt(w2, h), w.tree \in Seq(TypeNodes), TreeBuilt(w)
    PROVE  TreeBuilt(w2)
<1>1. w2.tree = w.tree /\ HeadAt(w2, 0, w.tree)
  BY HeadStays DEF TreeBuilt, GoesOn
<1>2. ASSUME NEW k \in 1 .. Len(w.tree) PROVE TypeBuilt(w2, 1 + k, w.tree[k])
  <2>1. w.tree[k] \in TypeNodes /\ TypeBuilt(w, 1 + k, w.tree[k])
    BY DEF TreeBuilt
  <2> QED BY <2>1, TypeStays
<1> QED BY <1>1, <1>2 DEF TreeBuilt

-----------------------------------------------------------------------------
(* With nothing left to build, it reads                                     *)

LEMMA NoneHeld == ASSUME NEW w, w.todo = <<>>, NEW s, NEW node, NEW level PROVE ~Held(w, s, node, level)
BY DEF Held

LEMMA EntryReads ==
    ASSUME NEW w, NEW s, NEW node, EntryAt(w, s, node)
    PROVE  w.newdir[s].kind = "entry" /\ NamedIn(w.newdir, w.newdir[s], node)
BY Zenon DEF EntryAt, EntryIs, NamedIn

LEMMA NameReads ==
    ASSUME NEW w, w.todo = <<>>, NEW s, NEW node \in NameNodes, NameBuilt(w, s, node)
    PROVE  w.newdir[s].kind = "entry" /\ NamedIn(w.newdir, w.newdir[s], node) /\ NameRead(w.newdir, w.newdir[s].at, node)
<1>1. /\ EntryAt(w, s, node) /\ HeadAt(w, w.newdir[s].at, node.sub)
      /\ \A k \in 1 .. Len(node.sub) : LanguageBuilt(w, w.newdir[s].at + 1 + k, node.sub[k])
  BY NoneHeld, Zenon DEF NameBuilt
<1> DEFINE at == w.newdir[s].at
<1>2. ASSUME NEW k \in 1 .. Len(node.sub)
      PROVE  /\ w.newdir[at + 1 + k].kind = "entry" /\ NamedIn(w.newdir, w.newdir[at + 1 + k], node.sub[k])
             /\ LeafRead(w.newdir, w.newdir[at + 1 + k].at, node.sub[k])
  <2> DEFINE t == at + 1 + k
  <2> HIDE DEF t, at
  <2>1. LanguageBuilt(w, t, node.sub[k])
    BY <1>1 DEF t, at
  <2>2. EntryAt(w, t, node.sub[k]) /\ LeafAt(w, w.newdir[t].at, node.sub[k])
    BY <2>1, NoneHeld, Zenon DEF LanguageBuilt
  <2>3. w.newdir[t].kind = "entry" /\ NamedIn(w.newdir, w.newdir[t], node.sub[k]) /\ LeafRead(w.newdir, w.newdir[t].at, node.sub[k])
    BY <2>2, EntryReads, Zenon DEF LeafAt, LeafRead
  <2> QED BY <2>3 DEF t
<1>3. DOMAIN node.sub = 1 .. Len(node.sub)
  BY NameFacts
<1>4. NameRead(w.newdir, at, node)
  BY <1>1, <1>2, <1>3 DEF NameRead, HeadAt
<1> QED BY <1>1, <1>4, EntryReads

LEMMA TypeReads ==
    ASSUME NEW w, w.todo = <<>>, NEW s, NEW node \in TypeNodes, TypeBuilt(w, s, node)
    PROVE  w.newdir[s].kind = "entry" /\ NamedIn(w.newdir, w.newdir[s], node) /\ TypeRead(w.newdir, w.newdir[s].at, node)
<1>1. /\ EntryAt(w, s, node) /\ HeadAt(w, w.newdir[s].at, node.sub)
      /\ \A k \in 1 .. Len(node.sub) : NameBuilt(w, w.newdir[s].at + 1 + k, node.sub[k])
  BY NoneHeld, Zenon DEF TypeBuilt
<1> DEFINE at == w.newdir[s].at
<1>2. ASSUME NEW k \in 1 .. Len(node.sub)
      PROVE  /\ w.newdir[at + 1 + k].kind = "entry" /\ NamedIn(w.newdir, w.newdir[at + 1 + k], node.sub[k])
             /\ NameRead(w.newdir, w.newdir[at + 1 + k].at, node.sub[k])
  <2> DEFINE t == at + 1 + k
  <2> HIDE DEF t, at
  <2>1. NameBuilt(w, t, node.sub[k]) /\ node.sub[k] \in NameNodes
    BY <1>1, TypeFacts DEF t, at
  <2>2. w.newdir[t].kind = "entry" /\ NamedIn(w.newdir, w.newdir[t], node.sub[k]) /\ NameRead(w.newdir, w.newdir[t].at, node.sub[k])
    BY <2>1, NameReads
  <2> QED BY <2>2 DEF t
<1>3. DOMAIN node.sub = 1 .. Len(node.sub)
  BY TypeFacts
<1>4. TypeRead(w.newdir, at, node)
  BY <1>1, <1>2, <1>3 DEF TypeRead, HeadAt
<1> QED BY <1>1, <1>4, EntryReads

LEMMA TreeReads ==
    ASSUME NEW w, w.todo = <<>>, w.tree \in Seq(TypeNodes), TreeBuilt(w)
    PROVE  TreeRead(w.newdir, 0, w.tree)
<1>1. DOMAIN w.tree = 1 .. Len(w.tree) /\ Len(w.tree) \in Nat
  OBVIOUS
<1>2. ASSUME NEW k \in 1 .. Len(w.tree)
      PROVE  /\ w.newdir[0 + 1 + k].kind = "entry" /\ NamedIn(w.newdir, w.newdir[0 + 1 + k], w.tree[k])
             /\ TypeRead(w.newdir, w.newdir[0 + 1 + k].at, w.tree[k])
  <2> DEFINE t == 1 + k
  <2>1. 0 + 1 + k = t
    BY <1>1
  <2>2. w.tree[k] \in TypeNodes /\ TypeBuilt(w, t, w.tree[k])
    BY DEF TreeBuilt
  <2> HIDE DEF t
  <2>3. w.newdir[t].kind = "entry" /\ NamedIn(w.newdir, w.newdir[t], w.tree[k]) /\ TypeRead(w.newdir, w.newdir[t].at, w.tree[k])
    BY <2>2, TypeReads
  <2> QED BY <2>1, <2>3
<1> QED BY <1>1, <1>2 DEF TreeBuilt, TreeRead, HeadAt

-----------------------------------------------------------------------------
(* One node of the walk                                                     *)

NewEntry(w, h) ==
    Unit("entry", IF h.node.name = 0 THEN <<"id", h.node.key>> ELSE <<"name", w.spos>>, w.bpos)

LinkedBy(w, h) ==
    [u \in DOMAIN w.newdir |->
        CASE u = h.slot -> NewEntry(w, h)
          [] u \in w.spos .. w.spos + h.node.name - 1 -> Unit("name", h.node.key, u - w.spos)
          [] u = w.bpos /\ h.level < 2 -> Unit("dir", Len(h.node.sub), 0)
          [] u = w.bpos /\ h.level = 2 -> Unit("data", 0, h.node.sub)
          [] OTHER -> w.newdir[u]]

\* What the node leaves to be built
Kids(w, h) == IF h.level = 2 THEN <<>> ELSE Pending(h.node.sub, w.bpos + 2, h.level + 1, h.type)

EndOf(w) == Dirs(w) + DirUnits(w.tree).names

\* There is room for what is left, and no two of them wait for one slot
WorkShape(w) ==
    /\ w.tree \in Seq(TypeNodes) /\ w.tree # <<>> /\ w.todo \in Seq(Tasks)
    /\ w.bpos \in Nat /\ w.spos \in Nat /\ Dirs(w) \in Nat /\ EndOf(w) \in Nat /\ Dirs(w) <= w.spos
    /\ DOMAIN w.newdir = 0 .. EndOf(w) - 1
    /\ w.bpos + Left(TRUE, w.todo) = Dirs(w) /\ w.spos + Left(FALSE, w.todo) = EndOf(w)
    /\ \A j \in 1 .. Len(w.todo) : 0 < w.todo[j].slot /\ w.todo[j].slot < w.bpos
    /\ \A i, j \in 1 .. Len(w.todo) : w.todo[i].slot = w.todo[j].slot => i = j

LEMMA LeftNone == ASSUME NEW dirs \in BOOLEAN PROVE Left(dirs, <<>>) = 0
<1> DEFINE f == [k \in 1 .. 0 |-> UnitsOf(dirs, <<>>[k].node, <<>>[k].level)]
           g == [k \in 1 .. 0 |-> 0]
<1>1. g \in [1 .. 0 -> Nat] /\ 0 \in Nat
  OBVIOUS
<1>2. f = g
  OBVIOUS
<1>3. Len(<<>>) = 0
  OBVIOUS
<1> HIDE DEF f, g
<1>4. SumTo(g, 0) = 0
  BY <1>1, SumNext
<1> QED BY <1>2, <1>3, <1>4 DEF Left, f

KidsAre(kids, w, h) ==
    /\ kids \in Seq(Tasks) /\ Len(kids) \in Nat
    /\ UnitsOf(TRUE, h.node, h.level) = 2 + Len(kids) + Left(TRUE, kids)
    /\ UnitsOf(FALSE, h.node, h.level) = h.node.name + Left(FALSE, kids)
    /\ Left(TRUE, kids) \in Nat /\ Left(FALSE, kids) \in Nat
    /\ h.level < 2 => Len(kids) = Len(h.node.sub)
    /\ h.level = 2 => kids = <<>>
    /\ \A k \in 1 .. Len(kids) :
          /\ kids[k].node = h.node.sub[k] /\ kids[k].slot = w.bpos + 1 + k
          /\ kids[k].level = h.level + 1 /\ kids[k].type = h.type

LEMMA KidsFacts ==
    ASSUME NEW w, w.bpos \in Nat, NEW h \in Tasks, h.level < 2 => h.node.sub # <<>>
    PROVE  KidsAre(Kids(w, h), w, h) /\ h.node.name \in Nat /\ h.node.key \in Nat
<1> DEFINE kids == Kids(w, h)
           node == h.node
           level == h.level
           type == h.type
<1>1. node \in NodesOf(level) /\ h.slot \in Nat /\ level \in 0 .. 2 /\ type \in Nat
  BY TaskFacts
<1>2. node.name \in Nat /\ node.key \in Nat
  BY <1>1, NodeKind
<1>3. CASE level = 2
  <2>1. kids = <<>>
    BY <1>3 DEF Kids
  <2>2. <<>> \in Seq(Tasks) /\ Len(<<>>) = 0
    OBVIOUS
  <2>3. Left(TRUE, <<>>) = 0 /\ Left(FALSE, <<>>) = 0
    BY LeftNone
  <2>4. UnitsOf(TRUE, node, level) = 2 /\ UnitsOf(FALSE, node, level) = node.name
    BY <1>3 DEF UnitsOf
  <2> DEFINE lt == Left(TRUE, kids)
             lf == Left(FALSE, kids)
             ut == UnitsOf(TRUE, node, level)
             uf == UnitsOf(FALSE, node, level)
             c == Len(kids)
             name == node.name
  <2>5. lt = 0 /\ lf = 0 /\ ut = 2 /\ uf = name /\ c = 0 /\ kids \in Seq(Tasks) /\ name \in Nat
    BY <1>2, <2>1, <2>2, <2>3, <2>4
  <2> HIDE DEF kids, node, level, type, lt, lf, ut, uf, c, name
  <2>6. ut = 2 + c + lt /\ uf = name + lf /\ lt \in Nat /\ lf \in Nat /\ c \in Nat
    BY <2>5
  <2>7. \A k \in 1 .. c : FALSE
    BY <2>5
  <2>8. ~(level < 2)
    BY <1>3
  <2>9. KidsAre(kids, w, h)
    BY <2>1, <2>5, <2>6, <2>7, <2>8, Zenon DEF KidsAre, level, node, c, lt, lf, ut, uf, name
  <2> QED BY <1>2, <2>9 DEF kids, node
<1>4. CASE level < 2
  <2> DEFINE b == w.bpos + 2
             sub == node.sub
             l == level + 1
             p == Pending(sub, b, l, type)
  <2>1. b \in Nat /\ level \in 0 .. 1 /\ l \in 0 .. 2 /\ l > 0 /\ sub # <<>>
    BY <1>1, <1>4
  <2>2. kids = p /\ level # 2
    BY <1>1, <1>4 DEF Kids
  <2> HIDE DEF b, kids, node, level, type
  <2>3. Children(node, level, b, type)
    BY <1>1, <2>1, ChildUnits
  <2>4. /\ sub \in Seq(NodesOf(l)) /\ Len(sub) \in Nat
        /\ UnitsOf(TRUE, node, level) = 2 + Len(sub) + Left(TRUE, p)
        /\ UnitsOf(FALSE, node, level) = node.name + Left(FALSE, p)
        /\ Left(TRUE, p) \in Nat /\ Left(FALSE, p) \in Nat
    BY <2>3, Zenon DEF Children
  <2> HIDE DEF l, sub
  <2>5. /\ p \in Seq(Tasks) /\ Len(p) = Len(sub)
        /\ \A k \in 1 .. Len(sub) :
                 /\ p[k].node = sub[k] /\ p[k].slot = b + k - 1 /\ p[k].level = l
                 /\ p[k].type = TypeOf(sub[k], l, type)
    <3> HIDE DEF NodesOf, Tasks
    <3> QED BY <1>1, <2>1, <2>4, PendingIs
  <2> HIDE DEF p
  <2>6. ASSUME NEW k \in 1 .. Len(sub)
        PROVE p[k].node = sub[k] /\ p[k].slot = w.bpos + 1 + k /\ p[k].level = l /\ p[k].type = type
    <3>1. TypeOf(sub[k], l, type) = type
      BY <2>1 DEF TypeOf
    <3>2. b + k - 1 = w.bpos + 1 + k
      BY <2>4 DEF b
    <3> QED BY <2>5, <3>1, <3>2
  <2>7. KidsAre(p, w, h)
    BY <2>2, <2>4, <2>5, <2>6, Zenon DEF KidsAre, level, node, type, sub, l
  <2> QED BY <1>2, <2>2, <2>7 DEF kids, node
<1> QED BY <1>1, <1>3, <1>4

Joined(a, b, S) ==
    /\ a \o b \in Seq(S) /\ Len(a) \in Nat /\ Len(b) \in Nat /\ Len(a \o b) = Len(a) + Len(b)
    /\ \A j \in 1 .. Len(a) : (a \o b)[j] = a[j]
    /\ \A j \in 1 .. Len(b) : (a \o b)[Len(a) + j] = b[j]

LEMMA JoinIs == ASSUME NEW S, NEW a \in Seq(S), NEW b \in Seq(S) PROVE Joined(a, b, S)
<1>1. a \o b \in Seq(S)
  OBVIOUS
<1>2. Len(a) \in Nat /\ Len(b) \in Nat /\ Len(a \o b) = Len(a) + Len(b)
  OBVIOUS
<1>3. ASSUME NEW j \in 1 .. Len(a) PROVE (a \o b)[j] = a[j]
  BY <1>2
<1>4. ASSUME NEW j \in 1 .. Len(b) PROVE (a \o b)[Len(a) + j] = b[j]
  BY <1>2
<1> QED BY <1>1, <1>2, <1>3, <1>4 DEF Joined

LEMMA TodoNext ==
    ASSUME NEW todo \in Seq(Tasks), todo # <<>>, NEW kids \in Seq(Tasks), NEW next, next = kids \o Tail(todo)
    PROVE  /\ next \in Seq(Tasks) /\ Head(todo) \in Tasks /\ Head(todo) = todo[1] /\ Tail(todo) \in Seq(Tasks)
           /\ Len(kids) \in Nat /\ Len(todo) \in Nat \ {0} /\ Len(next) = Len(kids) + Len(todo) - 1
           /\ \A j \in 1 .. Len(kids) : next[j] = kids[j]
           /\ \A j \in 1 .. Len(todo) - 1 : next[Len(kids) + j] = todo[j + 1]
<1> HIDE DEF Tasks
<1> DEFINE t == Tail(todo)
<1>1. t \in Seq(Tasks) /\ Head(todo) \in Tasks /\ Head(todo) = todo[1] /\ Len(todo) \in Nat \ {0} /\ Len(t) = Len(todo) - 1
      /\ \A j \in 1 .. Len(todo) - 1 : t[j] = todo[j + 1]
  OBVIOUS
<1> HIDE DEF t
<1>2. /\ kids \o t \in Seq(Tasks) /\ Len(kids) \in Nat /\ Len(kids \o t) = Len(kids) + Len(t)
      /\ \A j \in 1 .. Len(kids) : (kids \o t)[j] = kids[j]
      /\ \A j \in 1 .. Len(t) : (kids \o t)[Len(kids) + j] = t[j]
  <2>1. t \in Seq(Tasks)
    BY <1>1
  <2>2. Joined(kids, t, Tasks)
    BY <2>1, JoinIs, Zenon
  <2> QED BY <2>2, Zenon DEF Joined
<1>3. next = kids \o t
  BY DEF t
<1> QED BY <1>1, <1>2, <1>3 DEF t

LEMMA RoomSums ==
    ASSUME NEW b \in Nat, NEW s \in Nat, NEW D \in Nat, NEW E \in Nat, D <= s,
           NEW lt \in Nat, NEW lf \in Nat, NEW c \in Nat, NEW n \in Nat,
           NEW kt \in Nat, NEW kf \in Nat, NEW tt \in Nat, NEW tf \in Nat, NEW nt, NEW nf, NEW ut, NEW uf,
           b + lt = D, s + lf = E, lt = ut + tt, lf = uf + tf, ut = 2 + c + kt, uf = n + kf,
           nt = kt + tt, nf = kf + tf
    PROVE  /\ b + 2 + c + nt = D /\ s + n + nf = E /\ nt \in Nat /\ nf \in Nat
           /\ b + 2 + c \in Nat /\ s + n \in Nat /\ b + 1 + c < D /\ b < D /\ b < s /\ s + n <= E /\ D <= s + n
  OBVIOUS

\* The place the next node takes
Roomy(w, h, kids, next) ==
    /\ w.bpos + 2 + Len(kids) + Left(TRUE, next) = Dirs(w) /\ w.spos + h.node.name + Left(FALSE, next) = EndOf(w)
    /\ Left(TRUE, next) \in Nat /\ Left(FALSE, next) \in Nat
    /\ w.bpos + 2 + Len(kids) \in Nat /\ w.spos + h.node.name \in Nat
    /\ w.bpos + 1 + Len(kids) < Dirs(w) /\ w.bpos < Dirs(w) /\ w.bpos < w.spos
    /\ w.spos + h.node.name <= EndOf(w) /\ Dirs(w) <= w.spos + h.node.name

LEMMA RoomAfter ==
    ASSUME NEW w, WorkShape(w), w.todo # <<>>, NEW h \in Tasks, h = Head(w.todo), NEW kids, KidsAre(kids, w, h),
           h.node.name \in Nat
    PROVE  Roomy(w, h, kids, kids \o Tail(w.todo))
<1> DEFINE todo == w.todo
           t == Tail(todo)
           next == kids \o t
           b == w.bpos
           s == w.spos
           D == Dirs(w)
           E == EndOf(w)
           n == h.node.name
           c == Len(kids)
           kt == Left(TRUE, kids)
           kf == Left(FALSE, kids)
           tt == Left(TRUE, t)
           tf == Left(FALSE, t)
           lt == Left(TRUE, todo)
           lf == Left(FALSE, todo)
           nt == Left(TRUE, next)
           nf == Left(FALSE, next)
           ut == UnitsOf(TRUE, h.node, h.level)
           uf == UnitsOf(FALSE, h.node, h.level)
<1>1. todo \in Seq(Tasks) /\ b \in Nat /\ s \in Nat /\ D \in Nat /\ E \in Nat /\ D <= s /\ b + lt = D /\ s + lf = E
  BY DEF WorkShape
<1>2. kids \in Seq(Tasks) /\ c \in Nat /\ ut = 2 + c + kt /\ uf = n + kf /\ kt \in Nat /\ kf \in Nat
  BY Zenon DEF KidsAre
<1>3. t \in Seq(Tasks) /\ todo # <<>> /\ TRUE \in BOOLEAN /\ FALSE \in BOOLEAN
  <2> HIDE DEF todo
  <2>1. todo \in Seq(Tasks) /\ todo # <<>>
    BY <1>1 DEF todo
  <2> QED BY <2>1
<1>4. lt = ut + tt /\ lf = uf + tf
  <2> HIDE DEF todo
  <2>1. Left(TRUE, todo) = UnitsOf(TRUE, Head(todo).node, Head(todo).level) + Left(TRUE, Tail(todo))
    BY <1>1, <1>3, LeftHead, Zenon
  <2>2. Left(FALSE, todo) = UnitsOf(FALSE, Head(todo).node, Head(todo).level) + Left(FALSE, Tail(todo))
    BY <1>1, <1>3, LeftHead, Zenon
  <2> QED BY <2>1, <2>2, Zenon DEF todo
<1>5. nt = kt + tt /\ nf = kf + tf
  <2> HIDE DEF t
  <2> QED BY <1>2, <1>3, LeftJoin, Zenon
<1>6. lt \in Nat /\ lf \in Nat /\ tt \in Nat /\ tf \in Nat
  <2> HIDE DEF t, todo
  <2> QED BY <1>1, <1>3, TodoUnits
<1>7. n \in Nat
  OBVIOUS
<1> HIDE DEF todo, t, next, b, s, D, E, n, c, kt, kf, tt, tf, lt, lf, nt, nf, ut, uf
<1>8. /\ b + 2 + c + nt = D /\ s + n + nf = E /\ nt \in Nat /\ nf \in Nat
      /\ b + 2 + c \in Nat /\ s + n \in Nat /\ b + 1 + c < D /\ b < D /\ b < s /\ s + n <= E /\ D <= s + n
  BY <1>1, <1>2, <1>4, <1>5, <1>6, <1>7, RoomSums
<1> QED BY <1>8, Zenon DEF Roomy, todo, t, next, b, s, D, E, n, c, nt, nf

\* What is in the directory after a node
LinkIs(w, h, dir) ==
    /\ DOMAIN dir = 0 .. EndOf(w) - 1
    /\ dir[h.slot] = NewEntry(w, h)
    /\ \A u \in Int : w.spos <= u /\ u < w.spos + h.node.name => dir[u] = Unit("name", h.node.key, u - w.spos)
    /\ h.level < 2 => dir[w.bpos] = Unit("dir", Len(h.node.sub), 0)
    /\ h.level = 2 => dir[w.bpos] = Unit("data", 0, h.node.sub)
    /\ \A u \in 0 .. EndOf(w) - 1 : u # h.slot /\ u # w.bpos /\ (u < w.spos \/ w.spos + h.node.name <= u)
          => dir[u] = w.newdir[u]

LEMMA LinkedIs ==
    ASSUME NEW w, WorkShape(w), NEW h, h.node.name \in Nat, h.slot \in Nat, 0 < h.slot, h.slot < w.bpos,
           w.bpos < w.spos, w.spos + h.node.name <= EndOf(w), h.level \in 0 .. 2
    PROVE  LinkIs(w, h, LinkedBy(w, h))
<1> DEFINE dir == LinkedBy(w, h)
           b == w.bpos
           s == w.spos
           E == EndOf(w)
           n == h.node.name
           slot == h.slot
           old == w.newdir
<1>1. b \in Nat /\ s \in Nat /\ E \in Nat /\ DOMAIN old = 0 .. E - 1
  BY DEF WorkShape
<1>2. n \in Nat /\ slot \in Nat /\ 0 < slot /\ slot < b /\ b < s /\ s + n <= E
  OBVIOUS
<1>3. DOMAIN dir = 0 .. E - 1 /\ \A u \in DOMAIN old : dir[u] =
        CASE u = slot -> NewEntry(w, h)
          [] u \in s .. s + n - 1 -> Unit("name", h.node.key, u - s)
          [] u = b /\ h.level < 2 -> Unit("dir", Len(h.node.sub), 0)
          [] u = b /\ h.level = 2 -> Unit("data", 0, h.node.sub)
          [] OTHER -> old[u]
  BY <1>1, Zenon DEF LinkedBy
<1> HIDE DEF b, s, E, n, slot, old, dir
<1>4. dir[slot] = NewEntry(w, h)
  <2>1. slot \in DOMAIN old /\ slot \notin s .. s + n - 1 /\ slot # b
    BY <1>1, <1>2
  <2> QED BY <1>3, <2>1, Zenon
<1>5. ASSUME NEW u \in Int, s <= u, u < s + n PROVE dir[u] = Unit("name", h.node.key, u - s)
  <2>1. u \in DOMAIN old /\ u \in s .. s + n - 1 /\ u # slot /\ u # b
    BY <1>1, <1>2, <1>5
  <2> QED BY <1>3, <2>1, Zenon
<1>6. b \in DOMAIN old /\ b # slot /\ b \notin s .. s + n - 1
  BY <1>1, <1>2
<1>7. ASSUME h.level < 2 PROVE dir[b] = Unit("dir", Len(h.node.sub), 0)
  <2>1. h.level # 2
    BY <1>7
  <2> QED BY <1>3, <1>6, <1>7, <2>1, Zenon
<1>8. ASSUME h.level = 2 PROVE dir[b] = Unit("data", 0, h.node.sub)
  <2>1. ~(h.level < 2)
    BY <1>8
  <2> QED BY <1>3, <1>6, <1>8, <2>1, Zenon
<1>9. ASSUME NEW u \in 0 .. E - 1, u # slot, u # b, u < s \/ s + n <= u PROVE dir[u] = old[u]
  <2>1. u \in DOMAIN old /\ u \notin s .. s + n - 1
    BY <1>1, <1>2, <1>9
  <2> QED BY <1>3, <1>9, <2>1, Zenon
<1> QED BY <1>3, <1>4, <1>5, <1>7, <1>8, <1>9 DEF LinkIs, b, s, E, n, slot, old, dir

\* A node of the walk with its entry, its name, itself, and its children to come
Builds(w, w2, h) ==
    /\ w.todo # <<>> /\ h = Head(w.todo) /\ (h.level < 2 => h.node.sub # <<>>)
    /\ w2.tree = w.tree /\ w2.todo = Kids(w, h) \o Tail(w.todo) /\ w2.bpos = w.bpos + 2 + Len(Kids(w, h))
    /\ w2.spos = w.spos + h.node.name /\ w2.newdir = LinkedBy(w, h)

\* What waits after a node
NextIs(w, w2, h, c) ==
    /\ c \in Nat /\ Len(w.todo) \in Nat \ {0} /\ Len(w2.todo) = c + Len(w.todo) - 1 /\ w.todo[1] = h
    /\ w.bpos \in Nat /\ w2.bpos = w.bpos + 2 + c /\ h.level \in 0 .. 2
    /\ h.level < 2 => c = Len(h.node.sub)
    /\ h.level = 2 => c = 0
    /\ \A j \in 1 .. c : /\ w2.todo[j].slot = w.bpos + 1 + j /\ w2.todo[j].node = h.node.sub[j]
                         /\ w2.todo[j].level = h.level + 1 /\ w2.todo[j].type = h.type
    /\ \A i \in 1 .. Len(w.todo) - 1 : w2.todo[c + i] = w.todo[i + 1]
    /\ \A j \in 1 .. Len(w.todo) : w.todo[j].slot \in Nat /\ 0 < w.todo[j].slot /\ w.todo[j].slot < w.bpos
    /\ \A i, j \in 1 .. Len(w.todo) : w.todo[i].slot = w.todo[j].slot => i = j

\* What a node does, all of it
BuiltIs(w, w2, h) ==
    /\ WorkShape(w) /\ w2.tree = w.tree /\ w2.todo \in Seq(Tasks) /\ h \in Tasks
    /\ NextIs(w, w2, h, Len(Kids(w, h)))
    /\ Roomy(w, h, Kids(w, h), w2.todo) /\ LinkIs(w, h, w2.newdir) /\ w2.spos = w.spos + h.node.name
    /\ h.node.name \in Nat /\ h.node.key \in Nat /\ h.slot \in Nat /\ 0 < h.slot /\ h.slot < w.bpos

LEMMA BuildsAll ==
    ASSUME NEW w, WorkShape(w), NEW w2, NEW h, Builds(w, w2, h)
    PROVE  BuiltIs(w, w2, h)
<1> DEFINE todo == w.todo
           kids == Kids(w, h)
           next == kids \o Tail(todo)
           c == Len(kids)
<1>1. todo \in Seq(Tasks) /\ todo # <<>> /\ w.bpos \in Nat /\ h = Head(todo) /\ (h.level < 2 => h.node.sub # <<>>)
  BY DEF WorkShape, Builds
<1>2. w2.todo = next /\ w2.bpos = w.bpos + 2 + c /\ w2.spos = w.spos + h.node.name /\ w2.newdir = LinkedBy(w, h)
      /\ w2.tree = w.tree
  BY DEF Builds
<1>3. \A j \in 1 .. Len(todo) : 0 < todo[j].slot /\ todo[j].slot < w.bpos
  BY DEF WorkShape
<1>4. \A i, j \in 1 .. Len(todo) : todo[i].slot = todo[j].slot => i = j
  BY DEF WorkShape
<1> HIDE DEF todo
<1>5. h \in Tasks
  BY <1>1
<1>6. h.level \in 0 .. 2 /\ h.slot \in Nat
  BY <1>5, TaskFacts
<1>7. KidsAre(kids, w, h) /\ h.node.name \in Nat /\ h.node.key \in Nat
  BY <1>1, <1>5, KidsFacts
<1> HIDE DEF kids
<1>8. kids \in Seq(Tasks)
  BY <1>7, Zenon DEF KidsAre
<1> HIDE DEF next
<1>9. next = kids \o Tail(todo)
  BY DEF next
<1>10. /\ next \in Seq(Tasks) /\ Head(todo) \in Tasks /\ Head(todo) = todo[1] /\ Tail(todo) \in Seq(Tasks)
       /\ Len(kids) \in Nat /\ Len(todo) \in Nat \ {0} /\ Len(next) = Len(kids) + Len(todo) - 1
       /\ \A j \in 1 .. Len(kids) : next[j] = kids[j]
       /\ \A j \in 1 .. Len(todo) - 1 : next[Len(kids) + j] = todo[j + 1]
  BY <1>1, <1>8, <1>9, TodoNext
<1>11. \A j \in 1 .. Len(todo) : todo[j].slot \in Nat
  <2> SUFFICES ASSUME NEW j \in 1 .. Len(todo) PROVE todo[j].slot \in Nat
    OBVIOUS
  <2>1. todo[j] \in Tasks
    BY <1>1
  <2> QED BY <2>1, TaskFacts
<1>12. /\ h.level < 2 => c = Len(h.node.sub)
       /\ h.level = 2 => c = 0
       /\ \A j \in 1 .. c : /\ kids[j].slot = w.bpos + 1 + j /\ kids[j].node = h.node.sub[j]
                            /\ kids[j].level = h.level + 1 /\ kids[j].type = h.type
  <2>1. h.level = 2 => kids = <<>>
    BY <1>7, Zenon DEF KidsAre
  <2>2. Len(<<>>) = 0
    OBVIOUS
  <2>3. h.level = 2 => c = 0
    BY <2>1, <2>2
  <2>4. \A j \in 1 .. c : /\ kids[j].slot = w.bpos + 1 + j /\ kids[j].node = h.node.sub[j]
                          /\ kids[j].level = h.level + 1 /\ kids[j].type = h.type
    BY <1>7, Zenon DEF KidsAre
  <2> QED BY <1>7, <2>3, <2>4, Zenon DEF KidsAre
<1> HIDE DEF c
<1>13. c = Len(kids)
  BY DEF c
<1>14. \A j \in 1 .. c : /\ next[j].slot = w.bpos + 1 + j /\ next[j].node = h.node.sub[j]
                         /\ next[j].level = h.level + 1 /\ next[j].type = h.type
  BY <1>10, <1>12, <1>13
<1>15. NextIs(w, w2, h, c)
  <2>1. c \in Nat /\ Len(next) = c + Len(todo) - 1 /\ \A j \in 1 .. Len(todo) - 1 : next[c + j] = todo[j + 1]
    BY <1>10, <1>13
  <2>2. todo[1] = h
    BY <1>1, <1>10
  <2> HIDE DEF todo, next, kids
  <2> QED BY <1>1, <1>2, <1>3, <1>4, <1>6, <1>10, <1>11, <1>12, <1>14, <2>1, <2>2, Zenon DEF NextIs, todo
<1>16. Roomy(w, h, kids, next)
  <2>1. w.todo # <<>> /\ h = Head(w.todo) /\ next = kids \o Tail(w.todo)
    BY <1>1, <1>9 DEF todo
  <2>2. Roomy(w, h, kids, kids \o Tail(w.todo))
    BY <1>5, <1>7, <2>1, RoomAfter
  <2> QED BY <2>1, <2>2
<1>17. 0 < h.slot /\ h.slot < w.bpos
  <2>1. 1 \in 1 .. Len(todo) /\ todo[1] = h
    BY <1>1, <1>10
  <2> QED BY <1>3, <2>1
<1>18. LinkIs(w, h, LinkedBy(w, h))
  <2>1. w.bpos < w.spos /\ w.spos + h.node.name <= EndOf(w)
    BY <1>16, Zenon DEF Roomy
  <2> QED BY <1>6, <1>7, <1>17, <2>1, LinkedIs
<1> QED BY <1>2, <1>5, <1>6, <1>7, <1>10, <1>13, <1>15, <1>16, <1>17, <1>18, Zenon DEF BuiltIs, kids

\* What waits was waiting, or is a child of the node
LEMMA NextSplit ==
    ASSUME NEW w, NEW w2, NEW h, NEW c, NextIs(w, w2, h, c), NEW j \in 1 .. Len(w2.todo)
    PROVE  \/ j \in 1 .. c
           \/ \E i \in 1 .. Len(w.todo) - 1 : j = c + i /\ i + 1 \in 1 .. Len(w.todo) /\ i + 1 # 1
<1> DEFINE m == Len(w.todo)
           n == Len(w2.todo)
<1>1. c \in Nat /\ m \in Nat \ {0} /\ n = c + m - 1
  BY Zenon DEF NextIs
<1> HIDE DEF m, n
<1>2. CASE j <= c
  BY <1>1, <1>2 DEF n
<1>3. CASE ~(j <= c)
  <2> DEFINE i == j - c
  <2>1. i \in 1 .. m - 1 /\ j = c + i /\ i + 1 \in 1 .. m /\ i + 1 # 1
    BY <1>1, <1>3 DEF n
  <2> QED BY <2>1 DEF m
<1> QED BY <1>2, <1>3

\* The slot of what waits, and where it comes from
SlotFrom(w, w2, h, c, j) ==
    \/ j \in 1 .. c /\ w2.todo[j].slot = w.bpos + 1 + j
    \/ \E i \in 2 .. Len(w.todo) : /\ j = c + i - 1 /\ w2.todo[j] = w.todo[i] /\ w.todo[i].slot \in Nat
                            /\ 0 < w.todo[i].slot /\ w.todo[i].slot < w.bpos
                            /\ w.todo[i].slot # h.slot /\ i \in 1 .. Len(w.todo)

LEMMA NextSlot ==
    ASSUME NEW w, NEW w2, NEW h, NEW c, NextIs(w, w2, h, c), NEW j \in 1 .. Len(w2.todo)
    PROVE  SlotFrom(w, w2, h, c, j)
<1> DEFINE m == Len(w.todo)
<1>1. /\ c \in Nat /\ m \in Nat \ {0} /\ w.todo[1] = h
      /\ \A k \in 1 .. c : w2.todo[k].slot = w.bpos + 1 + k
      /\ \A i \in 1 .. m - 1 : w2.todo[c + i] = w.todo[i + 1]
      /\ \A k \in 1 .. m : w.todo[k].slot \in Nat /\ 0 < w.todo[k].slot /\ w.todo[k].slot < w.bpos
      /\ \A i, k \in 1 .. m : w.todo[i].slot = w.todo[k].slot => i = k
  BY Zenon DEF NextIs
<1>2. \/ j \in 1 .. c
      \/ \E i \in 1 .. m - 1 : j = c + i /\ i + 1 \in 1 .. m /\ i + 1 # 1
  BY NextSplit
<1> HIDE DEF m
<1>3. CASE j \in 1 .. c
  BY <1>1, <1>3, Zenon DEF SlotFrom
<1>4. ASSUME NEW i \in 1 .. m - 1, j = c + i, i + 1 \in 1 .. m, i + 1 # 1
      PROVE \E k \in 2 .. m : /\ j = c + k - 1 /\ w2.todo[j] = w.todo[k] /\ w.todo[k].slot \in Nat
                                          /\ 0 < w.todo[k].slot /\ w.todo[k].slot < w.bpos
                                          /\ w.todo[k].slot # h.slot /\ k \in 1 .. m
  <2> DEFINE k == i + 1
  <2>1. k \in 2 .. m /\ j = c + k - 1 /\ k \in 1 .. m /\ k # 1 /\ 1 \in 1 .. m
    BY <1>1, <1>4
  <2>2. w2.todo[j] = w.todo[k]
    BY <1>1, <1>4
  <2> HIDE DEF k
  <2>3. w.todo[k].slot # h.slot
    BY <1>1, <2>1
  <2> QED BY <1>1, <2>1, <2>2, <2>3
<1> QED BY <1>2, <1>3, <1>4, Zenon DEF m, SlotFrom

LEMMA StepShape ==
    ASSUME NEW w, NEW w2, NEW h, BuiltIs(w, w2, h)
    PROVE  WorkShape(w2) /\ Dirs(w2) = Dirs(w) /\ EndOf(w2) = EndOf(w)
<1> DEFINE c == Len(Kids(w, h))
           b == w.bpos
           b2 == w2.bpos
           n == Len(w2.todo)
           m == Len(w.todo)
<1>1. Dirs(w2) = Dirs(w) /\ EndOf(w2) = EndOf(w)
  BY DEF BuiltIs, Dirs, EndOf
<1>2. NextIs(w, w2, h, c)
  BY Zenon DEF BuiltIs
<1>3. b \in Nat /\ b2 = b + 2 + c /\ c \in Nat /\ n = c + m - 1 /\ m \in Nat \ {0}
  BY <1>2, Zenon DEF NextIs
<1>4. /\ w2.tree \in Seq(TypeNodes) /\ w2.tree # <<>> /\ Dirs(w) \in Nat /\ EndOf(w) \in Nat
      /\ w2.todo \in Seq(Tasks)
  BY DEF BuiltIs, WorkShape
<1>5. /\ b2 + Left(TRUE, w2.todo) = Dirs(w) /\ w2.spos + Left(FALSE, w2.todo) = EndOf(w)
      /\ b2 \in Nat /\ w2.spos \in Nat /\ Dirs(w) <= w2.spos
  <2>1. Roomy(w, h, Kids(w, h), w2.todo) /\ w2.spos = w.spos + h.node.name
    BY Zenon DEF BuiltIs
  <2> QED BY <1>3, <2>1, Zenon DEF Roomy
<1>6. DOMAIN w2.newdir = 0 .. EndOf(w) - 1
  BY Zenon DEF BuiltIs, LinkIs
<1> HIDE DEF c, b, b2, n, m
<1>7. ASSUME NEW j \in 1 .. n
      PROVE  \/ j \in 1 .. c /\ w2.todo[j].slot = b + 1 + j
             \/ \E i \in 2 .. m : /\ j = c + i - 1 /\ w2.todo[j] = w.todo[i] /\ w.todo[i].slot \in Nat
                                  /\ 0 < w.todo[i].slot /\ w.todo[i].slot < b
                                  /\ w.todo[i].slot # h.slot /\ i \in 1 .. m
  <2>1. j \in 1 .. Len(w2.todo)
    BY DEF n
  <2>2. SlotFrom(w, w2, h, c, j)
    BY <1>2, <2>1, NextSlot
  <2> QED BY <2>2, Zenon DEF SlotFrom, b, m
<1>8. ASSUME NEW j \in 1 .. n PROVE 0 < w2.todo[j].slot /\ w2.todo[j].slot < b2
  <2>1. CASE j \in 1 .. c /\ w2.todo[j].slot = b + 1 + j
    <3>1. 0 < b + 1 + j /\ b + 1 + j < b2
      BY <1>3, <2>1
    <3> QED BY <2>1, <3>1
  <2>2. ASSUME NEW i \in 2 .. m, w2.todo[j] = w.todo[i], w.todo[i].slot \in Nat, 0 < w.todo[i].slot, w.todo[i].slot < b
        PROVE  0 < w2.todo[j].slot /\ w2.todo[j].slot < b2
    <3> DEFINE x == w.todo[i].slot
    <3>1. x \in Nat /\ 0 < x /\ x < b /\ w2.todo[j].slot = x
      BY <2>2
    <3> HIDE DEF x
    <3> QED BY <1>3, <3>1
  <2> QED BY <1>7, <2>1, <2>2
<1>9. ASSUME NEW i \in 1 .. n, NEW j \in 1 .. n, w2.todo[i].slot = w2.todo[j].slot PROVE i = j
  <2>1. \A x, y \in 1 .. m : w.todo[x].slot = w.todo[y].slot => x = y
    BY <1>2, Zenon DEF NextIs, m
  <2>2. CASE i \in 1 .. c /\ w2.todo[i].slot = b + 1 + i
    <3>1. CASE j \in 1 .. c /\ w2.todo[j].slot = b + 1 + j
      <4>1. b + 1 + i = b + 1 + j
        BY <1>9, <2>2, <3>1, Zenon
      <4>2. i \in Int /\ j \in Int
        OBVIOUS
      <4> QED BY <1>3, <4>1, <4>2
    <3>2. ASSUME NEW y \in 2 .. m, w2.todo[j] = w.todo[y], w.todo[y].slot < b, w.todo[y].slot \in Nat PROVE FALSE
      <4>1. w.todo[y].slot = b + 1 + i
        BY <1>9, <2>2, <3>2
      <4>2. b + 1 + i \in Nat /\ ~(b + 1 + i < b)
        BY <1>3, <2>2
      <4> QED BY <3>2, <4>1, <4>2
    <3> QED BY <1>7, <3>1, <3>2
  <2>3. ASSUME NEW x \in 2 .. m, i = c + x - 1, w2.todo[i] = w.todo[x], w.todo[x].slot < b, x \in 1 .. m,
               w.todo[x].slot \in Nat
        PROVE  i = j
    <3>1. CASE j \in 1 .. c /\ w2.todo[j].slot = b + 1 + j
      <4>1. w.todo[x].slot = b + 1 + j
        BY <1>9, <2>3, <3>1
      <4>2. b + 1 + j \in Nat /\ ~(b + 1 + j < b)
        BY <1>3, <3>1
      <4> QED BY <2>3, <4>1, <4>2
    <3>2. ASSUME NEW y \in 2 .. m, j = c + y - 1, w2.todo[j] = w.todo[y], y \in 1 .. m PROVE i = j
      <4>1. x = y
        BY <1>9, <2>1, <2>3, <3>2, Zenon
      <4> QED BY <2>3, <3>2, <4>1
    <3> QED BY <1>7, <3>1, <3>2
  <2> QED BY <1>7, <2>2, <2>3
<1> QED BY <1>1, <1>4, <1>5, <1>6, <1>8, <1>9, Zenon DEF WorkShape, n, b2

\* What is settled stays so, and so does what the node has written
LEMMA StepSettles ==
    ASSUME NEW w, NEW w2, NEW h, BuiltIs(w, w2, h)
    PROVE  /\ \A u : Settled(w, u) => Settled(w2, u) /\ w2.newdir[u] = w.newdir[u]
           /\ Settled(w2, h.slot) /\ (h.level = 2 \/ h.level < 2 => Settled(w2, w.bpos))
<1> DEFINE c == Len(Kids(w, h))
           b == w.bpos
           b2 == w2.bpos
           n == Len(w2.todo)
           m == Len(w.todo)
           slot == h.slot
           E == EndOf(w)
           s == w.spos
           name == h.node.name
<1>1. NextIs(w, w2, h, c) /\ slot \in Nat /\ 0 < slot /\ slot < b /\ name \in Nat
  BY Zenon DEF BuiltIs
<1>2. b \in Nat /\ b2 = b + 2 + c /\ c \in Nat /\ m \in Nat \ {0} /\ w.todo[1] = h
  BY <1>1, Zenon DEF NextIs
<1>3. E \in Nat /\ s \in Nat
  BY DEF BuiltIs, WorkShape
<1>4. b < s /\ s + name <= E
  BY Zenon DEF BuiltIs, Roomy
<1>5. \A u \in 0 .. E - 1 : u # slot /\ u # b /\ (u < s \/ s + name <= u) => w2.newdir[u] = w.newdir[u]
  BY Zenon DEF BuiltIs, LinkIs
<1> HIDE DEF b, b2, c, n, m, slot, E, s, name
<1>6. ASSUME NEW u \in Int, u < b \/ u = b, \A i \in 2 .. m : w.todo[i].slot # u PROVE \A j \in 1 .. n : w2.todo[j].slot # u
  <2> SUFFICES ASSUME NEW j \in 1 .. n, w2.todo[j].slot = u PROVE FALSE
    OBVIOUS
  <2>1. SlotFrom(w, w2, h, c, j)
    <3>1. j \in 1 .. Len(w2.todo)
      BY DEF n
    <3> QED BY <1>1, <3>1, NextSlot
  <2>2. \/ j \in 1 .. c /\ w2.todo[j].slot = b + 1 + j
        \/ \E i \in 2 .. m : w2.todo[j] = w.todo[i]
    BY <2>1, Zenon DEF SlotFrom, m, b
  <2>3. CASE j \in 1 .. c /\ w2.todo[j].slot = b + 1 + j
    <3>1. u = b + 1 + j /\ j \in 1 .. c
      BY <2>3
    <3> QED BY <1>2, <1>6, <3>1
  <2>4. CASE \E i \in 2 .. m : w2.todo[j] = w.todo[i]
    BY <1>6, <2>4
  <2> QED BY <2>2, <2>3, <2>4
<1>7. ASSUME NEW u, Settled(w, u) PROVE Settled(w2, u) /\ w2.newdir[u] = w.newdir[u]
  <2>1. u \in 0 .. b - 1 /\ \A j \in 1 .. m : w.todo[j].slot # u
    BY <1>7, Zenon DEF Settled, b, m
  <2>2. u \in 0 .. b2 - 1 /\ u \in Int /\ u < b /\ u \in 0 .. E - 1 /\ u # b /\ u < s /\ 1 \in 1 .. m
    BY <1>2, <1>3, <1>4, <1>1, <2>1
  <2>3. \A j \in 2 .. m : w.todo[j].slot # u
    <3>1. \A j \in 2 .. m : j \in 1 .. m
      BY <1>2
    <3> QED BY <2>1, <3>1
  <2>4. \A j \in 1 .. n : w2.todo[j].slot # u
    BY <1>6, <2>2, <2>3
  <2>5. u # slot
    BY <1>2, <2>1, <2>2, Zenon DEF slot
  <2>6. w2.newdir[u] = w.newdir[u]
    BY <1>5, <2>2, <2>5
  <2> QED BY <2>2, <2>4, <2>6, Zenon DEF Settled, b2, n
<1>8. Settled(w2, slot)
  <2>1. slot \in Int /\ slot < b /\ slot \in 0 .. b2 - 1
    BY <1>1, <1>2
  <2>2. \A i \in 2 .. m : w.todo[i].slot # slot
    <3> SUFFICES ASSUME NEW i \in 2 .. m, w.todo[i].slot = slot PROVE FALSE
      OBVIOUS
    <3>1. i \in 1 .. m /\ 1 \in 1 .. m /\ i # 1
      BY <1>2
    <3>2. \A x, y \in 1 .. m : w.todo[x].slot = w.todo[y].slot => x = y
      BY <1>1, Zenon DEF NextIs, m
    <3>3. w.todo[i].slot = w.todo[1].slot
      BY <1>2, Zenon DEF slot
    <3> QED BY <3>1, <3>2, <3>3, Zenon
  <2>3. \A j \in 1 .. n : w2.todo[j].slot # slot
    BY <1>6, <2>1, <2>2
  <2> QED BY <2>1, <2>3, Zenon DEF Settled, b2, n
<1>9. Settled(w2, b)
  <2>1. b \in Int /\ b \in 0 .. b2 - 1
    BY <1>2
  <2>2. \A i \in 2 .. m : w.todo[i].slot # b
    <3> SUFFICES ASSUME NEW i \in 2 .. m PROVE w.todo[i].slot # b
      OBVIOUS
    <3>1. i \in 1 .. m
      BY <1>2
    <3>2. w.todo[i].slot \in Nat /\ w.todo[i].slot < b
      BY <1>1, <3>1, Zenon DEF NextIs, m, b
    <3> QED BY <1>2, <3>2
  <2>3. \A j \in 1 .. n : w2.todo[j].slot # b
    BY <1>6, <2>1, <2>2
  <2> QED BY <2>1, <2>3, Zenon DEF Settled, b2, n
<1> QED BY <1>7, <1>8, <1>9, Zenon DEF slot, b

LEMMA StepGoesOn ==
    ASSUME NEW w, NEW w2, NEW h, BuiltIs(w, w2, h)
    PROVE  GoesOn(w, w2, h)
<1> DEFINE c == Len(Kids(w, h))
           m == Len(w.todo)
           s == w.spos
           D == Dirs(w)
           E == EndOf(w)
           name == h.node.name
           b == w.bpos
           slot == h.slot
<1>1. w2.tree = w.tree /\ w2.spos = s + name /\ name \in Nat /\ s \in Nat /\ D \in Nat /\ D <= s /\ E \in Nat /\ b \in Nat
  BY DEF BuiltIs, WorkShape
<1>2. b < D /\ s + name <= E /\ slot \in Nat /\ slot < b
  BY Zenon DEF BuiltIs, Roomy
<1>3. \A u : Settled(w, u) => Settled(w2, u) /\ w2.newdir[u] = w.newdir[u]
  BY StepSettles
<1>4. ASSUME NEW u \in Int, D <= u, u < s PROVE w2.newdir[u] = w.newdir[u]
  <2>1. \A v \in 0 .. E - 1 : v # slot /\ v # b /\ (v < s \/ s + name <= v) => w2.newdir[v] = w.newdir[v]
    BY Zenon DEF BuiltIs, LinkIs
  <2> HIDE DEF s, D, E, name, b, slot
  <2>2. u \in 0 .. E - 1 /\ u # slot /\ u # b
    BY <1>1, <1>2, <1>4
  <2> QED BY <1>4, <2>1, <2>2, Zenon
<1>5. ASSUME NEW t, NEW node, NEW level, Held(w, t, node, level)
      PROVE  Held(w2, t, node, level) \/ (t = h.slot /\ node = h.node /\ level = h.level)
  <2>1. PICK j \in 1 .. m : w.todo[j].slot = t /\ w.todo[j].node = node /\ w.todo[j].level = level
    BY <1>5 DEF Held
  <2>2. NextIs(w, w2, h, c)
    BY Zenon DEF BuiltIs
  <2>3. c \in Nat /\ m \in Nat \ {0} /\ Len(w2.todo) = c + m - 1 /\ w.todo[1] = h
        /\ \A i \in 1 .. m - 1 : w2.todo[c + i] = w.todo[i + 1]
    BY <2>2, Zenon DEF NextIs
  <2> HIDE DEF c, m
  <2>4. CASE j = 1
    BY <2>1, <2>3, <2>4
  <2>5. CASE j # 1
    <3> DEFINE i == j - 1
               k == c + i
    <3>1. i \in 1 .. m - 1 /\ i + 1 = j /\ k \in 1 .. Len(w2.todo)
      BY <2>3, <2>5
    <3>2. w2.todo[k] = w.todo[j]
      <4> HIDE DEF i
      <4> QED BY <2>3, <3>1
    <3> HIDE DEF k
    <3> QED BY <2>1, <3>1, <3>2, Zenon DEF Held
  <2> QED BY <2>4, <2>5
<1>6. s \in Int /\ D \in Int /\ s + name \in Int /\ s <= s + name
  BY <1>1
<1> QED BY <1>1, <1>3, <1>4, <1>5, <1>6 DEF GoesOn

LEMMA StepHead ==
    ASSUME NEW w, NEW w2, NEW h, BuiltIs(w, w2, h)
    PROVE  HeadBuilt(w2, h)
<1> DEFINE c == Len(Kids(w, h))
           b == w.bpos
           slot == h.slot
           node == h.node
           s == w.spos
           name == node.name
           dir == w2.newdir
           e == dir[slot]
<1>1. /\ NextIs(w, w2, h, c) /\ LinkIs(w, h, dir) /\ name \in Nat /\ slot \in Nat /\ WorkShape(w)
      /\ w2.tree = w.tree /\ w2.spos = s + name
  BY Zenon DEF BuiltIs
<1>2. s \in Nat /\ b \in Nat /\ Dirs(w) <= s /\ Dirs(w2) = Dirs(w)
  BY <1>1 DEF WorkShape, Dirs
<1>3. h.level \in 0 .. 2 /\ c \in Nat
  BY <1>1, Zenon DEF NextIs
<1>4. Settled(w2, slot) /\ Settled(w2, b)
  <2>1. h.level = 2 \/ h.level < 2
    BY <1>3
  <2> QED BY <2>1, StepSettles
<1>5. e = NewEntry(w, h) /\ \A u \in Int : s <= u /\ u < s + name => dir[u] = Unit("name", node.key, u - s)
  BY <1>1, Zenon DEF LinkIs
<1>6. /\ e.kind = "entry" /\ e.at = b
      /\ e.key = IF name = 0 THEN <<"id", node.key>> ELSE <<"name", s>>
  BY <1>5 DEF NewEntry, Unit
<1> HIDE DEF c, b, slot, s, name, dir, e, node
<1>7. EntryIs(w2, slot, node)
  <2>1. name = 0 => e.key = <<"id", node.key>>
    BY <1>6
  <2>2. ASSUME name # 0
        PROVE  /\ e.key[1] = "name" /\ e.key[2] \in Nat
               /\ Dirs(w2) <= e.key[2] /\ e.key[2] + name <= w2.spos
               /\ \A u \in 0 .. name - 1 : dir[e.key[2] + u] = Unit("name", node.key, u)
    <3>1. e.key = <<"name", s>>
      BY <1>6, <2>2
    <3>2. e.key[1] = "name" /\ e.key[2] = s
      BY <3>1
    <3>3. ASSUME NEW u \in 0 .. name - 1 PROVE dir[s + u] = Unit("name", node.key, u)
      <4> DEFINE v == s + u
      <4>1. v \in Int /\ s <= v /\ v < s + name /\ v - s = u
        BY <1>1, <1>2
      <4> HIDE DEF v
      <4>2. dir[v] = Unit("name", node.key, u)
        BY <1>5, <4>1
      <4> QED BY <4>2 DEF v
    <3>4. s \in Nat /\ Dirs(w2) <= s /\ s + name <= w2.spos
      BY <1>1, <1>2
    <3> QED BY <3>2, <3>3, <3>4
  <2> QED BY <1>2, <1>6, <2>1, <2>2 DEF EntryIs, e, dir, name
<1>8. EntryAt(w2, slot, node) /\ w2.newdir[slot].at = b
  BY <1>4, <1>6, <1>7 DEF EntryAt, e, dir
<1>9. ASSUME h.level = 2 PROVE LanguageBuilt(w2, slot, node)
  <2>1. dir[b] = Unit("data", 0, node.sub)
    BY <1>1, <1>9, Zenon DEF LinkIs, b, node
  <2>2. LeafAt(w2, b, node)
    BY <1>4, <2>1 DEF LeafAt, Unit, dir
  <2> QED BY <1>8, <2>2 DEF LanguageBuilt
<1>10. ASSUME h.level < 2
       PROVE  /\ HeadAt(w2, b, node.sub)
              /\ \A k \in 1 .. Len(node.sub) : Held(w2, b + 1 + k, node.sub[k], h.level + 1)
  <2>1. dir[b] = Unit("dir", Len(node.sub), 0)
    BY <1>1, <1>10, Zenon DEF LinkIs, b, node
  <2>2. HeadAt(w2, b, node.sub)
    BY <1>4, <2>1 DEF HeadAt, Unit, dir
  <2>3. c = Len(node.sub) /\ \A j \in 1 .. c : /\ w2.todo[j].slot = b + 1 + j /\ w2.todo[j].node = node.sub[j]
                                               /\ w2.todo[j].level = h.level + 1
    BY <1>1, <1>10, Zenon DEF NextIs, b, node
  <2>4. \A j \in 1 .. c : j \in 1 .. Len(w2.todo)
    <3>1. Len(w2.todo) = c + Len(w.todo) - 1 /\ Len(w.todo) \in Nat \ {0}
      BY <1>1, Zenon DEF NextIs
    <3> QED BY <1>3, <3>1
  <2>5. ASSUME NEW k \in 1 .. Len(node.sub) PROVE Held(w2, b + 1 + k, node.sub[k], h.level + 1)
    BY <2>3, <2>4, Zenon DEF Held
  <2> QED BY <2>2, <2>5
<1>11. ASSUME h.level = 1 PROVE NameBuilt(w2, slot, node)
  <2>1. h.level < 2 /\ h.level + 1 = 2
    BY <1>11
  <2>2. \A k \in 1 .. Len(node.sub) : Held(w2, b + 1 + k, node.sub[k], 2)
    BY <1>10, <2>1
  <2> QED BY <1>8, <1>10, <2>1, <2>2, Zenon DEF NameBuilt, LanguageBuilt
<1>12. ASSUME h.level = 0 PROVE TypeBuilt(w2, slot, node)
  <2>1. h.level < 2 /\ h.level + 1 = 1
    BY <1>12
  <2>2. \A k \in 1 .. Len(node.sub) : Held(w2, b + 1 + k, node.sub[k], 1)
    BY <1>10, <2>1
  <2> QED BY <1>8, <1>10, <2>1, <2>2, Zenon DEF TypeBuilt, NameBuilt
<1> QED BY <1>9, <1>11, <1>12, Zenon DEF HeadBuilt, slot, node

-----------------------------------------------------------------------------
(* The data, and the types they are under                                   *)

\* All data is written, in slots nobody waits for
DataBehind(w) == \A u \in DOMAIN w.newdir : w.newdir[u].kind = "data" => Settled(w, u)

\* The data after a node are those before it and the leaf
DataIs(w, w2, h) ==
    /\ \A u \in DOMAIN w.newdir : w.newdir[u].kind = "data" => w2.newdir[u] = w.newdir[u] /\ u < w.bpos
    /\ \A u \in DOMAIN w.newdir : w2.newdir[u].kind = "data" =>
          w2.newdir[u] = w.newdir[u] \/ (u = w.bpos /\ h.level = 2)
    /\ h.level = 2 => w2.newdir[w.bpos].kind = "data" /\ w2.newdir[w.bpos].at = h.node.sub
    /\ w.bpos \in DOMAIN w.newdir /\ DOMAIN w2.newdir = DOMAIN w.newdir

LEMMA StepData ==
    ASSUME NEW w, NEW w2, NEW h, BuiltIs(w, w2, h), DataBehind(w)
    PROVE  DataBehind(w2) /\ DataIs(w, w2, h)
<1> DEFINE b == w.bpos
           s == w.spos
           E == EndOf(w)
           slot == h.slot
           name == h.node.name
           old == w.newdir
           dir == w2.newdir
<1>1. DOMAIN old = 0 .. E - 1 /\ b \in Nat /\ s \in Nat /\ E \in Nat
  BY DEF BuiltIs, WorkShape
<1>2. LinkIs(w, h, dir) /\ name \in Nat /\ slot \in Nat /\ slot < b
  BY Zenon DEF BuiltIs
<1>3. b < s /\ s + name <= E
  BY Zenon DEF BuiltIs, Roomy
<1>4. /\ DOMAIN dir = 0 .. E - 1
      /\ dir[slot] = NewEntry(w, h)
      /\ \A u \in Int : s <= u /\ u < s + name => dir[u] = Unit("name", h.node.key, u - s)
      /\ h.level < 2 => dir[b] = Unit("dir", Len(h.node.sub), 0)
      /\ h.level = 2 => dir[b] = Unit("data", 0, h.node.sub)
      /\ \A u \in 0 .. E - 1 : u # slot /\ u # b /\ (u < s \/ s + name <= u) => dir[u] = old[u]
  BY <1>2, Zenon DEF LinkIs
<1>5. /\ \A u : Settled(w, u) => Settled(w2, u) /\ dir[u] = old[u]
      /\ Settled(w2, slot) /\ (h.level = 2 \/ h.level < 2 => Settled(w2, b))
  BY StepSettles
<1>6. h.level \in 0 .. 2
  BY Zenon DEF BuiltIs, NextIs
<1> HIDE DEF b, s, E, slot, name, old, dir
<1>7. b \in DOMAIN old
  BY <1>1, <1>3, <1>2
<1>8. ASSUME h.level = 2 PROVE dir[b].kind = "data" /\ dir[b].at = h.node.sub
  BY <1>4, <1>8 DEF Unit
<1>9. ASSUME NEW u \in DOMAIN old, old[u].kind = "data" PROVE dir[u] = old[u] /\ u < b
  <2>1. Settled(w, u)
    BY <1>9 DEF DataBehind, old
  <2>2. u \in 0 .. b - 1
    BY <2>1, Zenon DEF Settled, b
  <2> QED BY <1>1, <1>5, <2>1, <2>2
<1>10. dir[slot].kind = "entry"
  BY <1>4 DEF NewEntry, Unit
<1>11. h.level < 2 => dir[b].kind = "dir"
  BY <1>4 DEF Unit
<1>12. ASSUME NEW u \in DOMAIN old, dir[u].kind = "data" PROVE dir[u] = old[u] \/ (u = b /\ h.level = 2)
  <2>1. u \in 0 .. E - 1 /\ u \in Int
    BY <1>1
  <2>2. u # slot
    BY <1>10, <1>12
  <2>3. CASE s <= u /\ u < s + name
    <3>1. dir[u] = Unit("name", h.node.key, u - s)
      BY <1>4, <2>1, <2>3
    <3>2. dir[u].kind = "name"
      BY <3>1 DEF Unit
    <3> QED BY <1>12, <3>2
  <2>4. CASE u = b
    <3>1. ~(h.level < 2)
      BY <1>11, <1>12, <2>4
    <3> QED BY <1>6, <2>4, <3>1
  <2>5. CASE u # b /\ (u < s \/ s + name <= u)
    BY <1>4, <2>1, <2>2, <2>5, Zenon
  <2> QED BY <1>1, <1>2, <2>1, <2>3, <2>4, <2>5
<1>13. ASSUME NEW u \in DOMAIN dir, dir[u].kind = "data" PROVE Settled(w2, u)
  <2>1. u \in DOMAIN old
    BY <1>1, <1>4
  <2>2. CASE dir[u] = old[u]
    <3>1. Settled(w, u)
      BY <1>13, <2>1, <2>2 DEF DataBehind, old
    <3> QED BY <1>5, <3>1
  <2>3. CASE u = b /\ h.level = 2
    BY <1>5, <2>3
  <2> QED BY <1>12, <1>13, <2>1, <2>2, <2>3
<1>14. DOMAIN dir = DOMAIN old
  BY <1>1, <1>4
<1>15. DataBehind(w2)
  BY <1>13 DEF DataBehind, dir
<1>16. DataIs(w, w2, h)
  BY <1>7, <1>8, <1>9, <1>12, <1>14, Zenon DEF DataIs, b, old, dir
<1> QED BY <1>15, <1>16

\* K types have been begun, and n nodes below the last of them wait
TypesAt(w, K, n) ==
    /\ K \in Nat /\ n \in Nat /\ Len(w.tree) \in Nat /\ K <= Len(w.tree) /\ Len(w.todo) = n + Len(w.tree) - K
    /\ n > 0 => K > 0
    /\ \A j \in 1 .. n : w.todo[j].level > 0 /\ w.todo[j].type = TypeOf(w.tree[K], 0, 0)
    /\ \A k \in K + 1 .. Len(w.tree) :
          /\ w.todo[n + k - K].node = w.tree[k] /\ w.todo[n + k - K].slot = 1 + k /\ w.todo[n + k - K].level = 0
          /\ w.todo[n + k - K].type = TypeOf(w.tree[k], 0, 0)
    /\ \A k \in 1 .. K : Settled(w, 1 + k) /\ w.newdir[1 + k].at \in Nat /\ w.newdir[1 + k].at < w.bpos

\* The types that have been begun stay where they are
TypesStay(w, w2, K) == \A k \in 1 .. K : w2.newdir[1 + k] = w.newdir[1 + k]

LEMMA TypesKept ==
    ASSUME NEW w, NEW w2, NEW h, BuiltIs(w, w2, h), NEW K, NEW n, TypesAt(w, K, n)
    PROVE  /\ TypesStay(w, w2, K)
           /\ \A k \in 1 .. K : Settled(w2, 1 + k) /\ w2.newdir[1 + k].at \in Nat /\ w2.newdir[1 + k].at < w2.bpos
<1>1. \A k \in 1 .. K : Settled(w, 1 + k) /\ w.newdir[1 + k].at \in Nat /\ w.newdir[1 + k].at < w.bpos
  BY Zenon DEF TypesAt
<1>2. w.bpos \in Nat /\ w2.bpos = w.bpos + 2 + Len(Kids(w, h)) /\ Len(Kids(w, h)) \in Nat
  BY Zenon DEF BuiltIs, NextIs
<1>3. \A u : Settled(w, u) => Settled(w2, u) /\ w2.newdir[u] = w.newdir[u]
  BY StepSettles
<1>4. ASSUME NEW k \in 1 .. K
      PROVE  /\ w2.newdir[1 + k] = w.newdir[1 + k]
             /\ Settled(w2, 1 + k) /\ w2.newdir[1 + k].at \in Nat /\ w2.newdir[1 + k].at < w2.bpos
  <2> DEFINE at == w.newdir[1 + k].at
             b == w.bpos
             b2 == w2.bpos
             c == Len(Kids(w, h))
  <2>1. Settled(w2, 1 + k) /\ w2.newdir[1 + k] = w.newdir[1 + k] /\ at \in Nat /\ at < b
    BY <1>1, <1>3, Zenon
  <2>2. b \in Nat /\ b2 = b + 2 + c /\ c \in Nat
    BY <1>2
  <2>3. w2.newdir[1 + k].at = at
    BY <2>1
  <2> HIDE DEF at, b, b2, c
  <2>4. at < b2
    BY <2>1, <2>2
  <2> QED BY <2>1, <2>3, <2>4, Zenon DEF b2
<1> QED BY <1>4, Zenon DEF TypesStay

\* The types after a node below one
LEMMA BelowStep ==
    ASSUME NEW w, NEW w2, NEW h, BuiltIs(w, w2, h), NEW K, NEW n, TypesAt(w, K, n), h.level # 0
    PROVE  \E n2 : TypesAt(w2, K, n2) /\ h.type = TypeOf(w.tree[K], 0, 0) /\ K > 0
<1> DEFINE c == Len(Kids(w, h))
           m == Len(w.todo)
           L == Len(w.tree)
           todo == w.todo
           next == w2.todo
           n2 == n - 1 + c
           type == TypeOf(w.tree[K], 0, 0)
           level == h.level
<1>1. /\ K \in Nat /\ n \in Nat /\ L \in Nat /\ K <= L /\ m = n + L - K /\ (n > 0 => K > 0)
      /\ \A j \in 1 .. n : todo[j].level > 0 /\ todo[j].type = type
      /\ \A k \in K + 1 .. L : todo[n + k - K].node = w.tree[k] /\ todo[n + k - K].slot = 1 + k /\ todo[n + k - K].level = 0
                               /\ todo[n + k - K].type = TypeOf(w.tree[k], 0, 0)
  BY Zenon DEF TypesAt
<1>2. NextIs(w, w2, h, c) /\ w2.tree = w.tree
  BY Zenon DEF BuiltIs
<1>3. /\ c \in Nat /\ m \in Nat \ {0} /\ Len(next) = c + m - 1 /\ todo[1] = h /\ level \in 0 .. 2
      /\ \A j \in 1 .. c : next[j].level = level + 1 /\ next[j].type = h.type
      /\ \A i \in 1 .. m - 1 : next[c + i] = todo[i + 1]
  BY <1>2, Zenon DEF NextIs
<1> HIDE DEF c, m, L, todo, next, type, level
<1>4. n > 0
  <2> SUFFICES ASSUME n = 0 PROVE FALSE
    BY <1>1
  <2> DEFINE k == K + 1
             x == n + k - K
  <2>1. k \in K + 1 .. L /\ x = 1
    BY <1>1, <1>3
  <2>2. todo[x].level = 0
    BY <1>1, <2>1
  <2> HIDE DEF k, x
  <2>3. h.level = 0
    BY <1>3, <2>1, <2>2
  <2> QED BY <2>3
<1>5. h.type = type
  <2>1. 1 \in 1 .. n
    BY <1>1, <1>4
  <2> QED BY <1>1, <1>3, <2>1
<1>6. n2 \in Nat /\ Len(next) = n2 + L - K
  BY <1>1, <1>3, <1>4
<1>7. ASSUME NEW j \in 1 .. n2 PROVE next[j].level > 0 /\ next[j].type = type
  <2>1. CASE j <= c
    <3>1. j \in 1 .. c
      BY <1>3, <1>6, <2>1
    <3>2. next[j].level = level + 1 /\ next[j].type = h.type
      BY <1>3, <3>1
    <3>3. level + 1 > 0
      BY <1>3
    <3> QED BY <1>5, <3>2, <3>3
  <2>2. CASE ~(j <= c)
    <3> DEFINE i == j - c
               x == i + 1
    <3>1. i \in 1 .. m - 1 /\ j = c + i /\ x \in 1 .. n
      BY <1>1, <1>3, <1>4, <1>6, <2>2
    <3>2. next[j] = todo[x]
      <4> HIDE DEF i
      <4> QED BY <1>3, <3>1
    <3> HIDE DEF x
    <3> QED BY <1>1, <3>1, <3>2
  <2> QED BY <2>1, <2>2
<1>8. ASSUME NEW k \in K + 1 .. L
      PROVE  /\ next[n2 + k - K].node = w.tree[k] /\ next[n2 + k - K].slot = 1 + k /\ next[n2 + k - K].level = 0
             /\ next[n2 + k - K].type = TypeOf(w.tree[k], 0, 0)
  <2> DEFINE i == n + k - K - 1
             x == n + k - K
             y == n2 + k - K
  <2>1. i \in 1 .. m - 1 /\ y = c + i /\ i + 1 = x
    BY <1>1, <1>3, <1>4
  <2>2. next[y] = todo[x]
    <3> HIDE DEF i, x, y
    <3> QED BY <1>3, <2>1
  <2>3. /\ todo[x].node = w.tree[k] /\ todo[x].slot = 1 + k /\ todo[x].level = 0
        /\ todo[x].type = TypeOf(w.tree[k], 0, 0)
    BY <1>1
  <2>4. /\ next[y].node = w.tree[k] /\ next[y].slot = 1 + k /\ next[y].level = 0
        /\ next[y].type = TypeOf(w.tree[k], 0, 0)
    <3> HIDE DEF x, y
    <3> QED BY <2>2, <2>3
  <2> QED BY <2>4
<1>9. \A k \in 1 .. K : Settled(w2, 1 + k) /\ w2.newdir[1 + k].at \in Nat /\ w2.newdir[1 + k].at < w2.bpos
  BY TypesKept
<1> HIDE DEF n2
<1>10. TypesAt(w2, K, n2)
  BY <1>1, <1>2, <1>4, <1>6, <1>7, <1>8, <1>9, Zenon DEF TypesAt, L, next, type
<1>11. K > 0
  BY <1>1, <1>4
<1> QED BY <1>5, <1>10, <1>11 DEF type

\* A new type is the next of the tree
LEMMA TypeStep ==
    ASSUME NEW w, NEW w2, NEW h, BuiltIs(w, w2, h), NEW K, NEW n, TypesAt(w, K, n), h.level = 0
    PROVE  \E n2 : TypesAt(w2, K + 1, n2) /\ w2.newdir[2 + K].at = w.bpos
<1> DEFINE c == Len(Kids(w, h))
           m == Len(w.todo)
           L == Len(w.tree)
           todo == w.todo
           next == w2.todo
           Q == K + 1
           type == TypeOf(w.tree[Q], 0, 0)
           b == w.bpos
<1>1. /\ K \in Nat /\ n \in Nat /\ L \in Nat /\ K <= L /\ m = n + L - K /\ (n > 0 => K > 0)
      /\ \A j \in 1 .. n : todo[j].level > 0
      /\ \A k \in K + 1 .. L : todo[n + k - K].node = w.tree[k] /\ todo[n + k - K].slot = 1 + k /\ todo[n + k - K].level = 0
                               /\ todo[n + k - K].type = TypeOf(w.tree[k], 0, 0)
  BY Zenon DEF TypesAt
<1>2. NextIs(w, w2, h, c) /\ w2.tree = w.tree /\ LinkIs(w, h, w2.newdir)
  BY Zenon DEF BuiltIs
<1>3. /\ c \in Nat /\ m \in Nat \ {0} /\ Len(next) = c + m - 1 /\ todo[1] = h /\ b \in Nat /\ w2.bpos = b + 2 + c
      /\ \A j \in 1 .. c : next[j].level = h.level + 1 /\ next[j].type = h.type
      /\ \A i \in 1 .. m - 1 : next[c + i] = todo[i + 1]
  BY <1>2, Zenon DEF NextIs
<1> HIDE DEF c, m, L, todo, next, type, b
<1>4. n = 0
  <2> SUFFICES ASSUME n # 0 PROVE FALSE
    OBVIOUS
  <2>1. 1 \in 1 .. n
    BY <1>1
  <2>2. h.level > 0
    BY <1>1, <1>3, <2>1
  <2> QED BY <2>2
<1>5. Q \in K + 1 .. L /\ Q \in Nat /\ Q <= L /\ Q > 0 /\ Q \in Int
  BY <1>1, <1>3, <1>4
<1>6. h.type = type /\ h.slot = 1 + Q
  <2> DEFINE x == n + Q - K
  <2>1. x = 1
    BY <1>1, <1>4
  <2>2. todo[x].slot = 1 + Q /\ todo[x].type = type
    <3> HIDE DEF Q
    <3> QED BY <1>1, <1>5 DEF type
  <2> HIDE DEF x
  <2> QED BY <1>3, <2>1, <2>2
<1>7. Len(next) = c + L - Q
  BY <1>1, <1>3, <1>4
<1>8. ASSUME NEW j \in 1 .. c PROVE next[j].level > 0 /\ next[j].type = type
  BY <1>3, <1>6
<1>9. ASSUME NEW k \in Q + 1 .. L
      PROVE  /\ next[c + k - Q].node = w.tree[k] /\ next[c + k - Q].slot = 1 + k /\ next[c + k - Q].level = 0
             /\ next[c + k - Q].type = TypeOf(w.tree[k], 0, 0)
  <2> DEFINE i == k - Q
             x == n + k - K
             y == c + k - Q
  <2>1. i \in 1 .. m - 1 /\ y = c + i /\ i + 1 = x /\ k \in K + 1 .. L
    BY <1>1, <1>3, <1>4, <1>5
  <2>2. next[y] = todo[x]
    <3> HIDE DEF i, x, y
    <3> QED BY <1>3, <2>1
  <2>3. /\ todo[x].node = w.tree[k] /\ todo[x].slot = 1 + k /\ todo[x].level = 0
        /\ todo[x].type = TypeOf(w.tree[k], 0, 0)
    BY <1>1, <2>1
  <2>4. /\ next[y].node = w.tree[k] /\ next[y].slot = 1 + k /\ next[y].level = 0
        /\ next[y].type = TypeOf(w.tree[k], 0, 0)
    <3> HIDE DEF x, y
    <3> QED BY <2>2, <2>3
  <2> QED BY <2>4
<1>10. \A k \in 1 .. K : Settled(w2, 1 + k) /\ w2.newdir[1 + k].at \in Nat /\ w2.newdir[1 + k].at < w2.bpos
  BY TypesKept
<1>11. Settled(w2, 1 + Q) /\ w2.newdir[1 + Q].at = b
  <2> HIDE DEF Q
  <2>1. Settled(w2, h.slot)
    BY StepSettles
  <2>2. w2.newdir[h.slot] = NewEntry(w, h)
    BY <1>2, Zenon DEF LinkIs
  <2>3. w2.newdir[h.slot].at = b
    BY <2>2 DEF NewEntry, Unit, b
  <2> QED BY <1>6, <2>1, <2>3
<1>12. b < w2.bpos
  BY <1>3
<1>13. ASSUME NEW k \in 1 .. Q PROVE Settled(w2, 1 + k) /\ w2.newdir[1 + k].at \in Nat /\ w2.newdir[1 + k].at < w2.bpos
  <2>1. CASE k = Q
    BY <1>3, <1>11, <1>12, <2>1
  <2>2. CASE k # Q
    <3>1. k \in 1 .. K
      BY <1>1, <2>2
    <3> QED BY <1>10, <3>1
  <2> QED BY <2>1, <2>2
<1>14. 1 + Q = 2 + K
  BY <1>1
<1> HIDE DEF Q
<1>15. TypesAt(w2, Q, c)
  <2>1. c \in Nat /\ L \in Nat /\ w2.tree = w.tree /\ Q \in Nat /\ Q <= L /\ Q > 0
    BY <1>1, <1>2, <1>3, <1>5
  <2> QED BY <1>7, <1>8, <1>9, <1>13, <2>1, Zenon DEF TypesAt, L, next, type
<1>16. w2.newdir[2 + K].at = w.bpos
  BY <1>11, <1>14 DEF b
<1> QED BY <1>15, <1>16 DEF Q

-----------------------------------------------------------------------------
(* The icons that were moved, and the one whose count is patched            *)

\* A unit is under a group of icons
UnderIcon(w, K, u) ==
    \E k \in 1 .. K : /\ w.tree[k].name = 0 /\ w.tree[k].key = GroupIcon
                      /\ w.newdir[1 + k].at < u /\ (k < K => u < w.newdir[2 + k].at)

LEMMA IconsAre ==
    ASSUME NEW w, NEW K, NEW u
    PROVE  u \in IconUnits(w, K) <=>
              u \in DOMAIN w.newdir /\ w.newdir[u].kind = "data" /\ w.newdir[u].at = "moved" /\ UnderIcon(w, K, u)
  BY Zenon DEF IconUnits, UnderIcon

\* A node below a type leaves the others as they were
LEMMA UnderSame ==
    ASSUME NEW w, NEW w2, NEW K \in Nat, TypesStay(w, w2, K), w2.tree = w.tree, NEW u
    PROVE  UnderIcon(w2, K, u) <=> UnderIcon(w, K, u)
<1>1. ASSUME NEW k \in 1 .. K PROVE w2.newdir[1 + k] = w.newdir[1 + k]
  BY DEF TypesStay
<1>2. ASSUME NEW k \in 1 .. K, k < K PROVE w2.newdir[2 + k] = w.newdir[2 + k]
  <2> DEFINE x == k + 1
  <2>1. x \in 1 .. K /\ 1 + x = 2 + k
    BY <1>2
  <2> HIDE DEF x
  <2> QED BY <1>1, <2>1
<1> QED BY <1>1, <1>2, Zenon DEF UnderIcon

\* A new type has nothing below it yet
LEMMA UnderNext ==
    ASSUME NEW w, NEW w2, NEW K \in Nat, TypesStay(w, w2, K), w2.tree = w.tree, NEW u \in Int,
           NEW b \in Int, w2.newdir[2 + K].at = b, u < b
    PROVE  UnderIcon(w2, K + 1, u) <=> UnderIcon(w, K, u)
<1>1. ASSUME NEW k \in 1 .. K PROVE w2.newdir[1 + k] = w.newdir[1 + k]
  BY DEF TypesStay
<1>2. ASSUME NEW k \in 1 .. K, k < K PROVE w2.newdir[2 + k] = w.newdir[2 + k]
  <2> DEFINE x == k + 1
  <2>1. x \in 1 .. K /\ 1 + x = 2 + k
    BY <1>2
  <2> HIDE DEF x
  <2> QED BY <1>1, <2>1
<1> DEFINE Q == K + 1
<1>3. 1 + Q = 2 + K /\ \A k \in 1 .. K : k < Q /\ k \in 1 .. Q /\ (k < K \/ k = K)
  OBVIOUS
<1>4. \A k \in 1 .. Q : k = Q \/ k \in 1 .. K
  OBVIOUS
<1>5. ~(b < u)
  OBVIOUS
<1> HIDE DEF Q
<1>6. ASSUME UnderIcon(w2, Q, u) PROVE UnderIcon(w, K, u)
  <2>1. PICK k \in 1 .. Q : /\ w2.tree[k].name = 0 /\ w2.tree[k].key = GroupIcon
                            /\ w2.newdir[1 + k].at < u /\ (k < Q => u < w2.newdir[2 + k].at)
    BY <1>6, Zenon DEF UnderIcon
  <2>2. k # Q
    <3>1. ASSUME k = Q PROVE FALSE
      <4>1. w2.newdir[1 + k].at = b
        BY <1>3, <3>1
      <4> QED BY <1>5, <2>1, <4>1
    <3> QED BY <3>1
  <2>3. k \in 1 .. K
    BY <1>4, <2>2
  <2> QED BY <1>1, <1>2, <1>3, <2>1, <2>3, Zenon DEF UnderIcon
<1>7. ASSUME UnderIcon(w, K, u) PROVE UnderIcon(w2, Q, u)
  <2>1. PICK k \in 1 .. K : /\ w.tree[k].name = 0 /\ w.tree[k].key = GroupIcon
                            /\ w.newdir[1 + k].at < u /\ (k < K => u < w.newdir[2 + k].at)
    BY <1>7, Zenon DEF UnderIcon
  <2>2. u < w2.newdir[2 + k].at
    <3>1. CASE k < K
      BY <1>2, <2>1, <3>1
    <3>2. CASE k = K
      BY <3>2
    <3> QED BY <1>3, <3>1, <3>2
  <2> QED BY <1>1, <1>3, <2>1, <2>2, Zenon DEF UnderIcon
<1> QED BY <1>6, <1>7 DEF Q

\* The icons are behind what is built next
LEMMA IconsBehind ==
    ASSUME NEW w, WorkShape(w), DataBehind(w), NEW K, NEW u \in IconUnits(w, K)
    PROVE  u \in Int /\ u < w.bpos /\ w.newdir[u].kind = "data"
<1>1. u \in DOMAIN w.newdir /\ w.newdir[u].kind = "data"
  BY IconsAre
<1>2. Settled(w, u)
  BY <1>1 DEF DataBehind
<1>3. u \in 0 .. w.bpos - 1 /\ w.bpos \in Nat
  BY <1>2, Zenon DEF Settled, WorkShape
<1> QED BY <1>1, <1>3

LEMMA IconsSame ==
    ASSUME NEW w, NEW w2, NEW h, BuiltIs(w, w2, h), DataBehind(w), h.level # 2, NEW K, NEW K2,
           NEW n, TypesAt(w, K, n),
           K2 = K \/ (K2 = K + 1 /\ w2.newdir[2 + K].at = w.bpos)
    PROVE  IconUnits(w2, K2) = IconUnits(w, K)
<1>1. DataIs(w, w2, h)
  BY StepData
<1>2. TypesStay(w, w2, K)
  BY TypesKept
<1>3. w2.tree = w.tree /\ WorkShape(w)
  BY Zenon DEF BuiltIs
<1>4. K \in Nat
  BY Zenon DEF TypesAt
<1>5. w.bpos \in Nat
  BY <1>3 DEF WorkShape
<1>6. ASSUME NEW u \in Int, u < w.bpos PROVE UnderIcon(w2, K2, u) <=> UnderIcon(w, K, u)
  <2>1. CASE K2 = K
    BY <1>2, <1>3, <1>4, <2>1, UnderSame, Zenon
  <2>2. CASE K2 = K + 1 /\ w2.newdir[2 + K].at = w.bpos
    <3>1. w.bpos \in Int
      BY <1>5
    <3>2. UnderIcon(w2, K + 1, u) <=> UnderIcon(w, K, u)
      BY <1>2, <1>3, <1>4, <1>6, <2>2, <3>1, UnderNext, Zenon
    <3> QED BY <2>2, <3>2
  <2> QED BY <2>1, <2>2
<1>7. DOMAIN w.newdir = 0 .. EndOf(w) - 1 /\ DOMAIN w2.newdir = DOMAIN w.newdir /\ \A u \in DOMAIN w.newdir : u \in Int
  <2>1. DOMAIN w.newdir = 0 .. EndOf(w) - 1
    BY <1>3 DEF WorkShape
  <2> QED BY <1>1, <2>1 DEF DataIs
<1>8. ASSUME NEW u \in IconUnits(w, K) PROVE u \in IconUnits(w2, K2)
  <2>1. u \in DOMAIN w.newdir /\ w.newdir[u].kind = "data" /\ w.newdir[u].at = "moved" /\ UnderIcon(w, K, u)
    BY IconsAre
  <2>2. w2.newdir[u] = w.newdir[u] /\ u < w.bpos
    BY <1>1, <2>1 DEF DataIs
  <2>3. UnderIcon(w2, K2, u)
    BY <1>6, <1>7, <2>1, <2>2, Zenon
  <2> QED BY <1>7, <2>1, <2>2, <2>3, IconsAre, Zenon
<1>9. ASSUME NEW u \in IconUnits(w2, K2) PROVE u \in IconUnits(w, K)
  <2>1. u \in DOMAIN w2.newdir /\ w2.newdir[u].kind = "data" /\ w2.newdir[u].at = "moved" /\ UnderIcon(w2, K2, u)
    BY IconsAre
  <2>2. w2.newdir[u] = w.newdir[u] /\ u \in DOMAIN w.newdir
    BY <1>1, <1>7, <2>1 DEF DataIs
  <2>3. u < w.bpos
    BY <1>1, <2>1, <2>2 DEF DataIs
  <2>4. UnderIcon(w, K, u)
    BY <1>6, <1>7, <2>1, <2>2, <2>3, Zenon
  <2> QED BY <2>1, <2>2, <2>4, IconsAre, Zenon
<1> QED BY <1>8, <1>9

\* A leaf that was moved is an icon when its type is the groups of icons
LEMMA IconsGrow ==
    ASSUME NEW w, NEW w2, NEW h, BuiltIs(w, w2, h), DataBehind(w), h.level = 2, NEW K,
           NEW n, TypesAt(w, K, n), K > 0, h.type = TypeOf(w.tree[K], 0, 0)
    PROVE  /\ \A u \in IconUnits(w, K) : u \in IconUnits(w2, K)
           /\ \A u \in IconUnits(w2, K) : u \in IconUnits(w, K) \/ u = w.bpos
           /\ w.bpos \in IconUnits(w2, K) <=> h.node.sub = "moved" /\ h.type = GroupIcon
<1>1. DataIs(w, w2, h)
  BY StepData
<1>2. TypesStay(w, w2, K)
  BY TypesKept
<1>3. w2.tree = w.tree /\ WorkShape(w)
  BY Zenon DEF BuiltIs
<1>4. K \in Nat /\ \A k \in 1 .. K : w.newdir[1 + k].at \in Nat /\ w.newdir[1 + k].at < w.bpos
  BY Zenon DEF TypesAt
<1>5. w.bpos \in Nat
  BY <1>3 DEF WorkShape
<1>6. \A u : UnderIcon(w2, K, u) <=> UnderIcon(w, K, u)
  BY <1>2, <1>3, <1>4, UnderSame, Zenon
<1>7. DOMAIN w2.newdir = DOMAIN w.newdir
  BY <1>1 DEF DataIs
<1>8. ASSUME NEW u \in IconUnits(w, K) PROVE u \in IconUnits(w2, K)
  <2>1. u \in DOMAIN w.newdir /\ w.newdir[u].kind = "data" /\ w.newdir[u].at = "moved" /\ UnderIcon(w, K, u)
    BY IconsAre
  <2>2. w2.newdir[u] = w.newdir[u] /\ u < w.bpos
    BY <1>1, <2>1 DEF DataIs
  <2> QED BY <1>6, <1>7, <2>1, <2>2, IconsAre, Zenon
<1>9. ASSUME NEW u \in IconUnits(w2, K) PROVE u \in IconUnits(w, K) \/ u = w.bpos
  <2>1. u \in DOMAIN w2.newdir /\ w2.newdir[u].kind = "data" /\ w2.newdir[u].at = "moved" /\ UnderIcon(w2, K, u)
    BY IconsAre
  <2>2. w2.newdir[u] = w.newdir[u] \/ u = w.bpos
    BY <1>1, <1>7, <2>1 DEF DataIs
  <2> QED BY <1>6, <1>7, <2>1, <2>2, IconsAre, Zenon
<1>10. UnderIcon(w, K, w.bpos) <=> h.type = GroupIcon
  <2> DEFINE b == w.bpos
  <2>1. h.type = IF w.tree[K].name = 0 THEN w.tree[K].key ELSE 0
    BY DEF TypeOf
  <2>2. GroupIcon # 0
    BY DEF GroupIcon
  <2>3. K \in 1 .. K /\ ~(K < K)
    BY <1>4
  <2>4. ASSUME h.type = GroupIcon PROVE UnderIcon(w, K, b)
    <3>1. w.tree[K].name = 0 /\ w.tree[K].key = GroupIcon
      BY <2>1, <2>2, <2>4
    <3>2. w.newdir[1 + K].at < b
      BY <1>4, <2>3
    <3> QED BY <2>3, <3>1, <3>2, Zenon DEF UnderIcon
  <2>5. ASSUME UnderIcon(w, K, b) PROVE h.type = GroupIcon
    <3>1. PICK k \in 1 .. K : w.tree[k].name = 0 /\ w.tree[k].key = GroupIcon /\ (k < K => b < w.newdir[2 + k].at)
      BY <2>5, Zenon DEF UnderIcon
    <3>2. ASSUME k < K PROVE FALSE
      <4> DEFINE x == k + 1
                 at == w.newdir[1 + x].at
      <4>1. x \in 1 .. K /\ 1 + x = 2 + k
        BY <1>4, <3>2
      <4>2. b < at
        BY <3>1, <3>2, <4>1
      <4> HIDE DEF x
      <4>3. at \in Nat /\ at < b
        BY <1>4, <4>1
      <4> HIDE DEF at
      <4> QED BY <1>5, <4>2, <4>3
    <3>3. k = K
      BY <1>4, <3>2
    <3> QED BY <2>1, <3>1, <3>3
  <2> QED BY <2>4, <2>5
<1>11. w.bpos \in DOMAIN w2.newdir /\ w2.newdir[w.bpos].kind = "data" /\ w2.newdir[w.bpos].at = h.node.sub
  BY <1>1 DEF DataIs
<1>12. w.bpos \in IconUnits(w2, K) <=> h.node.sub = "moved" /\ h.type = GroupIcon
  <2>1. w.bpos \in IconUnits(w2, K) <=> w2.newdir[w.bpos].at = "moved" /\ UnderIcon(w2, K, w.bpos)
    BY <1>11, IconsAre
  <2> QED BY <1>6, <1>10, <1>11, <2>1
<1> QED BY <1>8, <1>9, <1>12

\* Nothing has been patched, or the first icon that was moved
Patches(w, K) ==
    \/ (w.counted = 0 \/ IconUnits(w, K) = {}) /\ w.patched = <<>> /\ w.icons = w.counted
    \/ /\ w.counted # 0 /\ w.icons = 0
       /\ \E p \in IconUnits(w, K) : w.patched = <<p>> /\ \A u \in IconUnits(w, K) : p <= u

PatchesNow(w, h) == h.level = 2 /\ h.node.sub = "moved" /\ w.icons # 0 /\ h.type = GroupIcon

PatchStep(w, w2, h) ==
    /\ w2.counted = w.counted
    /\ PatchesNow(w, h) => w2.patched = Append(w.patched, w.bpos) /\ w2.icons = 0
    /\ ~PatchesNow(w, h) => w2.patched = w.patched /\ w2.icons = w.icons

LEMMA PatchesStay ==
    ASSUME NEW w, NEW w2, NEW h, PatchStep(w, w2, h), NEW K, NEW K2, IconUnits(w2, K2) = IconUnits(w, K),
           ~PatchesNow(w, h), Patches(w, K)
    PROVE  Patches(w2, K2)
<1>1. w2.counted = w.counted /\ w2.patched = w.patched /\ w2.icons = w.icons
  BY DEF PatchStep
<1> QED BY <1>1, Zenon DEF Patches

LEMMA PatchesGrow ==
    ASSUME NEW w, NEW w2, NEW h, PatchStep(w, w2, h), NEW K, h.level = 2, Patches(w, K),
           w.bpos \in Int,
           \A u \in IconUnits(w, K) : u \in Int /\ u < w.bpos,
           \A u \in IconUnits(w, K) : u \in IconUnits(w2, K),
           \A u \in IconUnits(w2, K) : u \in IconUnits(w, K) \/ u = w.bpos,
           w.bpos \in IconUnits(w2, K) <=> h.node.sub = "moved" /\ h.type = GroupIcon
    PROVE  Patches(w2, K)
<1> DEFINE A == IconUnits(w, K)
           B == IconUnits(w2, K)
           b == w.bpos
<1>1. /\ \A u \in A : u \in Int /\ u < b
      /\ \A u \in A : u \in B
      /\ \A u \in B : u \in A \/ u = b
      /\ b \in B <=> h.node.sub = "moved" /\ h.type = GroupIcon
      /\ b \in Int
  OBVIOUS
<1>2. CASE (w.counted = 0 \/ A = {}) /\ w.patched = <<>> /\ w.icons = w.counted
  <2> HIDE DEF A, B, b
  <2>1. CASE PatchesNow(w, h)
    <3>1. w2.counted = w.counted /\ w2.patched = Append(<<>>, b) /\ w2.icons = 0
      BY <1>2, <2>1 DEF PatchStep, b
    <3>2. w.counted # 0 /\ A = {} /\ b \in B
      BY <1>1, <1>2, <2>1 DEF PatchesNow
    <3>3. Append(<<>>, b) = <<b>>
      OBVIOUS
    <3>4. \A u \in B : b <= u
      BY <1>1, <3>2
    <3> QED BY <3>1, <3>2, <3>3, <3>4, Zenon DEF Patches, B
  <2>2. CASE ~PatchesNow(w, h)
    <3>1. w2.counted = w.counted /\ w2.patched = w.patched /\ w2.icons = w.icons
      BY <2>2 DEF PatchStep
    <3>2. w2.counted = 0 \/ B = {}
      <4>1. CASE w.counted = 0
        BY <3>1, <4>1
      <4>2. CASE w.counted # 0
        <5>1. A = {} /\ w.icons # 0
          BY <1>2, <4>2
        <5>2. b \notin B
          BY <1>1, <2>2, <5>1, Zenon DEF PatchesNow
        <5> QED BY <1>1, <5>1, <5>2
      <4> QED BY <4>1, <4>2
    <3> QED BY <1>2, <3>1, <3>2, Zenon DEF Patches, B
  <2> QED BY <2>1, <2>2
<1>3. CASE w.counted # 0 /\ w.icons = 0 /\ \E p \in A : w.patched = <<p>> /\ \A u \in A : p <= u
  <2> HIDE DEF A, B, b
  <2>1. ~PatchesNow(w, h)
    BY <1>3 DEF PatchesNow
  <2>2. w2.counted = w.counted /\ w2.patched = w.patched /\ w2.icons = w.icons
    BY <2>1 DEF PatchStep
  <2>3. PICK p \in A : w.patched = <<p>> /\ \A u \in A : p <= u
    BY <1>3
  <2>4. \A u \in B : p <= u
    BY <1>1, <2>3
  <2>5. p \in B
    BY <1>1
  <2> QED BY <1>3, <2>2, <2>3, <2>4, <2>5, Zenon DEF Patches, B
<1> QED BY <1>2, <1>3, Zenon DEF Patches

\* The walk as far as it has come
TreeIs(w) ==
    /\ WorkShape(w) /\ TreeBuilt(w) /\ DataBehind(w)
    /\ \E K, n : TypesAt(w, K, n) /\ Patches(w, K)

LEMMA TreeStep ==
    ASSUME NEW w, TreeIs(w), NEW w2, NEW h, Builds(w, w2, h), PatchStep(w, w2, h)
    PROVE  TreeIs(w2)
<1>1. WorkShape(w) /\ TreeBuilt(w) /\ DataBehind(w)
  BY DEF TreeIs
<1>2. BuiltIs(w, w2, h)
  BY <1>1, BuildsAll
<1>3. WorkShape(w2)
  BY <1>2, StepShape
<1>4. TreeBuilt(w2)
  <2>1. w.tree \in Seq(TypeNodes)
    BY <1>1 DEF WorkShape
  <2>2. GoesOn(w, w2, h) /\ HeadBuilt(w2, h)
    BY <1>2, StepGoesOn, StepHead
  <2> QED BY <1>1, <2>1, <2>2, TreeStays
<1>5. DataBehind(w2)
  BY <1>1, <1>2, StepData
<1>6. PICK K, n : TypesAt(w, K, n) /\ Patches(w, K)
  BY DEF TreeIs
<1>7. h.level \in 0 .. 2
  BY <1>2, Zenon DEF BuiltIs, NextIs
<1>8. CASE h.level = 0
  <2>1. PICK n2 : TypesAt(w2, K + 1, n2) /\ w2.newdir[2 + K].at = w.bpos
    BY <1>2, <1>6, <1>8, TypeStep
  <2>2. h.level # 2
    BY <1>8
  <2>3. IconUnits(w2, K + 1) = IconUnits(w, K)
    BY <1>1, <1>2, <1>6, <2>1, <2>2, IconsSame
  <2>4. ~PatchesNow(w, h)
    BY <2>2 DEF PatchesNow
  <2>5. Patches(w2, K + 1)
    BY <1>6, <2>3, <2>4, PatchesStay
  <2> QED BY <1>3, <1>4, <1>5, <2>1, <2>5, Zenon DEF TreeIs
<1>9. CASE h.level # 0
  <2>1. PICK n2 : TypesAt(w2, K, n2) /\ h.type = TypeOf(w.tree[K], 0, 0) /\ K > 0
    BY <1>2, <1>6, <1>9, BelowStep
  <2>2. CASE h.level = 2
    <3>1. /\ \A u \in IconUnits(w, K) : u \in IconUnits(w2, K)
          /\ \A u \in IconUnits(w2, K) : u \in IconUnits(w, K) \/ u = w.bpos
          /\ w.bpos \in IconUnits(w2, K) <=> h.node.sub = "moved" /\ h.type = GroupIcon
      BY <1>1, <1>2, <1>6, <2>1, <2>2, IconsGrow
    <3>2. \A u \in IconUnits(w, K) : u \in Int /\ u < w.bpos
      BY <1>1, IconsBehind
    <3>3. w.bpos \in Int
      BY <1>1 DEF WorkShape
    <3>4. Patches(w2, K)
      BY <1>6, <2>2, <3>1, <3>2, <3>3, PatchesGrow
    <3> QED BY <1>3, <1>4, <1>5, <2>1, <3>4, Zenon DEF TreeIs
  <2>3. CASE h.level # 2
    <3>1. IconUnits(w2, K) = IconUnits(w, K)
      BY <1>1, <1>2, <1>6, <2>3, IconsSame
    <3>2. ~PatchesNow(w, h)
      BY <2>3 DEF PatchesNow
    <3>3. Patches(w2, K)
      BY <1>6, <3>1, <3>2, PatchesStay
    <3> QED BY <1>3, <1>4, <1>5, <2>1, <3>3, Zenon DEF TreeIs
  <2> QED BY <2>2, <2>3
<1> QED BY <1>8, <1>9

\* With nothing left to build the icons are those of the whole tree
LEMMA TreeEnds ==
    ASSUME NEW w, TreeIs(w), w.todo = <<>>
    PROVE  /\ TreeRead(w.newdir, 0, w.tree) /\ DOMAIN w.tree = 1 .. Len(w.tree)
           /\ w.patched = IF w.counted = 0 \/ IconUnits(w, Len(w.tree)) = {} THEN <<>>
                          ELSE <<Min(IconUnits(w, Len(w.tree)))>>
<1>1. WorkShape(w) /\ TreeBuilt(w) /\ DataBehind(w) /\ w.tree \in Seq(TypeNodes)
  BY DEF TreeIs, WorkShape
<1>2. TreeRead(w.newdir, 0, w.tree) /\ DOMAIN w.tree = 1 .. Len(w.tree)
  BY <1>1, TreeReads
<1>3. PICK K, n : TypesAt(w, K, n) /\ Patches(w, K)
  BY DEF TreeIs
<1> DEFINE L == Len(w.tree)
           m == Len(w.todo)
<1>4. K = L
  <2>1. K \in Nat /\ n \in Nat /\ L \in Nat /\ K <= L /\ m = n + L - K
    BY <1>3, Zenon DEF TypesAt
  <2>2. m = 0
    OBVIOUS
  <2> HIDE DEF L, m
  <2> QED BY <2>1, <2>2
<1> DEFINE S == IconUnits(w, L)
<1>5. Patches(w, L)
  BY <1>3, <1>4
<1>6. \A u \in S : u \in Int
  BY <1>1, IconsBehind
<1> HIDE DEF L, S
<1>7. ASSUME NEW p \in S, \A u \in S : p <= u PROVE Min(S) = p
  <2>1. \E x \in S : \A y \in S : x <= y
    BY <1>7
  <2>2. Min(S) \in S /\ \A u \in S : Min(S) <= u
    BY <2>1 DEF Min
  <2> DEFINE q == Min(S)
  <2>3. q \in Int /\ p \in Int /\ q <= p /\ p <= q
    BY <1>6, <1>7, <2>2
  <2> HIDE DEF q
  <2>4. q = p
    BY <2>3
  <2> QED BY <2>4 DEF q
<1>8. \/ (w.counted = 0 \/ S = {}) /\ w.patched = <<>>
      \/ w.counted # 0 /\ \E p \in S : w.patched = <<p>> /\ \A u \in S : p <= u
  BY <1>5, Zenon DEF Patches, S
<1>9. w.patched = IF w.counted = 0 \/ S = {} THEN <<>> ELSE <<Min(S)>>
  <2>1. CASE (w.counted = 0 \/ S = {}) /\ w.patched = <<>>
    BY <2>1
  <2>2. CASE w.counted # 0 /\ \E p \in S : w.patched = <<p>> /\ \A u \in S : p <= u
    BY <1>7, <2>2
  <2> QED BY <1>8, <2>1, <2>2
<1> QED BY <1>2, <1>9 DEF L, S

-----------------------------------------------------------------------------
(* The invariant of the resources                                           *)

WorkFields == {"tree", "todo", "counted", "icons", "patched", "moved", "bpos", "spos", "newdir"}

TreeInv == phase = "tree" => TreeIs(work) /\ DOMAIN work = WorkFields

LEMMA TreesAre == ASSUME NEW tree \in Trees PROVE tree \in Seq(TypeNodes)
  BY TreeAssumption DEF TypeNodes, NameNodes, Leaves

LEMMA FirstPending ==
    ASSUME NEW tree \in Seq(TypeNodes), tree # <<>>
    PROVE  /\ Pending(tree, 2, 0, 0) \in Seq(Tasks)
           /\ Len(Pending(tree, 2, 0, 0)) = Len(tree) /\ Len(tree) \in Nat \ {0}
           /\ \A k \in 1 .. Len(tree) :
                 /\ Pending(tree, 2, 0, 0)[k].node = tree[k] /\ Pending(tree, 2, 0, 0)[k].slot = 1 + k
                 /\ Pending(tree, 2, 0, 0)[k].level = 0
                 /\ Pending(tree, 2, 0, 0)[k].type = TypeOf(tree[k], 0, 0)
           /\ DirUnits(tree).dirs = 2 + Len(tree) + Left(TRUE, Pending(tree, 2, 0, 0))
           /\ DirUnits(tree).names = Left(FALSE, Pending(tree, 2, 0, 0))
           /\ Left(TRUE, Pending(tree, 2, 0, 0)) \in Nat /\ Left(FALSE, Pending(tree, 2, 0, 0)) \in Nat
<1> DEFINE p == Pending(tree, 2, 0, 0)
           L == Len(tree)
<1>1. 0 \in 0 .. 2 /\ 2 \in Nat /\ 0 \in Nat /\ L \in Nat \ {0} /\ DOMAIN tree = 1 .. L
  OBVIOUS
<1>2. tree \in Seq(NodesOf(0))
  BY DEF NodesOf
<1>3. /\ p \in Seq(Tasks) /\ Len(p) = L
      /\ \A k \in 1 .. L : p[k].node = tree[k] /\ p[k].slot = 2 + k - 1 /\ p[k].level = 0
                           /\ p[k].type = TypeOf(tree[k], 0, 0)
  <2> HIDE DEF NodesOf, Tasks
  <2> QED BY <1>1, <1>2, PendingIs
<1>4. \A k \in 1 .. L : 2 + k - 1 = 1 + k
  BY <1>1
<1> DEFINE f == [k \in DOMAIN tree |-> NameDir(tree[k])]
           g == [k \in DOMAIN tree |-> NamesOfType(tree[k])]
<1>5. f \in [1 .. L -> Nat] /\ g \in [1 .. L -> Nat]
  <2>1. ASSUME NEW k \in 1 .. L PROVE NameDir(tree[k]) \in Nat /\ NamesOfType(tree[k]) \in Nat
    <3>1. tree[k] \in TypeNodes
      OBVIOUS
    <3> QED BY <3>1, TypeUnits
  <2> QED BY <1>1, <2>1
<1>6. Left(TRUE, p) = Total(f) /\ Left(FALSE, p) = Total(g)
  <2>1. TRUE \in BOOLEAN /\ FALSE \in BOOLEAN
    OBVIOUS
  <2>2. Left(TRUE, p) = Total([k \in DOMAIN tree |-> UnitsOf(TRUE, tree[k], 0)])
    <3> HIDE DEF NodesOf
    <3> QED BY <1>1, <1>2, <2>1, LeftPending
  <2>3. Left(FALSE, p) = Total([k \in DOMAIN tree |-> UnitsOf(FALSE, tree[k], 0)])
    <3> HIDE DEF NodesOf
    <3> QED BY <1>1, <1>2, <2>1, LeftPending
  <2>4. [k \in DOMAIN tree |-> UnitsOf(TRUE, tree[k], 0)] = f
    BY DEF UnitsOf
  <2>5. [k \in DOMAIN tree |-> UnitsOf(FALSE, tree[k], 0)] = g
    BY DEF UnitsOf
  <2> QED BY <2>2, <2>3, <2>4, <2>5
<1>7. DirUnits(tree).dirs = DirOf(tree, f) /\ DirUnits(tree).names = Total(g)
  BY DEF DirUnits
<1> HIDE DEF f, g, p, L
<1>8. DirOf(tree, f) = 2 + L + Total(f) /\ Total(f) \in Nat
  BY <1>5, DirOfIs DEF L
<1>9. Total(g) \in Nat
  BY <1>1, <1>5, TotalNat
<1>10. DirUnits(tree).dirs = 2 + L + Left(TRUE, p) /\ DirUnits(tree).names = Left(FALSE, p)
       /\ Left(TRUE, p) \in Nat /\ Left(FALSE, p) \in Nat
  BY <1>6, <1>7, <1>8, <1>9
<1>11. \A k \in 1 .. L : p[k].node = tree[k] /\ p[k].slot = 1 + k /\ p[k].level = 0
                         /\ p[k].type = TypeOf(tree[k], 0, 0)
  BY <1>3, <1>4
<1> QED BY <1>1, <1>3, <1>10, <1>11, Zenon DEF p, L

LEMMA TreeBegins ==
    ASSUME NEW tree \in Seq(TypeNodes), tree # <<>>, NEW icons \in {0, 1}
    PROVE  TreeIs(TreeWork(tree, icons)) /\ DOMAIN TreeWork(tree, icons) = WorkFields
<1> DEFINE w == TreeWork(tree, icons)
           p == Pending(tree, 2, 0, 0)
           L == Len(tree)
           size == DirUnits(tree)
           lt == Left(TRUE, p)
           lf == Left(FALSE, p)
<1>1. /\ w.tree = tree /\ w.todo = p /\ w.counted = icons /\ w.icons = icons /\ w.patched = <<>>
      /\ w.bpos = 2 + L /\ w.spos = size.dirs
      /\ w.newdir = [u \in 0 .. size.dirs + size.names - 1 |->
                        IF u = 0 THEN Unit("dir", L, 0) ELSE Unit("none", 0, 0)]
      /\ DOMAIN w = WorkFields
  BY DEF TreeWork, WorkFields
<1> HIDE DEF w
<1>2. /\ p \in Seq(Tasks) /\ Len(p) = L /\ L \in Nat \ {0}
      /\ \A k \in 1 .. L : p[k].node = tree[k] /\ p[k].slot = 1 + k /\ p[k].level = 0
                           /\ p[k].type = TypeOf(tree[k], 0, 0)
      /\ size.dirs = 2 + L + lt /\ size.names = lf /\ lt \in Nat /\ lf \in Nat
  BY FirstPending, Zenon
<1> DEFINE D == size.dirs
           N == size.names
<1>3. Dirs(w) = D /\ EndOf(w) = D + N
  BY <1>1 DEF Dirs, EndOf
<1> HIDE DEF p, L, size, lt, lf, D, N
<1>4. /\ D = 2 + L + lt /\ N = lf /\ L \in Nat \ {0} /\ lt \in Nat /\ lf \in Nat
      /\ w.bpos = 2 + L /\ w.spos = D /\ w.todo = p /\ Len(p) = L
  BY <1>1, <1>2 DEF D, N
<1>5. /\ D \in Nat /\ D + N \in Nat /\ 2 + L \in Nat /\ D <= D /\ 2 + L + lt = D /\ D + lf = D + N
      /\ 0 \in 0 .. D + N - 1 /\ 0 \in 0 .. 2 + L - 1
  BY <1>4
<1>6. \A j \in 1 .. L : p[j].slot = 1 + j /\ 0 < 1 + j /\ 1 + j < 2 + L /\ 1 + j \in Nat /\ 0 # 1 + j
  BY <1>2
<1>7. \A i, j \in 1 .. L : 1 + i = 1 + j => i = j
  OBVIOUS
<1>8. DOMAIN w.newdir = 0 .. D + N - 1
      /\ \A u \in 0 .. D + N - 1 : w.newdir[u] = IF u = 0 THEN Unit("dir", L, 0) ELSE Unit("none", 0, 0)
  BY <1>1 DEF D, N
<1>9. WorkShape(w)
  <2>1. w.bpos + Left(TRUE, w.todo) = Dirs(w) /\ w.spos + Left(FALSE, w.todo) = EndOf(w)
    BY <1>3, <1>4, <1>5 DEF lt, lf
  <2>2. \A j \in 1 .. Len(w.todo) : 0 < w.todo[j].slot /\ w.todo[j].slot < w.bpos
    BY <1>4, <1>6
  <2>3. \A i, j \in 1 .. Len(w.todo) : w.todo[i].slot = w.todo[j].slot => i = j
    BY <1>4, <1>6, <1>7
  <2>4. w.tree \in Seq(TypeNodes) /\ w.tree # <<>> /\ w.todo \in Seq(Tasks)
    BY <1>1, <1>2
  <2>5. w.bpos \in Nat /\ w.spos \in Nat /\ Dirs(w) \in Nat /\ EndOf(w) \in Nat /\ Dirs(w) <= w.spos
    BY <1>3, <1>4, <1>5
  <2>6. DOMAIN w.newdir = 0 .. EndOf(w) - 1
    <3> DEFINE x == D + N
    <3>1. EndOf(w) = x
      BY <1>3
    <3>2. D + N - 1 = x - 1
      BY <1>4
    <3>3. DOMAIN w.newdir = 0 .. x - 1
      BY <1>8, <3>2
    <3> QED BY <3>1, <3>3
  <2> QED BY <2>1, <2>2, <2>3, <2>4, <2>5, <2>6, Zenon DEF WorkShape
<1>10. TreeBuilt(w)
  <2>1. Settled(w, 0)
    <3>1. \A j \in 1 .. Len(w.todo) : w.todo[j].slot # 0
      BY <1>4, <1>6
    <3> QED BY <1>4, <1>5, <3>1 DEF Settled
  <2>2. w.newdir[0] = Unit("dir", L, 0)
    BY <1>5, <1>8
  <2>3. HeadAt(w, 0, w.tree)
    BY <1>1, <2>1, <2>2 DEF HeadAt, Unit, L
  <2>4. ASSUME NEW k \in 1 .. Len(w.tree) PROVE TypeBuilt(w, 1 + k, w.tree[k])
    <3>1. k \in 1 .. L /\ k \in 1 .. Len(w.todo)
      BY <1>1, <1>4 DEF L
    <3>2. w.todo[k].slot = 1 + k /\ w.todo[k].node = w.tree[k] /\ w.todo[k].level = 0
      BY <1>1, <1>2, <3>1
    <3>3. Held(w, 1 + k, w.tree[k], 0)
      BY <3>1, <3>2, Zenon DEF Held
    <3> QED BY <3>3 DEF TypeBuilt
  <2> QED BY <2>3, <2>4 DEF TreeBuilt
<1>11. DataBehind(w)
  <2>1. ASSUME NEW u \in DOMAIN w.newdir PROVE w.newdir[u].kind # "data"
    BY <1>8 DEF Unit
  <2> QED BY <2>1 DEF DataBehind
<1>12. TypesAt(w, 0, 0)
  <2>1. Len(w.tree) = L /\ w.tree = tree
    BY <1>1 DEF L
  <2>2. ASSUME NEW k \in 0 + 1 .. L
        PROVE  /\ w.todo[0 + k - 0].node = w.tree[k] /\ w.todo[0 + k - 0].slot = 1 + k /\ w.todo[0 + k - 0].level = 0
               /\ w.todo[0 + k - 0].type = TypeOf(w.tree[k], 0, 0)
    <3>1. 0 + k - 0 = k /\ k \in 1 .. L
      BY <1>4
    <3> QED BY <1>2, <1>4, <2>1, <3>1
  <2>3. 0 \in Nat /\ L \in Nat /\ 0 <= L /\ Len(w.todo) = 0 + L - 0 /\ ~(0 > 0)
    BY <1>4
  <2>4. (\A j \in 1 .. 0 : FALSE) /\ (\A k \in 1 .. 0 : FALSE)
    OBVIOUS
  <2> QED BY <2>1, <2>2, <2>3, <2>4, Zenon DEF TypesAt
<1>13. Patches(w, 0)
  <2>1. IconUnits(w, 0) = {}
    BY DEF IconUnits
  <2> QED BY <1>1, <2>1 DEF Patches
<1> QED BY <1>1, <1>9, <1>10, <1>11, <1>12, <1>13, Zenon DEF TreeIs, w

LEMMA TreeElsewhere == ASSUME phase' # "tree" PROVE TreeInv'
BY DEF TreeInv

LEMMA BeginResourcesKeeps == ASSUME BeginResources PROVE TreeInv'
<1>1. CASE phase' # "tree"
  BY <1>1, TreeElsewhere
<1>2. CASE phase' = "tree"
  <2>1. PICK tree \in Trees, icons \in {0, 1} : tree # <<>> /\ work' = TreeWork(tree, icons)
    BY <1>2 DEF BeginResources, Go
  <2>2. tree \in Seq(TypeNodes)
    BY TreesAre
  <2>3. TreeIs(TreeWork(tree, icons)) /\ DOMAIN TreeWork(tree, icons) = WorkFields
    BY <2>1, <2>2, TreeBegins
  <2> QED BY <2>1, <2>3 DEF TreeInv
<1> QED BY <1>1, <1>2

\* res_build for a node, as the step of the walk
LEMMA NodeBuilds ==
    ASSUME TreeInv, BuildNode, phase' = "tree"
    PROVE  /\ Builds(work, work', Head(work.todo)) /\ PatchStep(work, work', Head(work.todo))
           /\ DOMAIN work' = WorkFields
<1> DEFINE w == work
           h == Head(w.todo)
           new == work'
           moved == IF h.node.sub = "moved" THEN Append(w.moved, w.bpos) ELSE w.moved
           patched == IF PatchesNow(w, h) THEN Append(w.patched, w.bpos) ELSE w.patched
           icons == IF PatchesNow(w, h) THEN 0 ELSE w.icons
           leaf == [w EXCEPT !.newdir = LinkedBy(w, h), !.spos = w.spos + h.node.name, !.todo = Tail(w.todo),
                             !.bpos = w.bpos + 2, !.moved = moved, !.patched = patched, !.icons = icons]
           dir == [w EXCEPT !.newdir = LinkedBy(w, h), !.spos = w.spos + h.node.name,
                            !.bpos = w.bpos + 2 + Len(h.node.sub),
                            !.todo = Pending(h.node.sub, w.bpos + 2, h.level + 1, h.type) \o Tail(w.todo)]
<1>1. phase = "tree" /\ w.todo # <<>> /\ DOMAIN w = WorkFields /\ TreeIs(w)
  BY DEF BuildNode, TreeInv
<1>2. \/ h.level = 2 /\ new = leaf
      \/ h.level # 2 /\ h.node.sub # <<>> /\ new = dir
  <2>1. CASE h.level = 2
    <3>1. new = leaf
      BY <2>1 DEF BuildNode, LinkedBy, NewEntry, PatchesNow
    <3> QED BY <2>1, <3>1
  <2>2. CASE h.level # 2
    <3>1. h.node.sub # <<>>
      BY <2>2 DEF BuildNode, Fail, Go
    <3>2. new = dir
      BY <2>2, <3>1 DEF BuildNode, LinkedBy, NewEntry
    <3> QED BY <2>2, <3>1, <3>2
  <2> QED BY <2>1, <2>2
<1>3. h \in Tasks /\ w.bpos \in Nat
  <2>1. w.todo \in Seq(Tasks) /\ w.bpos \in Nat
    BY <1>1 DEF TreeIs, WorkShape
  <2> DEFINE todo == w.todo
  <2> HIDE DEF todo, Tasks
  <2>2. todo \in Seq(Tasks) /\ todo # <<>>
    BY <1>1, <2>1 DEF todo
  <2>3. Head(todo) \in Tasks
    BY <2>2
  <2> QED BY <2>1, <2>3 DEF todo
<1>4. CASE h.level = 2 /\ new = leaf
  <2>1. /\ new.newdir = LinkedBy(w, h) /\ new.spos = w.spos + h.node.name /\ new.todo = Tail(w.todo)
        /\ new.bpos = w.bpos + 2 /\ new.patched = patched /\ new.icons = icons
        /\ new.tree = w.tree /\ new.counted = w.counted /\ DOMAIN new = WorkFields
    BY <1>1, <1>4 DEF WorkFields
  <2>2. Kids(w, h) = <<>> /\ Len(<<>>) = 0
    BY <1>4 DEF Kids
  <2>3. <<>> \o Tail(w.todo) = Tail(w.todo)
    <3>1. w.todo \in Seq(Tasks)
      BY <1>1 DEF TreeIs, WorkShape
    <3> DEFINE todo == w.todo
    <3> HIDE DEF todo, Tasks
    <3>2. todo \in Seq(Tasks) /\ todo # <<>>
      BY <1>1, <3>1 DEF todo
    <3>3. <<>> \o Tail(todo) = Tail(todo)
      BY <3>2
    <3> QED BY <3>3 DEF todo
  <2>4. w.bpos + 2 + 0 = w.bpos + 2
    BY <1>3
  <2>5. Builds(w, new, h)
    <3>1. ~(h.level < 2)
      BY <1>4
    <3>2. new.todo = Kids(w, h) \o Tail(w.todo) /\ new.bpos = w.bpos + 2 + Len(Kids(w, h))
      BY <2>1, <2>2, <2>3, <2>4
    <3> QED BY <1>1, <2>1, <3>1, <3>2 DEF Builds
  <2>6. PatchStep(w, new, h)
    BY <2>1 DEF PatchStep
  <2> QED BY <2>1, <2>5, <2>6
<1>5. CASE h.level # 2 /\ h.node.sub # <<>> /\ new = dir
  <2>1. /\ new.newdir = LinkedBy(w, h) /\ new.spos = w.spos + h.node.name
        /\ new.todo = Pending(h.node.sub, w.bpos + 2, h.level + 1, h.type) \o Tail(w.todo)
        /\ new.bpos = w.bpos + 2 + Len(h.node.sub) /\ new.patched = w.patched /\ new.icons = w.icons
        /\ new.tree = w.tree /\ new.counted = w.counted /\ DOMAIN new = WorkFields
    BY <1>1, <1>5 DEF WorkFields
  <2>2. Kids(w, h) = Pending(h.node.sub, w.bpos + 2, h.level + 1, h.type)
    BY <1>5 DEF Kids
  <2>3. Len(Kids(w, h)) = Len(h.node.sub)
    <3>1. KidsAre(Kids(w, h), w, h)
      BY <1>3, <1>5, KidsFacts
    <3>2. h.level < 2
      BY <1>3, <1>5, TaskFacts
    <3> QED BY <3>1, <3>2 DEF KidsAre
  <2>4. Builds(w, new, h)
    BY <1>1, <1>5, <2>1, <2>2, <2>3 DEF Builds
  <2>5. PatchStep(w, new, h)
    BY <1>5, <2>1 DEF PatchStep, PatchesNow
  <2> QED BY <2>1, <2>4, <2>5
<1> QED BY <1>2, <1>4, <1>5

LEMMA BuildNodeKeeps == ASSUME TreeInv, BuildNode PROVE TreeInv'
<1>1. CASE phase' # "tree"
  BY <1>1, TreeElsewhere
<1>2. CASE phase' = "tree"
  <2>1. TreeIs(work)
    BY DEF TreeInv, BuildNode
  <2>2. /\ Builds(work, work', Head(work.todo)) /\ PatchStep(work, work', Head(work.todo))
        /\ DOMAIN work' = WorkFields
    BY <1>2, NodeBuilds
  <2>3. TreeIs(work')
    BY <2>1, <2>2, TreeStep
  <2> QED BY <2>2, <2>3 DEF TreeInv
<1> QED BY <1>1, <1>2

LEMMA TreeInvStep == TreeInv /\ [Next]_vars => TreeInv'
<1> SUFFICES ASSUME TreeInv, [Next]_vars PROVE TreeInv'
  OBVIOUS
<1>1. CASE UpxNext
  <2>1. CASE FindHeader
    BY <2>1, TreeElsewhere DEF FindHeader, Fail, Go
  <2>2. CASE Decode
    BY <2>2, TreeElsewhere DEF Decode, Fail, Go
  <2>3. CASE Unfilter
    BY <2>3, TreeElsewhere DEF Unfilter, Fail, Go
  <2>4. CASE BeginImports
    BY <2>4, TreeElsewhere DEF BeginImports, Go
  <2>5. CASE RebuildDll
    BY <2>5, TreeElsewhere DEF RebuildDll
  <2>6. CASE BeginRelocs
    BY <2>6, TreeElsewhere DEF BeginRelocs, Go
  <2>7. CASE DecodeDelta
    BY <2>7, TreeElsewhere DEF DecodeDelta, Fail, Go
  <2>8. CASE BuildBlocks
    BY <2>8, TreeElsewhere DEF BuildBlocks, Go
  <2>9. CASE BeginResources
    BY <2>9, BeginResourcesKeeps
  <2>10. CASE BuildNode
    BY <2>10, BuildNodeKeeps
  <2>11. CASE PhaseDone
    BY <2>11, TreeElsewhere DEF PhaseDone, PhaseOver, Go
  <2>12. CASE Assemble
    <3>1. phase' \in {"failed", "done"}
      BY <2>12 DEF Assemble, Go
    <3> QED BY <3>1, TreeElsewhere
  <2> QED
    BY <1>1, <2>1, <2>2, <2>3, <2>4, <2>5, <2>6, <2>7, <2>8, <2>9, <2>10, <2>11, <2>12 DEF UpxNext
<1>2. CASE StartUpx
  BY <1>2, TreeElsewhere, Zenon DEF StartUpx, BeginUpx, Go
<1>3. CASE UpxReturns
  BY <1>3, TreeElsewhere DEF UpxReturns
<1>4. CASE UNCHANGED upxVars
  BY <1>4 DEF upxVars, TreeInv
<1> QED
  BY <1>1, <1>2, <1>3, <1>4, Zenon DEF Next, vars, StartDump, DumpReturns

LEMMA ResourcesRead == TreeInv => ResourcesReadBack
<1> SUFFICES ASSUME TreeInv PROVE ResourcesReadBack
  OBVIOUS
<1>1. CASE phase = "tree" /\ work.todo = <<>>
  <2>1. TreeIs(work)
    BY <1>1 DEF TreeInv
  <2>2. /\ TreeRead(work.newdir, 0, work.tree) /\ DOMAIN work.tree = 1 .. Len(work.tree)
        /\ work.patched = IF work.counted = 0 \/ IconUnits(work, Len(work.tree)) = {} THEN <<>>
                          ELSE <<Min(IconUnits(work, Len(work.tree)))>>
    BY <1>1, <2>1, TreeEnds
  <2> QED BY <2>2, ReadBackIs
<1>2. CASE ~(phase = "tree" /\ work.todo = <<>>)
  BY <1>2, Zenon DEF ResourcesReadBack
<1> QED BY <1>1, <1>2

\* The loader finds the resources of the program, for any tree of types, names
\* and languages: the directory is as large as what goes there, an entry is
\* written into the table of its parent however far the directory has grown since,
\* and of the groups of icons the first that was moved, and no other, is patched.
\* (rebuild_resources, res_dir_size, res_build)
THEOREM TreesReadBack == Spec => []ResourcesReadBack
<1>1. Init => TreeInv
  BY DEF Init, UpxInit, TreeInv
<1> QED
  BY <1>1, TreeInvStep, ResourcesRead, PTL DEF Spec

\* What rebuild_resources checks at its end
SizesAgree ==
    phase = "tree" /\ work.todo = <<>> =>
        LET size == DirUnits(work.tree)
        IN work.bpos = size.dirs /\ work.spos = size.dirs + size.names

LEMMA SizesAtTheEnd == TreeInv => SizesAgree
<1> SUFFICES ASSUME TreeInv, phase = "tree", work.todo = <<>> PROVE SizesAgree
  BY DEF SizesAgree
<1> DEFINE b == work.bpos
           s == work.spos
           D == Dirs(work)
           E == EndOf(work)
           lt == Left(TRUE, <<>>)
           lf == Left(FALSE, <<>>)
<1>1. TreeIs(work)
  BY DEF TreeInv
<1>2. b \in Nat /\ s \in Nat /\ b + lt = D /\ s + lf = E
  BY <1>1 DEF TreeIs, WorkShape
<1>3. lt = 0 /\ lf = 0
  BY LeftNone
<1> HIDE DEF b, s, D, E, lt, lf
<1>4. b = D /\ s = E
  BY <1>2, <1>3
<1> QED BY <1>4, Zenon DEF SizesAgree, Dirs, EndOf, b, s, D, E

\* The error "directory size accounting drifted" has no way to occur: the two
\* walks that count and the one that builds agree on every tree. (rebuild_resources)
THEOREM CountedAsBuilt == Spec => []SizesAgree
<1>1. Init => TreeInv
  BY DEF Init, UpxInit, TreeInv
<1> QED
  BY <1>1, TreeInvStep, SizesAtTheEnd, PTL DEF Spec

\* Whatever the unpacker rebuilds, imports, fixups and resources, the loader reads
\* as the packer was given it. (unpack_static)
THEOREM TablesAreReadBack == Spec => []TablesReadBack
<1>1. ImportsLeadToNames /\ RelocsReadBack /\ ResourcesReadBack => TablesReadBack
  BY DEF TablesReadBack
<1> QED
  BY <1>1, ImportsReadBack, BlocksReadBack, TreesReadBack, PTL
=============================================================================
