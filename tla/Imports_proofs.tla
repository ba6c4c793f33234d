--------------------------- MODULE Imports_proofs ---------------------------
(***************************************************************************)
(* Proofs about the discovery of the import table and about its rebuild,   *)
(* for every size of the code and of the table, every content of the       *)
(* process, everything its modules export and every one of the limits the  *)
(* code works with.  The discovery comes first (SearchInv and what rests   *)
(* on it), the rebuild after it (RebuildInv).                              *)
(***************************************************************************)
EXTENDS Imports, FiniteSetTheorems, DataInduction

----------------------------------------------------------------------------
(* The table that was read *)

\* What the read leaves in "table", with the reference inside it
TableRead ==
    \E n \in Nat : n > Lead /\ table \in [0 .. n - 1 -> Kinds]

LEMMA ReadBounds ==
    ASSUME TableRead
    PROVE  Read \in Nat /\ RefIndex \in 0 .. Read - 1 /\ table \in [0 .. Read - 1 -> Kinds]
<1>1. PICK n \in Nat : n > Lead /\ table \in [0 .. n - 1 -> Kinds]
  BY DEF TableRead
<1>2. Lead \in Nat
  BY DiscoveryAssumption
<1>3. IsFiniteSet(0 .. n - 1) /\ Cardinality(0 .. n - 1) = n
  BY <1>1, <1>2, FS_Interval
<1>4. DOMAIN table = 0 .. n - 1
  BY <1>1
<1>5. Read = n
  BY <1>3, <1>4 DEF Read
<1> QED
  BY <1>1, <1>2, <1>5 DEF RefIndex

\* A block is a run of valid slots that ends before a slot that is not valid
LEMMA BlockShape ==
    ASSUME TableRead, NEW b \in Blocks
    PROVE  /\ b \in 0 .. Read - 1
           /\ Valid(b) /\ ~Valid(b - 1)
           /\ BlockEnd(b) \in b + 1 .. Read
           /\ ~Valid(BlockEnd(b))
           /\ \A k \in b .. BlockEnd(b) - 1 : Valid(k)
<1> DEFINE S == {i \in b .. Read : ~Valid(i)}
<1>1. b \in 0 .. Read - 1 /\ Valid(b) /\ ~Valid(b - 1)
  BY DEF Blocks
<1>2. b \in Int /\ S # {} /\ S \in SUBSET Int /\ \A x \in S : b <= x
  <2>1. Read \in S
    BY <1>1, ReadBounds DEF Valid
  <2> QED BY <1>1, <2>1, ReadBounds
<1>3. BlockEnd(b) = Min(S)
  BY DEF BlockEnd
<1> HIDE DEF S
<1>4. Min(S) \in S /\ Min(S) \in Int /\ \A x \in S : Min(S) <= x
  BY <1>1, <1>2, MinOf
<1>5. BlockEnd(b) \in b .. Read /\ ~Valid(BlockEnd(b))
  BY <1>3, <1>4 DEF S
<1>6. BlockEnd(b) # b
  BY <1>5, <1>1
<1>7. ASSUME NEW k \in b .. BlockEnd(b) - 1 PROVE Valid(k)
  BY <1>1, <1>3, <1>4, <1>5, ReadBounds DEF S
<1> QED
  BY <1>1, <1>5, <1>6, <1>7

\* Two blocks do not touch
LEMMA BlocksApart ==
    ASSUME TableRead, NEW c \in Blocks, NEW d \in Blocks, c < d
    PROVE  BlockEnd(c) < d
<1>1. /\ c \in Int /\ d \in Int /\ BlockEnd(c) \in Int
      /\ ~Valid(d - 1) /\ Valid(d) /\ ~Valid(BlockEnd(c))
      /\ \A k \in c .. BlockEnd(c) - 1 : Valid(k)
  BY BlockShape, ReadBounds
<1>2. d - 1 \notin c .. BlockEnd(c) - 1
  BY <1>1
<1>3. BlockEnd(c) <= d - 1
  BY <1>1, <1>2
<1> QED
  BY <1>1, <1>3

\* Every valid slot is in a block
LEMMA BlockOf ==
    ASSUME TableRead, NEW i, Valid(i)
    PROVE  \E b \in Blocks : b <= i /\ i < BlockEnd(b)
<1> DEFINE S == {k \in 0 .. i : \A m \in k .. i : Valid(m)}
<1>1. i \in 0 .. Read - 1 /\ Read \in Nat
  BY ReadBounds DEF Valid
<1>2. i \in S /\ S \in SUBSET Int /\ \A x \in S : 0 <= x
  BY <1>1
<1>3. PICK b \in S : \A x \in S : b <= x
  <2> HIDE DEF S
  <2> QED BY <1>2, Least
<1>4. b \in 0 .. Read - 1 /\ b <= i /\ Valid(b) /\ \A m \in b .. i : Valid(m)
  BY <1>1, <1>3
<1>5. ~Valid(b - 1)
  <2> SUFFICES ASSUME Valid(b - 1) PROVE FALSE
    OBVIOUS
  <2>1. b - 1 \in 0 .. i
    BY <1>4, <1>1 DEF Valid
  <2>2. \A m \in b - 1 .. i : Valid(m)
    BY <1>4, <1>1, <2>1
  <2>3. b - 1 \in S
    BY <2>1, <2>2
  <2> HIDE DEF S
  <2> QED BY <2>3, <1>3, <1>4, <1>1
<1>6. b \in Blocks
  BY <1>4, <1>5 DEF Blocks
<1>7. BlockEnd(b) \in Int /\ BlockEnd(b) >= b /\ ~Valid(BlockEnd(b))
  BY <1>6, BlockShape, ReadBounds
<1>8. i < BlockEnd(b)
  BY <1>1, <1>4, <1>7
<1> QED
  BY <1>4, <1>6, <1>8

LEMMA GapOf ==
    ASSUME TableRead, NEW b \in Int, NEW lo \in Blocks, lo < b
    PROVE  \E c \in Blocks : c < b /\ GapBefore(b) = b - BlockEnd(c)
<1> DEFINE S == {BlockEnd(c) : c \in {d \in Blocks : d < b}}
<1>1. Read \in Int /\ S # {} /\ S \in SUBSET Int /\ \A x \in S : x <= Read
  BY BlockShape, ReadBounds
<1>2. Max(S) \in S
  <2> HIDE DEF S
  <2> QED BY <1>1, MaxOf
<1> QED
  BY <1>2 DEF GapBefore

----------------------------------------------------------------------------
(* The backward walk and the trimming *)

LEMMA WalkStops ==
    ASSUME TableRead
    PROVE  /\ WalkStop \in 0 .. RefIndex
           /\ RefIndex - WalkStop <= BackwardCap
           /\ \/ Barrier(WalkStop) \/ LongRun(WalkStop)
              \/ RefIndex - WalkStop = BackwardCap \/ WalkStop = 0
           /\ \A i \in WalkStop + 1 .. RefIndex : ~Barrier(i)
<1> DEFINE S == {i \in 0 .. RefIndex :
                    Barrier(i) \/ LongRun(i) \/ RefIndex - i = BackwardCap \/ i = 0}
<1>1. RefIndex \in Nat /\ BackwardCap \in Nat
  BY ReadBounds, DiscoveryAssumption
<1>2. 0 \in S /\ S \in SUBSET Int /\ \A x \in S : x <= RefIndex
  BY <1>1
<1>3. RefIndex >= BackwardCap => RefIndex - BackwardCap \in S
  BY <1>1
<1>4. WalkStop = Max(S)
  BY DEF WalkStop
<1>5. WalkStop \in S /\ \A x \in S : x <= WalkStop
  <2>1. RefIndex \in Int /\ S # {}
    BY <1>1, <1>2
  <2> HIDE DEF S
  <2> QED BY <2>1, <1>2, <1>4, MaxOf
<1>6. WalkStop \in 0 .. RefIndex
  BY <1>5
<1>7. RefIndex - WalkStop <= BackwardCap
  <2> HIDE DEF S
  <2> QED BY <1>1, <1>3, <1>5, <1>6
<1>8. ASSUME NEW i \in WalkStop + 1 .. RefIndex PROVE ~Barrier(i)
  <2> SUFFICES ASSUME Barrier(i) PROVE FALSE
    OBVIOUS
  <2>1. i \in S
    BY <1>1, <1>6
  <2> HIDE DEF S
  <2> QED BY <2>1, <1>5, <1>6, <1>1
<1> QED
  BY <1>5, <1>6, <1>7, <1>8

LEMMA WalkStarts ==
    ASSUME TableRead, WalkStart # -1
    PROVE  /\ WalkStart \in Int /\ WalkStart >= WalkStop
           /\ TrimmedStart \in Int /\ TrimmedStart >= WalkStart
           /\ \A i \in WalkStart .. Read - 1 : ~Trimmable(i) => TrimmedStart <= i
<1> DEFINE E == {i \in WalkStop .. RefIndex : Plausible(table[i])}
           T == {WalkStop + ZeroRun + 2, Read - 1}
           K == {i \in WalkStart .. Read - 1 : ~Trimmable(i)}
<1>1. /\ Read \in Nat /\ RefIndex \in 0 .. Read - 1 /\ WalkStop \in 0 .. RefIndex
      /\ ZeroRun \in Nat
  BY ReadBounds, WalkStops, DiscoveryAssumption
<1>2. WalkStart \in Int /\ WalkStart >= WalkStop
  <2>1. CASE LongRun(WalkStop)
    <3>1. WalkStop \in Int /\ T # {} /\ T \in SUBSET Int /\ \A x \in T : WalkStop <= x
      BY <1>1
    <3>. ~Barrier(WalkStop)
      BY <2>1, <1>1 DEF LongRun, Barrier
    <3>2. WalkStart = Min(T)
      BY <2>1 DEF WalkStart
    <3> HIDE DEF T
    <3>3. Min(T) \in T /\ Min(T) \in Int
      BY <3>1, MinOf
    <3> QED BY <3>1, <3>2, <3>3
  <2>2. CASE ~LongRun(WalkStop) /\ Barrier(WalkStop)
    BY <2>2, <1>1 DEF WalkStart
  <2>3. CASE ~LongRun(WalkStop) /\ ~Barrier(WalkStop)
    <3>1. WalkStart = IF E = {} THEN -1 ELSE Min(E)
      BY <2>3 DEF WalkStart
    <3>2. E # {} /\ WalkStart = Min(E)
      <4> HIDE DEF E
      <4> QED BY <3>1
    <3>3. E \in SUBSET Int /\ \A x \in E : WalkStop <= x
      BY <1>1
    <3> HIDE DEF E
    <3>4. Min(E) \in E /\ Min(E) \in Int
      BY <3>2, <3>3, <1>1, MinOf
    <3> QED BY <3>2, <3>3, <3>4
  <2> QED BY <2>1, <2>2, <2>3
<1>3. K \in SUBSET Int /\ \A x \in K : WalkStart <= x
  BY <1>1, <1>2
<1>4. TrimmedStart = IF K = {} THEN WalkStart ELSE Min(K)
  BY DEF TrimmedStart
<1>5. K # {} => Min(K) \in K /\ Min(K) \in Int /\ \A x \in K : Min(K) <= x
  <2> HIDE DEF K
  <2> QED BY <1>2, <1>3, MinOf
<1>6. TrimmedStart \in Int /\ TrimmedStart >= WalkStart
  <2> HIDE DEF K
  <2> QED BY <1>2, <1>3, <1>4, <1>5
<1>7. ASSUME NEW i \in WalkStart .. Read - 1, ~Trimmable(i) PROVE TrimmedStart <= i
  <2>1. i \in K
    BY <1>7
  <2> HIDE DEF K
  <2> QED BY <2>1, <1>4, <1>5
<1> QED
  BY <1>2, <1>6, <1>7

LEMMA MaxOfTwo ==
    ASSUME NEW a \in Int, NEW b \in Int
    PROVE  Max({a, b}) >= a /\ Max({a, b}) >= b /\ Max({a, b}) \in Int
<1> DEFINE S == {a, b}
<1>1. \E hi \in Int : S # {} /\ S \in SUBSET Int /\ \A x \in S : x <= hi
  <2>1. CASE a <= b
    BY <2>1
  <2>2. CASE b <= a
    BY <2>2
  <2> QED BY <2>1, <2>2
<1>2. a \in S /\ b \in S
  OBVIOUS
<1>3. Max(S) \in Int /\ \A x \in S : x <= Max(S)
  <2> HIDE DEF S
  <2> QED BY <1>1, MaxOf
<1> HIDE DEF S
<1>4. Max(S) >= a /\ Max(S) >= b
  BY <1>2, <1>3
<1> QED
  BY <1>3, <1>4 DEF S

LEMMA MinOfTwo ==
    ASSUME NEW a \in Int, NEW b \in Int
    PROVE  /\ Min({a, b}) = IF a <= b THEN a ELSE b
           /\ Min({a, b}) <= a /\ Min({a, b}) <= b
<1> DEFINE S == {a, b}
<1>1. \E lo \in Int : S # {} /\ S \in SUBSET Int /\ \A x \in S : lo <= x
  <2>1. CASE a <= b
    BY <2>1
  <2>2. CASE b <= a
    BY <2>2
  <2> QED BY <2>1, <2>2
<1>2. a \in S /\ b \in S
  OBVIOUS
<1>3. Min(S) \in S /\ Min(S) \in Int /\ \A x \in S : Min(S) <= x
  <2> HIDE DEF S
  <2> QED BY <1>1, MinOf
<1>4. (Min(S) = a \/ Min(S) = b) /\ Min(S) <= a /\ Min(S) <= b
  <2>1. Min(S) <= a /\ Min(S) <= b
    <3> HIDE DEF S
    <3> QED BY <1>2, <1>3
  <2>2. \A x \in S : x = a \/ x = b
    OBVIOUS
  <2> HIDE DEF S
  <2> QED BY <1>3, <2>1, <2>2
<1> HIDE DEF S
<1>5. Min(S) = IF a <= b THEN a ELSE b
  BY <1>4
<1> QED
  BY <1>4, <1>5 DEF S

----------------------------------------------------------------------------
(* The block that is taken and the merges *)

\* The table as scan_iat_boundaries accepts it
Found == TableRead /\ WalkStart # -1 /\ Blocks # {}

LEMMA PrimaryIsABlock ==
    ASSUME Found
    PROVE  PrimaryBlock \in Blocks
<1> DEFINE A == {b \in Blocks : BlockEnd(b) > TrimmedStart}
           L == {BlockEnd(b) - b : b \in Blocks}
           W == {b \in Blocks : \A c \in Blocks : BlockEnd(c) - c <= BlockEnd(b) - b}
<1>1. TableRead /\ Blocks # {}
  BY DEF Found
<1>2. Read \in Int /\ Blocks \in SUBSET Int /\ \A b \in Blocks : 0 <= b /\ b <= Read
  BY <1>1, BlockShape, ReadBounds
<1>3. A # {} => Min(A) \in A
  <2>1. 0 \in Int /\ A \in SUBSET Int /\ \A b \in A : 0 <= b
    <3>1. A \subseteq Blocks
      OBVIOUS
    <3> HIDE DEF A
    <3> QED BY <1>2, <3>1
  <2> HIDE DEF A
  <2>2. SUFFICES ASSUME A # {} PROVE Min(A) \in A
    OBVIOUS
  <2> QED BY <2>1, <2>2, MinOf
<1>4. LargestBlock \in Blocks
  <2>1. Read \in Int /\ L # {} /\ L \in SUBSET Int /\ \A x \in L : x <= Read
    <3>1. \A b \in Blocks : BlockEnd(b) - b \in Int /\ BlockEnd(b) - b <= Read
      BY <1>1, <1>2, BlockShape
    <3>2. Read \in Int /\ L # {}
      BY <1>1, <1>2
    <3> QED BY <3>1, <3>2
  <2>2. Max(L) \in L /\ \A x \in L : x <= Max(L)
    <3> HIDE DEF L
    <3> QED BY <2>1, MaxOf
  <2>3. PICK b \in Blocks : Max(L) = BlockEnd(b) - b
    BY <2>2
  <2>4. b \in W
    BY <2>2, <2>3
  <2>5. W # {} /\ W \in SUBSET Int /\ \A x \in W : x <= Read
    BY <2>4, <1>2
  <2>6. LargestBlock = Max(W)
    BY DEF LargestBlock
  <2>7. W \subseteq Blocks
    OBVIOUS
  <2> HIDE DEF W
  <2> QED BY <1>2, <2>5, <2>6, <2>7, MaxOf
<1> QED
  BY <1>3, <1>4 DEF PrimaryBlock

LEMMA PrimaryIsFirst ==
    ASSUME Found, NEW b \in Blocks, BlockEnd(b) > TrimmedStart
    PROVE  PrimaryBlock <= b /\ BlockEnd(PrimaryBlock) > TrimmedStart
<1> DEFINE A == {c \in Blocks : BlockEnd(c) > TrimmedStart}
<1>1. TableRead
  BY DEF Found
<1>2. b \in A /\ A \in SUBSET Int /\ \A c \in A : 0 <= c
  BY <1>1, BlockShape, ReadBounds
<1>3. PrimaryBlock = Min(A)
  BY <1>2 DEF PrimaryBlock
<1>4. PrimaryBlock \in A /\ PrimaryBlock <= b
  <2> HIDE DEF A
  <2>1. A # {}
    BY <1>2
  <2> QED BY <1>2, <1>3, <2>1, MinOf
<1> QED
  BY <1>4

LEMMA OwnStarts ==
    ASSUME Found
    PROVE  /\ OwnStart \in Int /\ TrimmedStart \in Int
           /\ OwnStart >= PrimaryBlock /\ OwnStart >= TrimmedStart
           /\ OwnStart \in {PrimaryBlock, TrimmedStart}
<1> DEFINE S == {PrimaryBlock, TrimmedStart}
<1>1. TableRead /\ WalkStart # -1
  BY DEF Found
<1>2. TrimmedStart \in Int /\ PrimaryBlock \in Int
  BY <1>1, WalkStarts, PrimaryIsABlock, BlockShape, ReadBounds
<1>3. \E hi \in Int : \A x \in S : x <= hi
  BY <1>2
<1>4. S # {} /\ S \in SUBSET Int
  BY <1>2
<1>5. OwnStart = Max(S)
  BY DEF OwnStart
<1>6. OwnStart \in S /\ OwnStart \in Int /\ \A x \in S : x <= OwnStart
  <2> HIDE DEF S
  <2> QED BY <1>3, <1>4, <1>5, MaxOf
<1> QED
  BY <1>2, <1>6

\* What the merge with the block before moves, and when
LEMMA MergedStarts ==
    ASSUME Found
    PROVE  /\ MergedStart \in TrimmedStart .. OwnStart
           /\ MergedStart # OwnStart =>
                /\ \E b \in Blocks : b < PrimaryBlock
                /\ GapBefore(OwnStart) <= BackwardGap
<1> DEFINE B == {b \in Blocks : b < PrimaryBlock}
           H == {i \in Max(B) .. OwnStart - 1 : table[i] # "zero" /\ ~OutsideApi(i)}
           first == IF H = {} THEN OwnStart ELSE Min(H)
           S == {first, TrimmedStart}
           Merge == /\ Bytes(RefIndex - TrimmedStart) <= EarlierGap
                    /\ B # {}
                    /\ GapBefore(OwnStart) <= BackwardGap
<1>1. TableRead /\ OwnStart \in Int /\ TrimmedStart \in Int /\ OwnStart >= TrimmedStart
  BY OwnStarts DEF Found
<1>2. MergedStart = IF Merge THEN Max(S) ELSE OwnStart
  BY DEF MergedStart
<1>3. CASE ~Merge
  <2> HIDE DEF Merge
  <2> QED BY <1>1, <1>2, <1>3
<1>4. CASE Merge
  <2>1. Read \in Int /\ B # {} /\ B \in SUBSET Int /\ \A b \in B : b <= Read
    BY <1>1, <1>4, BlockShape, ReadBounds
  <2>2. Max(B) \in Int
    <3> HIDE DEF B
    <3> QED BY <2>1, MaxOf
  <2>3. H \in SUBSET Int /\ \A i \in H : Max(B) <= i /\ i <= OwnStart
    BY <1>1, <2>2
  <2>4. first \in Int /\ first <= OwnStart
    <3>1. CASE H = {}
      <4> HIDE DEF H
      <4> QED BY <1>1, <3>1
    <3>2. CASE H # {}
      <4> HIDE DEF H
      <4>1. Min(H) \in H
        BY <2>2, <2>3, <3>2, MinOf
      <4> QED BY <2>3, <3>2, <4>1
    <3> QED BY <3>1, <3>2
  <2>5. OwnStart \in Int /\ S # {} /\ S \in SUBSET Int /\ \A x \in S : x <= OwnStart
    <3> HIDE DEF first
    <3> QED BY <1>1, <2>4
  <2>6. Max(S) \in S /\ \A x \in S : x <= Max(S)
    <3> HIDE DEF S
    <3> QED BY <2>5, MaxOf
  <2>7. Max(S) \in TrimmedStart .. OwnStart
    <3> HIDE DEF first
    <3> QED BY <2>5, <2>6, <1>1
  <2>8. MergedStart = Max(S)
    <3> HIDE DEF Merge, S
    <3> QED BY <1>2, <1>4
  <2> QED BY <2>7, <2>8, <1>4
<1> QED
  BY <1>3, <1>4

\* Every block up to the last one that is merged lies behind a short gap
LEMMA MergedEnds ==
    ASSUME Found
    PROVE  \E m \in Blocks :
              /\ MergedEnd = BlockEnd(m) /\ m >= PrimaryBlock
              /\ \A c \in Blocks : c > PrimaryBlock /\ c <= m => GapBefore(c) <= ForwardGap
<1> DEFINE M == {b \in Blocks : /\ b >= PrimaryBlock
                                /\ \A c \in Blocks : c > PrimaryBlock /\ c <= b
                                                       => GapBefore(c) <= ForwardGap}
<1>1. TableRead /\ PrimaryBlock \in Blocks
  BY PrimaryIsABlock DEF Found
<1>2. Read \in Int /\ Blocks \in SUBSET Int /\ \A b \in Blocks : b <= Read
  BY <1>1, BlockShape, ReadBounds
<1>3. PrimaryBlock \in M
  BY <1>1, <1>2
<1>4. M # {} /\ M \in SUBSET Int /\ \A b \in M : b <= Read
  BY <1>2, <1>3
<1>5. Max(M) \in M
  <2> HIDE DEF M
  <2> QED BY <1>2, <1>4, MaxOf
<1>6. MergedEnd = BlockEnd(Max(M))
  BY DEF MergedEnd
<1> QED
  BY <1>5, <1>6

LEMMA HeadIsNear ==
    ASSUME Found
    PROVE  ~Clamped
<1>1. TableRead /\ WalkStart # -1
  BY DEF Found
<1>2. /\ RefIndex \in Int /\ WalkStop \in Int /\ WalkStart \in Int
      /\ TrimmedStart \in Int /\ MergedStart \in Int
      /\ RefIndex - WalkStop <= BackwardCap
      /\ WalkStart >= WalkStop /\ TrimmedStart >= WalkStart /\ MergedStart >= TrimmedStart
  BY <1>1, ReadBounds, WalkStops, WalkStarts, MergedStarts, OwnStarts
<1>3. RefIndex - MergedStart <= BackwardCap
  BY <1>2, DiscoveryAssumption
<1>4. BackwardCap \in Nat /\ BackwardHead \in Nat /\ 2 * BackwardCap <= BackwardHead
  BY DiscoveryAssumption
<1>5. Bytes(RefIndex - MergedStart) <= BackwardHead
  BY <1>2, <1>3, <1>4 DEF Bytes
<1> QED
  BY <1>2, <1>4, <1>5 DEF Clamped, Bytes

----------------------------------------------------------------------------
(* What the located table is *)

LEMMA FoundInsideRead ==
    ASSUME Found
    PROVE  MergedEnd \in Int /\ MergedStart \in Int /\ MergedEnd <= Read /\ 0 <= MergedStart
<1>1. TableRead /\ WalkStart # -1
  BY DEF Found
<1>2. MergedEnd \in Int /\ MergedEnd <= Read
  BY <1>1, MergedEnds, BlockShape, ReadBounds
<1> QED
  BY <1>1, <1>2, ReadBounds, WalkStops, WalkStarts, MergedStarts, OwnStarts

LEMMA FoundGapsAreShort ==
    ASSUME Found, NEW i \in MergedStart .. MergedEnd - 1, NEW j \in i .. MergedEnd - 1,
           \A k \in i .. j : Barrier(k)
    PROVE  j - i < ForwardGap \/ j - i < BackwardGap
<1>1. /\ TableRead /\ MergedEnd \in Int /\ MergedStart \in Int /\ MergedEnd <= Read
      /\ 0 <= MergedStart /\ Read \in Nat
  BY FoundInsideRead, ReadBounds DEF Found
<1>2. i \in Int /\ j \in Int /\ i <= j /\ MergedStart <= i /\ j < MergedEnd
  BY <1>1
<1>3. \A k \in i .. j : ~Valid(k)
  BY <1>1 DEF Valid
<1>4. PICK m \in Blocks :
         /\ MergedEnd = BlockEnd(m) /\ m >= PrimaryBlock
         /\ \A c \in Blocks : c > PrimaryBlock /\ c <= m => GapBefore(c) <= ForwardGap
  BY MergedEnds
<1> DEFINE C == {b \in Blocks : b > j}
<1>5. m \in C
  <2>1. m \in Int /\ \A k \in m .. BlockEnd(m) - 1 : Valid(k)
    BY <1>1, BlockShape, ReadBounds
  <2>2. ~(m <= j)
    BY <1>2, <1>3, <1>4, <2>1
  <2> QED BY <1>2, <2>1, <2>2
<1>6. PICK c \in C : \A b \in C : c <= b
  <2>1. j \in Int /\ C # {} /\ C \in SUBSET Int /\ \A b \in C : j <= b
    BY <1>1, <1>2, <1>5, BlockShape, ReadBounds
  <2> HIDE DEF C
  <2> QED BY <2>1, Least
<1>7. c \in Blocks /\ c > j /\ c \in Int /\ c <= m /\ m \in Int
  BY <1>1, <1>5, <1>6, BlockShape, ReadBounds
\* What lies before c lies before the gap, so that the gap before c covers it
<1>8. ASSUME NEW d \in Blocks, d < c
      PROVE  BlockEnd(d) <= i
  <2>1. d \in Int /\ BlockEnd(d) \in Int /\ Valid(d) /\ \A k \in d .. BlockEnd(d) - 1 : Valid(k)
    BY <1>1, BlockShape, ReadBounds
  <2>2. ~(d > j)
    <3> SUFFICES ASSUME d > j PROVE FALSE
      OBVIOUS
    <3>1. d \in C
      BY <1>8
    <3> QED BY <3>1, <1>6, <1>7, <1>8, <2>1
  <2>3. d < i
    BY <2>1, <2>2, <1>2, <1>3
  <2>4. ~(BlockEnd(d) > i)
    BY <2>1, <2>3, <1>2, <1>3
  <2> QED BY <2>1, <2>4, <1>2
<1>9. PrimaryBlock \in Blocks /\ PrimaryBlock \in Int
  BY <1>1, PrimaryIsABlock, BlockShape, ReadBounds
<1>10. CASE c > PrimaryBlock
  <2>1. GapBefore(c) <= ForwardGap
    BY <1>4, <1>7, <1>10
  <2>2. PICK d \in Blocks : d < c /\ GapBefore(c) = c - BlockEnd(d)
    BY <1>1, <1>7, <1>9, <1>10, GapOf
  <2>3. BlockEnd(d) <= i /\ BlockEnd(d) \in Int
    BY <1>1, <1>8, <2>2, BlockShape, ReadBounds
  <2> QED BY <1>2, <1>7, <2>1, <2>2, <2>3, DiscoveryAssumption
<1>11. CASE c <= PrimaryBlock
  <2>1. /\ OwnStart \in Int /\ TrimmedStart \in Int /\ MergedStart \in TrimmedStart .. OwnStart
        /\ OwnStart >= PrimaryBlock /\ OwnStart \in {PrimaryBlock, TrimmedStart}
    BY OwnStarts, MergedStarts
  <2>2. TrimmedStart < c /\ MergedStart # OwnStart
    BY <2>1, <1>2, <1>7, <1>9, <1>11
  <2>3. BlockEnd(c) > TrimmedStart
    BY <1>1, <1>7, <2>1, <2>2, BlockShape, ReadBounds
  <2>4. c = PrimaryBlock
    BY <1>7, <1>9, <1>11, <2>3, PrimaryIsFirst
  <2>5. OwnStart = c
    BY <2>1, <2>2, <2>4, <1>7
  <2>6. GapBefore(c) <= BackwardGap /\ \E b \in Blocks : b < c
    BY <2>2, <2>4, <2>5, MergedStarts
  <2>7. PICK d \in Blocks : d < c /\ GapBefore(c) = c - BlockEnd(d)
    BY <1>1, <1>7, <2>6, GapOf
  <2>8. BlockEnd(d) <= i /\ BlockEnd(d) \in Int
    BY <1>1, <1>8, <2>7, BlockShape, ReadBounds
  <2> QED BY <1>2, <1>7, <2>6, <2>7, <2>8, DiscoveryAssumption
<1> QED
  BY <1>7, <1>9, <1>10, <1>11

\* A stub next to the reference is where the walk's answer and the first merge
\* have the table begin, and in the block that is taken
LEMMA FoundKeepsNeighbours ==
    ASSUME Found, NEW i \in 0 .. Read - 1, Together(i, RefIndex),
           RefIndex - i <= BackwardCap, ~AfterPadding(i)
    PROVE  i \in MergedStart .. MergedEnd - 1
<1>1. /\ TableRead /\ WalkStart # -1 /\ layout = "x64high"
      /\ Read \in Nat /\ RefIndex \in 0 .. Read - 1 /\ i \in Int /\ RefIndex \in Int
  BY ReadBounds DEF Found, Together
<1>2. ZeroRun \in Nat /\ BackwardCap \in Nat
  BY DiscoveryAssumption
<1>3. Min({i, RefIndex}) = IF i <= RefIndex THEN i ELSE RefIndex
  BY <1>1, MinOfTwo
<1>4. Max({i, RefIndex}) >= i /\ Max({i, RefIndex}) >= RefIndex /\ Max({i, RefIndex}) \in Int
  BY <1>1, MaxOfTwo
<1>5. ASSUME NEW k \in Int, (i <= k /\ k <= RefIndex) \/ (RefIndex <= k /\ k <= i)
      PROVE  table[k] = "tramp"
  <2>1. k \in Min({i, RefIndex}) .. Max({i, RefIndex})
    BY <1>1, <1>3, <1>4, <1>5
  <2> QED BY <2>1 DEF Together
<1>6. \A k : table[k] = "tramp" => Plausible(table[k]) /\ ~Barrier(k) /\ ~Trimmable(k)
  BY <1>1 DEF Plausible, Barrier, Trimmable, OutsideApi, InImage
<1>7. table[i] = "tramp"
  BY <1>1, <1>5
<1>8. /\ WalkStop \in 0 .. RefIndex
      /\ \/ Barrier(WalkStop) \/ LongRun(WalkStop)
         \/ RefIndex - WalkStop = BackwardCap \/ WalkStop = 0
      /\ \A k \in WalkStop + 1 .. RefIndex : ~Barrier(k)
  BY <1>1, WalkStops
<1>9. WalkStop <= i
  <2> SUFFICES ASSUME WalkStop > i PROVE FALSE
    BY <1>1, <1>8
  <2>1. table[WalkStop] = "tramp"
    BY <1>1, <1>5, <1>8
  <2>2. ~LongRun(WalkStop)
    BY <2>1, <1>1, <1>2, <1>8 DEF LongRun
  <2> QED BY <2>1, <2>2, <1>1, <1>2, <1>6, <1>8
<1>10. WalkStart \in Int /\ WalkStart <= i
  <2>1. WalkStart \in Int
    BY <1>1, WalkStarts
  <2>2. CASE LongRun(WalkStop)
    <3>1. \A k \in WalkStop .. WalkStop + ZeroRun : table[k] = "zero"
      BY <2>2 DEF LongRun
    <3>2. i > WalkStop + ZeroRun
      BY <3>1, <1>1, <1>2, <1>7, <1>8, <1>9
    <3>3. i # WalkStop + ZeroRun + 1
      <4> SUFFICES ASSUME i = WalkStop + ZeroRun + 1 PROVE FALSE
        OBVIOUS
      <4>1. i > ZeroRun /\ i - ZeroRun - 1 = WalkStop /\ i - 1 = WalkStop + ZeroRun
        BY <1>1, <1>2, <1>8
      <4> QED BY <3>1, <4>1 DEF AfterPadding
    <3>4. ~Barrier(WalkStop)
      BY <3>1, <1>2, <1>8 DEF Barrier
    <3>5. WalkStart = Min({WalkStop + ZeroRun + 2, Read - 1})
      BY <2>2, <3>4 DEF WalkStart
    <3>6. Min({WalkStop + ZeroRun + 2, Read - 1}) <= WalkStop + ZeroRun + 2
      BY <1>1, <1>2, <1>8, MinOfTwo
    <3> QED BY <3>2, <3>3, <3>5, <3>6, <2>1, <1>1, <1>2, <1>8
  <2>3. CASE ~LongRun(WalkStop) /\ Barrier(WalkStop)
    <3>1. WalkStart = WalkStop + 1
      BY <2>3 DEF WalkStart
    <3>2. WalkStop # i
      BY <2>3, <1>6, <1>7
    <3> QED BY <3>1, <3>2, <2>1, <1>1, <1>8, <1>9
  <2>4. CASE ~LongRun(WalkStop) /\ ~Barrier(WalkStop)
    <3> DEFINE E == {k \in WalkStop .. RefIndex : Plausible(table[k])}
               low == IF i <= RefIndex THEN i ELSE RefIndex
    <3>1. low \in E /\ low <= i /\ low \in Int
      <4>1. low \in Int /\ table[low] = "tramp" /\ low \in WalkStop .. RefIndex /\ low <= i
        BY <1>1, <1>5, <1>8, <1>9
      <4> HIDE DEF low
      <4> QED BY <4>1, <1>6
    <3>2. WalkStop \in Int /\ E # {} /\ E \in SUBSET Int /\ \A k \in E : WalkStop <= k
      <4> HIDE DEF low
      <4> QED BY <3>1, <1>8
    <3>3. WalkStart = IF E = {} THEN -1 ELSE Min(E)
      BY <2>4 DEF WalkStart
    <3> HIDE DEF E, low
    <3>4. Min(E) \in Int /\ \A k \in E : Min(E) <= k
      BY <3>2, MinOf
    <3> QED BY <3>1, <3>2, <3>3, <3>4, <1>1
  <2> QED BY <2>1, <2>2, <2>3, <2>4
<1>11. TrimmedStart \in Int /\ TrimmedStart <= i /\ TrimmedStart >= WalkStart /\ WalkStart >= WalkStop
  BY <1>1, <1>6, <1>7, <1>10, WalkStarts
<1>12. Valid(i)
  BY <1>1, <1>6, <1>7 DEF Valid
<1>13. PICK b \in Blocks : b <= i /\ i < BlockEnd(b)
  BY <1>1, <1>12, BlockOf
<1>14. b \in Int /\ BlockEnd(b) \in Int /\ ~Valid(b - 1)
  BY <1>1, BlockShape, ReadBounds
<1> DEFINE P == PrimaryBlock
<1>15. P \in Blocks /\ P <= b /\ BlockEnd(P) > TrimmedStart
  BY <1>1, <1>11, <1>13, <1>14, PrimaryIsABlock, PrimaryIsFirst
<1>16. P \in Int /\ BlockEnd(P) \in Int /\ P >= 0 /\ BlockEnd(P) > P /\ ~Valid(BlockEnd(P))
  BY <1>1, <1>15, BlockShape, ReadBounds
\* Between where the walk stopped and the stub there is nothing foreign
<1>17. P = b
  <2> SUFFICES ASSUME P # b PROVE FALSE
    OBVIOUS
  <2> HIDE DEF P
  <2>1. P < b
    BY <1>14, <1>15, <1>16
  <2>2. BlockEnd(P) < b
    BY <1>1, <1>15, <2>1, BlocksApart
  <2> DEFINE e == BlockEnd(P)
  <2>3. e \in Int /\ e < i /\ 0 <= e /\ e > WalkStop
    BY <2>2, <1>1, <1>8, <1>10, <1>11, <1>13, <1>14, <1>15, <1>16
  <2>4. Barrier(e)
    BY <2>3, <1>1, <1>16 DEF Valid
  <2> HIDE DEF e
  <2>5. CASE e <= RefIndex
    BY <2>3, <2>4, <2>5, <1>1, <1>8
  <2>6. CASE e > RefIndex
    <3>1. table[e] = "tramp"
      BY <2>3, <2>6, <1>1, <1>5
    <3> QED BY <3>1, <2>4, <1>6
  <2> QED BY <2>3, <2>5, <2>6, <1>1
<1>18. MergedStart \in Int /\ MergedStart <= i
  <2>1. OwnStart \in {PrimaryBlock, TrimmedStart} /\ OwnStart \in Int
    BY OwnStarts
  <2>2. OwnStart <= i
    BY <2>1, <1>1, <1>11, <1>13, <1>14, <1>17
  <2> QED BY <2>1, <2>2, <1>1, <1>11, MergedStarts
<1>19. MergedEnd \in Int /\ MergedEnd > i
  <2>1. PICK m \in Blocks : MergedEnd = BlockEnd(m) /\ m >= PrimaryBlock
    BY MergedEnds
  <2>2. m \in Int /\ BlockEnd(m) \in Int /\ BlockEnd(m) > m
    BY <1>1, BlockShape, ReadBounds
  <2>3. CASE m = b
    BY <2>1, <2>2, <2>3, <1>13
  <2>4. CASE m # b
    <3>1. b < m
      BY <2>1, <2>2, <2>4, <1>14, <1>17
    <3>2. BlockEnd(b) < m
      BY <3>1, <1>1, <1>13, BlocksApart
    <3> QED BY <3>2, <2>1, <2>2, <1>1, <1>13, <1>14
  <2> QED BY <2>3, <2>4
<1> QED
  BY <1>1, <1>18, <1>19

----------------------------------------------------------------------------
(* The boundaries, over the steps of the specification *)

\* While the boundaries are looked for the table is what was read, and what is
\* handed over is what the lemmas above say of it
TableInv ==
    /\ pc = "bound" => TableRead
    /\ TableIsTight
    /\ NeighbouringStubsKept

LEMMA TableSteps ==
    ASSUME [ImportsNext]_<<vars, rebuildVars>>
    PROVE  \/ pc' \notin {"bound", "located"}
           \/ ReadTable \/ Bound
           \/ UNCHANGED <<pc, layout, table, loc>>
<1>1. CASE UNCHANGED <<vars, rebuildVars>>
  BY <1>1 DEF vars
<1>2. CASE Discover
  BY <1>2 DEF Discover, Scan, Rescan, AdoptEarlier, Enter, Over, Fail, vars
<1>3. ASSUME NEW version \in {"V1", "Ancient", "V2", "V3", "unknown"}, Repair(version)
      PROVE  pc' \notin {"bound", "located"}
  <2>1. FixV1 \/ FixV2 \/ FixV3
    BY <1>3 DEF Repair
  <2> QED BY <2>1 DEF FixV1, FixV2, FixV3, Write, Fail
<1>4. CASE Dump
  BY <1>4 DEF Dump
<1>5. CASE RebuildNext /\ UNCHANGED vars
  BY <1>5 DEF vars
<1> QED
  BY <1>1, <1>2, <1>3, <1>4, <1>5 DEF ImportsNext

LEMMA BoundHandsOver ==
    ASSUME Bound, TableRead, pc' = "located"
    PROVE  /\ Found /\ table' = table /\ layout' = layout
           /\ loc' = [start |-> MergedStart, count |-> MergedEnd - MergedStart]
<1>1. ~(WalkStart = -1 \/ Blocks = {} \/ MergedEnd <= MergedStart)
  BY DEF Bound
<1>2. Found
  BY <1>1 DEF Found
<1>3. ~Clamped
  BY <1>2, HeadIsNear
<1> QED
  BY <1>1, <1>2, <1>3 DEF Bound

LEMMA TableInvStep ==
    ASSUME TableInv, [ImportsNext]_<<vars, rebuildVars>>
    PROVE  TableInv'
<1>1. CASE pc' \notin {"bound", "located"}
  BY <1>1 DEF TableInv, TableIsTight, TableInsideRead, GapsInTableAreShort, NeighbouringStubsKept
<1>2. CASE ReadTable
  <2>1. /\ pc' # "located"
        /\ pc' = "bound" => TableRead'
    BY <1>2, DiscoveryAssumption DEF ReadTable, TableRead
  <2> QED BY <2>1 DEF TableInv, TableIsTight, TableInsideRead, GapsInTableAreShort, NeighbouringStubsKept
<1>3. CASE Bound /\ pc' \in {"bound", "located"}
  <2>1. TableRead /\ pc' = "located"
    BY <1>3 DEF Bound, TableInv
  <2>2. /\ Found /\ table' = table /\ layout' = layout
        /\ loc' = [start |-> MergedStart, count |-> MergedEnd - MergedStart]
    BY <1>3, <2>1, BoundHandsOver
  <2>3. /\ Read' = Read /\ RefIndex' = RefIndex
        /\ \A i : Barrier(i)' = Barrier(i)
        /\ \A i : AfterPadding(i)' = AfterPadding(i)
        /\ \A i, j : Together(i, j)' = Together(i, j)
    BY <2>2 DEF Read, RefIndex, Barrier, Plausible, AfterPadding, Together
  <2>4. MergedStart \in Int /\ MergedEnd \in Int /\ MergedEnd <= Read /\ Read \in Nat
    BY <2>1, <2>2, FoundInsideRead, ReadBounds
  <2>5. /\ loc'.start + loc'.count = MergedEnd
        /\ Located' = MergedStart .. MergedEnd - 1
    BY <2>2, <2>4 DEF Located
  <2>6. TableInsideRead'
    BY <2>3, <2>4, <2>5 DEF TableInsideRead
  <2>7. GapsInTableAreShort'
    <3> SUFFICES ASSUME NEW i \in Located', NEW j \in Located', i <= j,
                        \A k \in i .. j : Barrier(k)'
                 PROVE  j - i < Max({ForwardGap, BackwardGap})
      BY DEF GapsInTableAreShort
    <3>1. i \in MergedStart .. MergedEnd - 1 /\ j \in i .. MergedEnd - 1
      BY <2>4, <2>5
    <3>2. \A k \in i .. j : Barrier(k)
      BY <2>3
    <3>3. j - i < ForwardGap \/ j - i < BackwardGap
      BY <3>1, <3>2, <2>2, FoundGapsAreShort
    <3>4. ForwardGap \in Int /\ BackwardGap \in Int
      BY DiscoveryAssumption
    <3>5. /\ Max({ForwardGap, BackwardGap}) \in Int
          /\ Max({ForwardGap, BackwardGap}) >= ForwardGap
          /\ Max({ForwardGap, BackwardGap}) >= BackwardGap
      BY <3>4, MaxOfTwo
    <3> QED BY <3>1, <3>3, <3>4, <3>5, <2>4
  <2>8. NeighbouringStubsKept'
    <3> SUFFICES ASSUME NEW i \in (0 .. Read - 1)', Together(i, RefIndex)',
                        (RefIndex - i <= BackwardCap)', ~AfterPadding(i)'
                 PROVE  i \in Located'
      BY DEF NeighbouringStubsKept
    <3>1. /\ i \in 0 .. Read - 1 /\ Together(i, RefIndex)
          /\ RefIndex - i <= BackwardCap /\ ~AfterPadding(i)
      BY <2>3
    <3> QED BY <3>1, <2>2, <2>5, FoundKeepsNeighbours
  <2> QED BY <2>1, <2>6, <2>7, <2>8 DEF TableInv, TableIsTight
<1>4. CASE UNCHANGED <<pc, layout, table, loc>>
  BY <1>4 DEF TableInv, TableRead, TableIsTight, TableInsideRead, GapsInTableAreShort,
              NeighbouringStubsKept, Read, RefIndex, Located, Barrier, Plausible,
              Together, AfterPadding
<1> QED
  BY <1>1, <1>2, <1>3, <1>4, TableSteps

LEMMA TableInvHolds == ImportsSpec => []TableInv
<1>1. ImportsInit => TableInv
  BY DEF ImportsInit, Init, TableInv, TableIsTight, TableInsideRead, GapsInTableAreShort,
         NeighbouringStubsKept
<1> QED
  BY <1>1, TableInvStep, PTL DEF ImportsSpec

(* Whatever the process holds, what is handed over as the import table     *)
(* lies in what was read, and no run of values in it that are no imports   *)
(* is wider than the gap the merges of blocks may bridge                   *)
(* (scan_iat_boundaries).                                                  *)
THEOREM LocatedTableIsTight == ImportsSpec => []TableIsTight
<1>1. TableInv => TableIsTight
  BY DEF TableInv
<1> QED
  BY <1>1, TableInvHolds, PTL

(* Whatever the process holds, every stub that is joined to the reference  *)
(* by stubs, as far back as the walk goes, is inside what is handed over,  *)
(* unless it is the first entry behind a run of padding                    *)
(* (scan_iat_boundaries).                                                  *)
THEOREM StubsAreKept == ImportsSpec => []NeighbouringStubsKept
<1>1. TableInv => NeighbouringStubsKept
  BY DEF TableInv
<1> QED
  BY <1>1, TableInvHolds, PTL

----------------------------------------------------------------------------
(* The search of the code *)

\* What the search is made over
Searchable == code \in Codes /\ held \in Contents

Frames == [at : Nat \ {0}, count : Nat]

States ==
    [stack : Seq(Frames), visited : SUBSET (Nat \ {0}),
     found : {0} \union {s \in Slots : Accepted(s)}]

LEMMA OperandsAreSlots ==
    ASSUME Searchable, NEW i \in 1 .. Text
    PROVE  /\ code.text[i].op \in {"call_mem", "jmp_mem", "mov_call"} => code.text[i].to \in Slots
           /\ code.text[i].op = "call" => code.text[i].to \in 1 .. Text
<1>1. PICK c \in {"Msvc", "Delphi", "Go"} : code.text \in [1 .. Text -> Instructions(c)]
  BY DEF Searchable, Codes
<1>2. code.text[i] \in Instructions(c)
  BY <1>1
<1> QED
  BY <1>1, <1>2 DEF Instructions

LEMMA BegunState ==
    ASSUME NEW start \in Nat \ {0}
    PROVE  Begun(start) \in States
BY DEF Begun, States, Frames, FrameAt

LEMMA DecodedState ==
    ASSUME Searchable, NEW s \in States, ~Ended(s), NEW ignore \in BOOLEAN
    PROVE  Decoded(s, ignore) \in States
<1> DEFINE top == Len(s.stack)
           frame == s.stack[top]
           insn == code.text[frame.at]
<1>1. /\ s.stack \in Seq(Frames) /\ s.stack # <<>> /\ s.visited \in SUBSET (Nat \ {0})
      /\ s.found \in {0} \union {x \in Slots : Accepted(x)}
      /\ s = [stack |-> s.stack, visited |-> s.visited, found |-> s.found]
  BY DEF States, Ended
<1>2. top \in Nat \ {0} /\ frame \in Frames
  BY <1>1
<1>3. Returned(s) \in States
  <2> DEFINE outer == SubSeq(s.stack, 1, Len(s.stack) - 1)
  <2>1. outer \in Seq(Frames)
    BY <1>1, <1>2
  <2>2. Returned(s).stack \in Seq(Frames)
    <3>1. CASE outer = <<>>
      BY <1>1, <3>1 DEF Returned
    <3>2. CASE outer # <<>>
      <4>1. Len(outer) \in 1 .. Len(outer) /\ outer[Len(outer)] \in Frames
        BY <2>1, <3>2
      <4>2. Returned(s).stack =
               [outer EXCEPT ![Len(outer)] = [at |-> @.at + 1, count |-> @.count + 1]]
        BY <1>1, <3>2 DEF Returned
      <4>3. [at |-> outer[Len(outer)].at + 1, count |-> outer[Len(outer)].count + 1] \in Frames
        BY <4>1 DEF Frames
      <4> HIDE DEF outer
      <4> QED BY <4>1, <4>2, <4>3, <2>1
    <3> QED BY <3>1, <3>2
  <2>3. Returned(s).visited = s.visited /\ Returned(s).found = s.found
    BY <1>1 DEF Returned
  <2> DEFINE new == IF outer = <<>> THEN <<>>
                    ELSE [outer EXCEPT ![Len(outer)] = [at |-> @.at + 1, count |-> @.count + 1]]
  <2>4. Returned(s) = [stack |-> Returned(s).stack, visited |-> s.visited, found |-> s.found]
    <3>1. Returned(s) = [s EXCEPT !.stack = new]
      BY DEF Returned
    <3> HIDE DEF new
    <3> QED BY <1>1, <3>1
  <2> QED BY <1>1, <2>2, <2>4 DEF States
<1>4. Passed(s) \in States
  <2>1. [at |-> frame.at + 1, count |-> frame.count + 1] \in Frames
    BY <1>2 DEF Frames
  <2>2. [s.stack EXCEPT ![top] = [at |-> @.at + 1, count |-> @.count + 1]] \in Seq(Frames)
    BY <1>1, <1>2, <2>1
  <2> QED BY <1>1, <2>2 DEF Passed, States
<1>5. ASSUME NEW p \in Nat \ {0} PROVE Entered(s, p) \in States
  <2>1. FrameAt(p) \in Frames
    BY <1>5 DEF FrameAt, Frames
  <2>2. [s EXCEPT !.stack = Append(@, FrameAt(p)), !.visited = @ \union {p}] \in States
    <3> DEFINE stack == Append(s.stack, FrameAt(p))
               visited == s.visited \union {p}
    <3>1. stack \in Seq(Frames) /\ visited \in SUBSET (Nat \ {0})
      BY <1>1, <1>5, <2>1
    <3>2. [s EXCEPT !.stack = stack, !.visited = visited] \in States
      <4> HIDE DEF stack, visited
      <4> QED BY <3>1 DEF States
    <3> QED BY <3>2
  <2> QED BY <1>4, <2>2 DEF Entered
<1>6. CASE frame.at > Text \/ (frame.count >= InstrLimit /\ ~ignore)
  <2>1. Decoded(s, ignore) = Returned(s)
    BY <1>6 DEF Decoded
  <2> QED BY <1>3, <2>1
<1>7. CASE ~(frame.at > Text \/ (frame.count >= InstrLimit /\ ~ignore))
  <2>1. frame.at \in 1 .. Text
    <3>1. frame.at \in Nat \ {0} /\ ~(frame.at > Text)
      BY <1>2, <1>7 DEF Frames
    <3>2. Text \in Int
      BY DiscoveryAssumption
    <3> HIDE DEF frame
    <3> QED BY <3>1, <3>2
  <2>2. CASE Indirect(frame.at) /\ Accepted(insn.to)
    <3>1. insn.to \in Slots
      BY <2>1, <2>2, OperandsAreSlots DEF Indirect
    <3>2. Decoded(s, ignore) = [s EXCEPT !.found = insn.to]
      BY <1>7, <2>2 DEF Decoded
    <3> QED BY <1>1, <2>2, <3>1, <3>2 DEF States
  <2>3. CASE ~(Indirect(frame.at) /\ Accepted(insn.to))
    <3>1. Decoded(s, ignore) =
             IF ignore THEN Passed(s)
             ELSE CASE insn.op = "call" -> Entered(s, insn.to)
                    [] insn.op = "ret" -> Returned(s)
                    [] OTHER -> Passed(s)
      BY <1>7, <2>3 DEF Decoded
    <3>2. insn.op = "call" => insn.to \in Nat \ {0}
      <4>1. insn.op = "call" => insn.to \in 1 .. Text
        BY <2>1, OperandsAreSlots
      <4>2. Text \in Int
        BY DiscoveryAssumption
      <4> HIDE DEF insn
      <4> QED BY <4>1, <4>2
    <3> QED BY <1>3, <1>4, <1>5, <3>1, <3>2
  <2> QED BY <2>2, <2>3
<1> QED
  BY <1>6, <1>7

\* The recursion of the search is one over the states
LEMMA SearchRunIs ==
    ASSUME Searchable, NEW start \in Nat \ {0}, NEW ignore \in BOOLEAN
    PROVE  LET run == SearchRun(start, ignore)
           IN /\ SearchSteps \in Nat
              /\ run \in [0 .. SearchSteps -> States]
              /\ run[0] = Begun(start)
              /\ \A n \in 1 .. SearchSteps :
                    run[n] = IF Ended(run[n - 1]) THEN run[n - 1]
                             ELSE Decoded(run[n - 1], ignore)
<1> DEFINE N == SearchSteps
           Step == [p \in States \X (1 .. N) |->
                        IF Ended(p[1]) THEN p[1] ELSE Decoded(p[1], ignore)]
           F(f) == [n \in 0 .. N |-> IF n = 0 THEN Begun(start)
                                     ELSE IF Ended(f[n - 1]) THEN f[n - 1]
                                     ELSE Decoded(f[n - 1], ignore)]
           run == SearchRun(start, ignore)
<1>1. N \in Nat
  BY DiscoveryAssumption DEF SearchSteps
<1>2. Step \in [States \X (1 .. N) -> States]
  BY DecodedState
<1>3. Begun(start) \in States
  BY BegunState
<1>4. PICK f \in [0 .. N -> States] : Iterates(f, Begun(start), Step, N)
  <2> HIDE DEF Step, N
  <2> QED BY <1>1, <1>2, <1>3, Recursion
<1>5. f = F(f)
  <2> HIDE DEF N
  <2>1. ASSUME NEW n \in 0 .. N PROVE f[n] = F(f)[n]
    <3>1. CASE n = 0
      BY <1>4, <3>1 DEF Iterates
    <3>2. CASE n # 0
      <4>1. n - 1 \in 0 .. N /\ n \in 1 .. N
        BY <3>2, <1>1
      <4>2. f[n - 1] \in States
        BY <4>1
      <4>3. f[n] = Step[<<f[n - 1], n>>]
        BY <1>4, <4>1 DEF Iterates
      <4> QED BY <4>1, <4>2, <4>3, <3>2
    <3> QED BY <3>1, <3>2
  <2> QED BY <1>4, <2>1
<1>6. run = CHOOSE g : g = F(g)
  BY DEF SearchRun
<1>7. run = F(run)
  <2> HIDE DEF F, run
  <2> QED BY <1>5, <1>6, Zenon
<1>8. /\ run[0] = Begun(start)
      /\ \A n \in 1 .. N : run[n] = IF Ended(run[n - 1]) THEN run[n - 1]
                                    ELSE Decoded(run[n - 1], ignore)
  <2> HIDE DEF run, N
  <2> QED BY <1>1, <1>7
<1>9. \A n \in 0 .. N : run[n] \in States
  <2> DEFINE T == {n \in Nat : run[n] \in States}
  <2> HIDE DEF run, N
  <2>1. 0 \in T
    BY <1>3, <1>8
  <2>2. ASSUME NEW n \in 0 .. N - 1, n \in T PROVE n + 1 \in T
    <3>1. n + 1 \in 1 .. N /\ (n + 1) - 1 = n /\ n + 1 \in Nat
      BY <1>1
    <3>2. run[n + 1] = IF Ended(run[n]) THEN run[n] ELSE Decoded(run[n], ignore)
      BY <3>1, <1>8
    <3>3. run[n] \in States
      BY <2>2
    <3>4. run[n + 1] \in States
      BY <3>2, <3>3, DecodedState
    <3> QED BY <3>1, <3>4
  <2> HIDE DEF T
  <2>3. \A n \in 0 .. N : n \in T
    BY <1>1, <2>1, <2>2, UpFrom
  <2> QED BY <2>3 DEF T
<1>10. run = [n \in 0 .. N |-> run[n]]
  <2> HIDE DEF run, N
  <2> QED BY <1>7
<1> QED
  <2> HIDE DEF run, F, Step
  <2>1. run \in [0 .. N -> States]
    BY <1>9, <1>10
  <2> QED BY <1>1, <1>8, <2>1 DEF run

----------------------------------------------------------------------------
(* What the search finds *)

Imported == {s \in Slots : Accepted(s)}

LEMMA FindRefAccepted ==
    ASSUME Searchable, NEW start \in Nat \ {0}, NEW ignore \in BOOLEAN
    PROVE  FindRef(start, ignore) \in {0} \union Imported
<1>1. SearchState(start, ignore) \in States
  BY SearchRunIs DEF SearchState
<1> QED
  BY <1>1 DEF FindRef, States, Imported

LEMMA AcceptedHolds ==
    ASSUME Searchable, NEW s \in Imported
    PROVE  s \in Slots /\ s # 0 /\ held[s] \in {"unreadable", "api", "tramp"}
BY DiscoveryAssumption DEF Searchable, Contents, Imported, Accepted, AboveText

LEMMA CodeTypes ==
    ASSUME Searchable
    PROVE  code.vm \in BOOLEAN /\ code.oep \in 1 .. Text
BY DiscoveryAssumption DEF Searchable, Codes

LEMMA EarliestRefHolds ==
    ASSUME Searchable
    PROVE  EarliestRef \in {0} \union Imported
<1> DEFINE refs == {code.text[i].to : i \in {j \in 1 .. Text : Indirect(j)}}
           valid == {s \in refs : held[s] # "unreadable" /\ AboveText(held[s])}
<1>1. EarliestRef = IF layout = "x86" \/ valid = {} THEN 0 ELSE Min(valid)
  BY DEF EarliestRef
<1>2. valid \subseteq Imported
  BY OperandsAreSlots DEF Imported, Accepted, Indirect
<1>3. 0 \in Int /\ valid \in SUBSET Int /\ \A s \in valid : 0 <= s
  <2>1. \A s \in Imported : s \in Int /\ 0 <= s
    BY DiscoveryAssumption DEF Imported
  <2> HIDE DEF valid
  <2> QED BY <1>2, <2>1
<1>4. valid # {} => Min(valid) \in valid
  <2> HIDE DEF valid
  <2> SUFFICES ASSUME valid # {} PROVE Min(valid) \in valid
    OBVIOUS
  <2> QED BY <1>3, MinOf
<1> HIDE DEF valid
<1> QED
  BY <1>1, <1>2, <1>4

LEMMA DelphiStarts ==
    ASSUME Searchable
    PROVE  DelphiStart \in Nat \ {0}
<1> DEFINE jumps == {i \in 1 .. Text : code.text[i].op = "jmp_mem"}
           third == {i \in jumps : Cardinality({j \in jumps : j <= i}) = DelphiSkip}
<1>1. DelphiStart = IF third = {} THEN 1 ELSE Min(third)
  BY DEF DelphiStart
<1>2. 1 \in Int /\ third \in SUBSET Int /\ \A i \in third : 1 <= i
  BY DiscoveryAssumption
<1>3. third # {} => Min(third) \in third
  <2> HIDE DEF third
  <2> SUFFICES ASSUME third # {} PROVE Min(third) \in third
    OBVIOUS
  <2> QED BY <1>2, MinOf
<1> HIDE DEF third
<1> QED
  BY <1>1, <1>2, <1>3

LEMMA GoRefHolds ==
    ASSUME Searchable
    PROVE  GoRef \in {0} \union Imported
<1> DEFINE loads == {i \in GoStart .. Text :
                       code.text[i].op = "mov_call" /\ Plausible(held[code.text[i].to])}
<1>1. GoStart \in Nat \ {0} /\ GoStart \in Int /\ Text \in Int
  BY DiscoveryAssumption DEF GoStart
<1>2. loads \in SUBSET Int /\ \A i \in loads : GoStart <= i
  BY <1>1
<1>3. ASSUME NEW i \in loads PROVE code.text[i].to \in Imported
  <2>1. i \in 1 .. Text
    BY <1>1
  <2>2. code.text[i].to \in Slots
    BY <1>3, <2>1, OperandsAreSlots
  <2> QED BY <1>3, <2>2 DEF Imported, Accepted, AboveText, Plausible, Searchable, Contents
<1>4. CASE loads # {}
  <2>1. GoRef = code.text[Min(loads)].to
    BY <1>4 DEF GoRef
  <2>2. Min(loads) \in loads
    <3> HIDE DEF loads
    <3> QED BY <1>1, <1>2, <1>4, MinOf
  <2> HIDE DEF loads
  <2> QED BY <1>3, <2>1, <2>2
<1>5. CASE loads = {}
  <2>1. GoRef = FindRef(GoStart, TRUE)
    BY <1>5 DEF GoRef
  <2> QED BY <1>1, <2>1, FindRefAccepted
<1> QED
  BY <1>4, <1>5

LEMMA FirstRefHolds ==
    ASSUME Searchable
    PROVE  FirstRef \in {0} \union Imported
<1> DEFINE start == IF code.vm THEN 1 ELSE code.oep
<1>1. start \in Nat \ {0} /\ code.vm \in BOOLEAN
  BY CodeTypes, DiscoveryAssumption
<1>2. /\ FindRef(start, code.vm) \in {0} \union Imported
      /\ FindRef(1, TRUE) \in {0} \union Imported
      /\ FindRef(DelphiStart, TRUE) \in {0} \union Imported
      /\ GoRef \in {0} \union Imported
  <2>1. FindRef(start, code.vm) \in {0} \union Imported
    <3> HIDE DEF start
    <3> QED BY <1>1, FindRefAccepted
  <2>2. FindRef(1, TRUE) \in {0} \union Imported
    <3>1. 1 \in Nat \ {0} /\ TRUE \in BOOLEAN
      OBVIOUS
    <3> QED BY <3>1, FindRefAccepted
  <2>3. FindRef(DelphiStart, TRUE) \in {0} \union Imported
    BY DelphiStarts, FindRefAccepted
  <2> QED BY <2>1, <2>2, <2>3, GoRefHolds
<1> QED
  <2> HIDE DEF start
  <2> QED BY <1>2 DEF FirstRef, start

LEMMA GuardRefHolds ==
    ASSUME Searchable, NEW guard
    PROVE  GuardRef(guard) \in {0} \union Imported
<1> DEFINE holders == {s \in Slots : held[s] = "api"}
<1>1. GuardRef(guard) = IF guard = "call" /\ holders # {} THEN Min(holders) ELSE 0
  BY DEF GuardRef
<1>2. holders \subseteq Imported
  BY DEF Imported, Accepted, AboveText
<1>3. 0 \in Int /\ holders \in SUBSET Int /\ \A s \in holders : 0 <= s
  <2>1. \A s \in Imported : s \in Int /\ 0 <= s
    BY DiscoveryAssumption DEF Imported
  <2> HIDE DEF holders
  <2> QED BY <1>2, <2>1
<1>4. holders # {} => Min(holders) \in holders
  <2> HIDE DEF holders
  <2> SUFFICES ASSUME holders # {} PROVE Min(holders) \in holders
    OBVIOUS
  <2> QED BY <1>3, MinOf
<1> HIDE DEF holders
<1> QED
  BY <1>1, <1>2, <1>4

\* The code is as the program has it until a reference is settled on
SearchInv ==
    /\ pc \in {"scan", "rescan", "earlier"} => Searchable
    /\ pc = "earlier" => ref \in Imported
    /\ ReferenceHoldsAnImport

LEMMA StepsOfTheSearch ==
    ASSUME [ImportsNext]_<<vars, rebuildVars>>
    PROVE  \/ pc' \notin {"scan", "rescan", "earlier", "read"}
           \/ Scan \/ Rescan \/ AdoptEarlier
           \/ UNCHANGED <<pc, layout, code, held, ref>>
<1>1. CASE UNCHANGED <<vars, rebuildVars>>
  BY <1>1 DEF vars
<1>2. CASE Discover
  BY <1>2 DEF Discover, ReadTable, Bound, Enter, Over, vars
<1>3. ASSUME NEW version \in {"V1", "Ancient", "V2", "V3", "unknown"}, Repair(version)
      PROVE  pc' \notin {"scan", "rescan", "earlier", "read"}
  <2>1. FixV1 \/ FixV2 \/ FixV3
    BY <1>3 DEF Repair
  <2> QED BY <2>1 DEF FixV1, FixV2, FixV3, Write, Fail
<1>4. CASE Dump
  BY <1>4 DEF Dump
<1>5. CASE RebuildNext /\ UNCHANGED vars
  BY <1>5 DEF vars
<1> QED
  BY <1>1, <1>2, <1>3, <1>4, <1>5 DEF ImportsNext

LEMMA SearchInvStep ==
    ASSUME SearchInv, [ImportsNext]_<<vars, rebuildVars>>
    PROVE  SearchInv'
<1>1. CASE pc' \notin {"scan", "rescan", "earlier", "read"}
  BY <1>1 DEF SearchInv, ReferenceHoldsAnImport
<1>2. CASE Scan
  <2>1. Searchable /\ Searchable' /\ pc' \in {"rescan", "earlier"} /\ ref' = FirstRef
        /\ (pc' = "earlier" => ref' # 0) /\ Imported' = Imported
    BY <1>2 DEF Scan, SearchInv, Searchable, Codes, Contents, Instructions, Imported, Accepted, AboveText
  <2>2. FirstRef \in {0} \union Imported
    BY <2>1, FirstRefHolds
  <2> QED BY <2>1, <2>2 DEF SearchInv, ReferenceHoldsAnImport
<1>3. CASE Rescan /\ pc' = "read"
  <2>1. Searchable
    BY <1>3 DEF Rescan, SearchInv
  <2>2. ref' \in {EarliestRef, GuardRef("none"), GuardRef("call"), GuardRef("other"), GuardRef("unreadable")}
        /\ ref' # 0 /\ held' = held
    BY <1>3 DEF Rescan, Fail
  <2>3. ref' \in Imported
    BY <2>1, <2>2, EarliestRefHolds, GuardRefHolds
  <2>4. held[ref'] \in {"unreadable", "api", "tramp"}
    BY <2>1, <2>3, AcceptedHolds
  <2> QED BY <1>3, <2>2, <2>4 DEF SearchInv, ReferenceHoldsAnImport
<1>4. CASE Rescan /\ pc' # "read"
  BY <1>4 DEF Rescan, Fail, SearchInv, ReferenceHoldsAnImport
<1>5. CASE AdoptEarlier
  <2>1. Searchable /\ ref \in Imported
    BY <1>5 DEF AdoptEarlier, SearchInv
  <2>2. ref' \in {ref, EarliestRef} /\ (ref' # ref => EarliestRef # 0) /\ held' = held /\ pc' = "read"
    BY <1>5 DEF AdoptEarlier
  <2>3. ref' \in Imported
    BY <2>1, <2>2, EarliestRefHolds
  <2>4. held[ref'] \in {"unreadable", "api", "tramp"}
    BY <2>1, <2>3, AcceptedHolds
  <2> QED BY <2>2, <2>4 DEF SearchInv, ReferenceHoldsAnImport
<1>6. CASE UNCHANGED <<pc, layout, code, held, ref>>
  BY <1>6 DEF SearchInv, ReferenceHoldsAnImport, Searchable, Codes, Contents, Instructions,
              Imported, Accepted, AboveText
<1> QED
  BY <1>1, <1>2, <1>3, <1>4, <1>5, <1>6, StepsOfTheSearch

----------------------------------------------------------------------------
(* The search comes to an end.  Every function is entered once, so that a  *)
(* frame can be named by the instruction its function begins with; and     *)
(* within a function the walk only goes on.  No pair of a function and an  *)
(* instruction is decoded twice, and there are Text * (Text + 1) of them.  *)

Decodes(s, st, D) ==
    /\ s.visited \subseteq 1 .. Text
    /\ st \in [1 .. Len(s.stack) -> s.visited]
    /\ D \subseteq s.visited \X (1 .. Text + 1)
    /\ \A k, l \in 1 .. Len(s.stack) : st[k] = st[l] => k = l
    /\ \A k \in 1 .. Len(s.stack) :
          /\ s.stack[k].at <= IF k = Len(s.stack) THEN Text + 1 ELSE Text
          /\ \A a \in Int : <<st[k], a>> \in D =>
                a < s.stack[k].at \/ (a = s.stack[k].at /\ k < Len(s.stack))

Fresh(s, n) ==
    \E st, D : Decodes(s, st, D) /\ IsFiniteSet(D) /\ Cardinality(D) = n

LEMMA DecodesNew ==
    ASSUME Searchable, NEW s \in States, ~Ended(s), NEW st, NEW D, Decodes(s, st, D)
    PROVE  LET new == <<st[Len(s.stack)], s.stack[Len(s.stack)].at>>
               after == Decoded(s, FALSE)
           IN /\ new \notin D
              /\ Ended(after) \/ \E st2 : Decodes(after, st2, D \union {new})
<1> DEFINE top == Len(s.stack)
           frame == s.stack[top]
           insn == code.text[frame.at]
           new == <<st[top], frame.at>>
           D2 == D \union {new}
           next_ == Decoded(s, FALSE)
<1>1. /\ s.stack \in Seq(Frames) /\ s.stack # <<>> /\ s.visited \in SUBSET (Nat \ {0})
      /\ s.found = 0
  BY DEF States, Ended
<1>2. /\ top \in Nat \ {0} /\ top \in 1 .. top
      /\ \A k \in 1 .. top : s.stack[k] \in Frames /\ s.stack[k].at \in Nat \ {0}
  <2>1. top \in Nat \ {0}
    BY <1>1
  <2>2. \A k \in 1 .. top : s.stack[k] \in Frames
    BY <1>1
  <2>3. \A f \in Frames : f.at \in Nat \ {0}
    BY DEF Frames
  <2> QED BY <2>1, <2>2, <2>3
<1>3. Text \in Nat \ {0}
  BY DiscoveryAssumption
<1>4. /\ s.visited \subseteq 1 .. Text
      /\ st \in [1 .. top -> s.visited]
      /\ D \subseteq s.visited \X (1 .. Text + 1)
      /\ \A k, l \in 1 .. top : st[k] = st[l] => k = l
      /\ \A k \in 1 .. top : s.stack[k].at <= IF k = top THEN Text + 1 ELSE Text
      /\ \A k \in 1 .. top : \A a \in Int : <<st[k], a>> \in D =>
            a < s.stack[k].at \/ (a = s.stack[k].at /\ k < top)
  BY DEF Decodes
<1>5. new \notin D
  BY <1>2, <1>4
<1>6. frame.at \in 1 .. Text + 1 /\ st[top] \in s.visited
  BY <1>2, <1>3, <1>4
<1>7. D2 \subseteq s.visited \X (1 .. Text + 1)
  BY <1>4, <1>6
\* What D2 has of a frame further out it has from D
<1>8. ASSUME NEW k \in 1 .. top, k # top, NEW a \in Int, <<st[k], a>> \in D2
      PROVE  <<st[k], a>> \in D
  BY <1>2, <1>4, <1>8
<1>9. ASSUME next_ = Returned(s)
      PROVE  Ended(next_) \/ \E st2 : Decodes(next_, st2, D2)
  <2> DEFINE outer == SubSeq(s.stack, 1, top - 1)
             stack2 == [outer EXCEPT ![Len(outer)] = [at |-> @.at + 1, count |-> @.count + 1]]
             st2 == [k \in 1 .. top - 1 |-> st[k]]
  <2>1. /\ outer \in Seq(Frames) /\ Len(outer) = top - 1
        /\ \A k \in 1 .. top - 1 : outer[k] = s.stack[k]
    BY <1>1, <1>2
  <2>2. next_.stack = (IF outer = <<>> THEN <<>> ELSE stack2) /\ next_.visited = s.visited
    <3> DEFINE x == IF outer = <<>> THEN <<>> ELSE stack2
    <3>1. Returned(s) = [s EXCEPT !.stack = x]
      BY DEF Returned
    <3> HIDE DEF x
    <3>2. [s EXCEPT !.stack = x].stack = x /\ [s EXCEPT !.stack = x].visited = s.visited
      BY DEF States
    <3> QED BY <1>9, <3>1, <3>2 DEF x
  <2>3. CASE outer = <<>>
    BY <2>2, <2>3 DEF Ended
  <2>4. CASE outer # <<>>
    <3>1. top - 1 \in 1 .. top - 1 /\ top - 1 \in 1 .. top /\ top - 1 # top
      BY <2>1, <2>4, <1>2
    <3>2. /\ Len(stack2) = top - 1
          /\ stack2[top - 1].at = s.stack[top - 1].at + 1
          /\ \A k \in 1 .. top - 1 : k # top - 1 => stack2[k] = s.stack[k]
      <4>1. Len(outer) = top - 1 /\ outer \in Seq(Frames) /\ top - 1 \in 1 .. Len(outer)
        BY <2>1, <3>1
      <4>2. outer[top - 1] = s.stack[top - 1]
        BY <2>1, <3>1
      <4>3. stack2 = [outer EXCEPT ![top - 1] = [at |-> outer[top - 1].at + 1,
                                                 count |-> outer[top - 1].count + 1]]
        BY <4>1
      <4>4. DOMAIN outer = 1 .. top - 1
        <5> HIDE DEF outer
        <5> QED BY <4>1
      <4> HIDE DEF outer
      <4>5. DOMAIN stack2 = 1 .. top - 1 /\ stack2[top - 1].at = s.stack[top - 1].at + 1
        BY <4>2, <4>3, <4>4, <4>1
      <4>6. \A k \in 1 .. top - 1 : k # top - 1 => stack2[k] = outer[k]
        BY <4>3, <4>4
      <4>7. [at |-> outer[top - 1].at + 1, count |-> outer[top - 1].count + 1] \in Frames
        <5>1. outer[top - 1] \in Frames
          BY <4>1
        <5>2. \A f \in Frames : [at |-> f.at + 1, count |-> f.count + 1] \in Frames
          BY DEF Frames
        <5> QED BY <5>1, <5>2
      <4>8. stack2 \in Seq(Frames)
        BY <4>1, <4>3, <4>7
      <4>9. Len(stack2) = top - 1
        <5> HIDE DEF stack2
        <5> QED BY <4>1, <4>5, <4>8
      <4> QED BY <4>5, <4>6, <4>9, <2>1
    <3>3. next_.stack = stack2
      BY <2>2, <2>4
    <3> HIDE DEF stack2, outer, D2, next_, new, frame
    <3>4. st2 \in [1 .. top - 1 -> s.visited] /\ \A k \in 1 .. top - 1 : st2[k] = st[k] /\ k \in 1 .. top
      BY <1>2, <1>4
    <3> HIDE DEF st2
    <3>5. ASSUME NEW k \in 1 .. top - 1
          PROVE  /\ stack2[k].at <= IF k = top - 1 THEN Text + 1 ELSE Text
                 /\ \A a \in Int : <<st2[k], a>> \in D2 =>
                       a < stack2[k].at \/ (a = stack2[k].at /\ k < top - 1)
      <4>1. k \in 1 .. top /\ k # top /\ k < top /\ st2[k] = st[k]
        BY <1>2, <3>4
      <4>2. s.stack[k].at <= Text /\ s.stack[k].at \in Nat
        BY <4>1, <1>2, <1>4
      <4>3. \A a \in Int : <<st2[k], a>> \in D2 => a < s.stack[k].at \/ a = s.stack[k].at
        BY <4>1, <1>4, <1>8
      <4>4. CASE k = top - 1
        <5>1. stack2[k].at = s.stack[k].at + 1
          BY <3>2, <4>4
        <5>2. \A a \in Int : a < s.stack[k].at \/ a = s.stack[k].at => a < s.stack[k].at + 1
          BY <4>2
        <5> QED BY <4>2, <4>3, <4>4, <5>1, <5>2, <1>3
      <4>5. CASE k # top - 1
        <5>1. stack2[k] = s.stack[k] /\ k < top - 1
          BY <3>2, <4>5, <1>2
        <5> QED BY <4>2, <4>3, <4>5, <5>1
      <4> QED BY <4>4, <4>5
    <3>6. \A k, l \in 1 .. top - 1 : st2[k] = st2[l] => k = l
      BY <3>4, <1>4
    <3>7. Decodes(next_, st2, D2)
      BY <2>2, <3>2, <3>3, <3>4, <3>5, <3>6, <1>4, <1>7 DEF Decodes
    <3> QED BY <3>7
  <2> QED BY <2>3, <2>4
<1>10. ASSUME next_ = Passed(s), frame.at <= Text
       PROVE  \E st2 : Decodes(next_, st2, D2)
  <2> DEFINE stack2 == [s.stack EXCEPT ![top] = [at |-> @.at + 1, count |-> @.count + 1]]
  <2>1. /\ Len(stack2) = top /\ stack2[top].at = frame.at + 1
        /\ \A k \in 1 .. top : k # top => stack2[k] = s.stack[k]
    BY <1>1, <1>2
  <2>2. next_.stack = stack2 /\ next_.visited = s.visited
    <3>1. Passed(s) = [s EXCEPT !.stack = stack2]
      BY <1>1 DEF Passed, States
    <3> HIDE DEF stack2
    <3>2. [s EXCEPT !.stack = stack2].stack = stack2 /\ [s EXCEPT !.stack = stack2].visited = s.visited
      BY DEF States
    <3> QED BY <1>10, <3>1, <3>2
  <2>3. \A a \in Int : <<st[top], a>> \in D2 => a < frame.at \/ a = frame.at
    BY <1>2, <1>4
  <2>4. frame.at \in Nat
    BY <1>2
  <2> HIDE DEF stack2, D2, next_, new, frame
  <2>5. ASSUME NEW k \in 1 .. top
        PROVE  /\ stack2[k].at <= IF k = top THEN Text + 1 ELSE Text
               /\ \A a \in Int : <<st[k], a>> \in D2 =>
                     a < stack2[k].at \/ (a = stack2[k].at /\ k < top)
    <3>1. CASE k = top
      <4>1. \A a \in Int : a < frame.at \/ a = frame.at => a < frame.at + 1
        BY <2>4
      <4> QED BY <4>1, <3>1, <2>1, <2>3, <2>4, <1>3, <1>10
    <3>2. CASE k # top
      BY <3>2, <2>1, <1>2, <1>4, <1>8
    <3> QED BY <3>1, <3>2
  <2>6. Decodes(next_, st, D2)
    BY <2>1, <2>2, <2>5, <1>4, <1>7 DEF Decodes
  <2> QED BY <2>6
<1>11. ASSUME next_ = Entered(s, insn.to), insn.to \in 1 .. Text, frame.at <= Text
       PROVE  \E st2 : Decodes(next_, st2, D2)
  <2> DEFINE p == insn.to
             stack2 == Append(s.stack, FrameAt(p))
             visited2 == s.visited \union {p}
             st2 == [k \in 1 .. top + 1 |-> IF k = top + 1 THEN p ELSE st[k]]
  <2>1. CASE Len(s.stack) > FollowDepth \/ p \in s.visited
    <3>1. next_ = Passed(s)
      BY <2>1, <1>11 DEF Entered
    <3> QED BY <3>1, <1>10, <1>11
  <2>2. CASE ~(Len(s.stack) > FollowDepth \/ p \in s.visited)
    <3>1. /\ Len(stack2) = top + 1 /\ stack2[top + 1].at = p
          /\ \A k \in 1 .. top : stack2[k] = s.stack[k]
      <4>1. FrameAt(p) \in Frames /\ FrameAt(p).at = p
        <5>1. p \in Nat \ {0}
          <6> HIDE DEF p
          <6> QED BY <1>3, <1>11 DEF p
        <5>2. \A q \in Nat \ {0} : FrameAt(q) \in Frames /\ FrameAt(q).at = q
          BY DEF FrameAt, Frames
        <5> QED BY <5>1, <5>2
      <4> QED BY <1>1, <1>2, <4>1
    <3>2. next_.stack = stack2 /\ next_.visited = visited2
      <4>1. Entered(s, p) = [s EXCEPT !.stack = stack2, !.visited = visited2]
        BY <2>2 DEF Entered
      <4> HIDE DEF stack2, visited2
      <4>2. /\ [s EXCEPT !.stack = stack2, !.visited = visited2].stack = stack2
            /\ [s EXCEPT !.stack = stack2, !.visited = visited2].visited = visited2
        BY DEF States
      <4> QED BY <1>11, <4>1, <4>2
    <3>3. p \notin s.visited /\ p \in 1 .. Text
      BY <2>2, <1>11
    <3>4. \A a \in Int : <<st[top], a>> \in D2 => a < frame.at \/ a = frame.at
      BY <1>2, <1>4
    <3>5. \A a \in Int : <<p, a>> \notin D2
      BY <3>3, <1>7
    <3> HIDE DEF stack2, D2, next_, new, frame, p
    <3>6. /\ st2 \in [1 .. top + 1 -> visited2] /\ st2[top + 1] = p
          /\ \A k \in 1 .. top : st2[k] = st[k]
      BY <1>2, <1>4
    <3> HIDE DEF st2
    <3>7. ASSUME NEW k \in 1 .. top + 1
          PROVE  /\ stack2[k].at <= IF k = top + 1 THEN Text + 1 ELSE Text
                 /\ \A a \in Int : <<st2[k], a>> \in D2 =>
                       a < stack2[k].at \/ (a = stack2[k].at /\ k < top + 1)
      <4>1. CASE k = top + 1
        BY <4>1, <3>1, <3>3, <3>5, <3>6, <1>3
      <4>2. CASE k = top
        <5>1. stack2[k] = frame /\ st2[k] = st[top] /\ k < top + 1 /\ k # top + 1
          BY <4>2, <3>1, <3>6, <1>2 DEF frame
        <5> QED BY <5>1, <3>4, <1>11
      <4>3. CASE k \in 1 .. top /\ k # top
        <5>1. stack2[k] = s.stack[k] /\ st2[k] = st[k] /\ k < top + 1 /\ k < top /\ k # top + 1
          BY <4>3, <3>1, <3>6, <1>2
        <5>2. \A a \in Int : <<st[k], a>> \in D2 => a < s.stack[k].at \/ a = s.stack[k].at
          BY <4>3, <1>4, <1>8
        <5>3. s.stack[k].at <= Text
          BY <4>3, <1>4
        <5> QED BY <5>1, <5>2, <5>3
      <4> QED BY <4>1, <4>2, <4>3, <1>2
    <3>8. ASSUME NEW k \in 1 .. top + 1, NEW l \in 1 .. top + 1, st2[k] = st2[l]
          PROVE  k = l
      <4>1. \A m \in 1 .. top : st2[m] \in s.visited
        BY <3>6, <1>4
      <4>2. CASE k = top + 1 /\ l = top + 1
        BY <4>2
      <4>3. CASE k \in 1 .. top /\ l \in 1 .. top
        BY <4>3, <3>6, <3>8, <1>4
      <4>4. CASE (k = top + 1 /\ l \in 1 .. top) \/ (l = top + 1 /\ k \in 1 .. top)
        BY <4>1, <4>4, <3>3, <3>6, <3>8
      <4> QED BY <4>2, <4>3, <4>4, <1>2
    <3>9. visited2 \subseteq 1 .. Text /\ D2 \subseteq visited2 \X (1 .. Text + 1)
      BY <3>3, <1>4, <1>7
    <3>10. Decodes(next_, st2, D2)
      <4> HIDE DEF visited2
      <4> QED BY <3>1, <3>2, <3>6, <3>7, <3>8, <3>9, <1>2 DEF Decodes
    <3> QED BY <3>10
  <2> QED BY <2>1, <2>2
<1>12. Ended(next_) \/ \E st2 : Decodes(next_, st2, D2)
  <2>1. CASE frame.at > Text \/ frame.count >= InstrLimit
    <3>1. next_ = Returned(s)
      BY <2>1 DEF Decoded
    <3> QED BY <3>1, <1>9
  <2>2. CASE ~(frame.at > Text \/ frame.count >= InstrLimit)
    <3>1. frame.at \in 1 .. Text /\ frame.at <= Text
      BY <2>2, <1>2, <1>3
    <3>2. CASE Indirect(frame.at) /\ Accepted(insn.to)
      <4>1. insn.to \in Slots /\ 0 \notin Slots
        BY <3>1, <3>2, OperandsAreSlots, DiscoveryAssumption DEF Indirect
      <4>2. next_ = [s EXCEPT !.found = insn.to]
        BY <2>2, <3>2 DEF Decoded
      <4>3. [s EXCEPT !.found = insn.to].found = insn.to
        BY DEF States
      <4> QED BY <4>1, <4>2, <4>3 DEF Ended
    <3>3. CASE ~(Indirect(frame.at) /\ Accepted(insn.to))
      <4>1. next_ = CASE insn.op = "call" -> Entered(s, insn.to)
                      [] insn.op = "ret" -> Returned(s)
                      [] OTHER -> Passed(s)
        BY <2>2, <3>3 DEF Decoded
      <4>2. insn.op = "call" => insn.to \in 1 .. Text
        BY <3>1, OperandsAreSlots
      <4> HIDE DEF next_, D2
      <4>3. CASE insn.op = "call"
        BY <4>1, <4>2, <4>3, <3>1, <1>11
      <4>4. CASE insn.op = "ret"
        BY <4>1, <4>4, <1>9
      <4>5. CASE insn.op \notin {"call", "ret"}
        BY <4>1, <4>5, <3>1, <1>10
      <4> QED BY <4>3, <4>4, <4>5
    <3> QED BY <3>2, <3>3
  <2> QED BY <2>1, <2>2
<1> QED
  BY <1>5, <1>12

LEMMA FreshStep ==
    ASSUME Searchable, NEW s \in States, ~Ended(s), NEW n \in Nat, Fresh(s, n)
    PROVE  Ended(Decoded(s, FALSE)) \/ Fresh(Decoded(s, FALSE), n + 1)
<1>1. PICK st, D : Decodes(s, st, D) /\ IsFiniteSet(D) /\ Cardinality(D) = n
  BY DEF Fresh
<1> DEFINE new == <<st[Len(s.stack)], s.stack[Len(s.stack)].at>>
           next_ == Decoded(s, FALSE)
<1>2. new \notin D /\ (Ended(next_) \/ \E st2 : Decodes(next_, st2, D \union {new}))
  BY <1>1, DecodesNew
<1>3. IsFiniteSet(D \union {new}) /\ Cardinality(D \union {new}) = n + 1
  <2> HIDE DEF new
  <2> QED BY <1>1, <1>2, FS_AddElement
<1> HIDE DEF new, next_
<1>4. Ended(next_) \/ Fresh(next_, n + 1)
  BY <1>2, <1>3 DEF Fresh
<1> QED
  BY <1>4 DEF next_

\* There are not more pairs than functions times instructions
LEMMA FreshIsBounded ==
    ASSUME Searchable, NEW s, NEW n \in Nat, Fresh(s, n)
    PROVE  n <= Text * (Text + 1)
<1>1. PICK st, D : Decodes(s, st, D) /\ IsFiniteSet(D) /\ Cardinality(D) = n
  BY DEF Fresh
<1> DEFINE P == (1 .. Text) \X (1 .. Text + 1)
<1>2. D \subseteq P
  BY <1>1 DEF Decodes
<1>3. Text \in Nat \ {0} /\ 1 \in Int /\ Text \in Int /\ Text + 1 \in Int /\ Text + 1 \in Nat
  BY DiscoveryAssumption
<1>4. /\ IsFiniteSet(1 .. Text) /\ Cardinality(1 .. Text) = Text
      /\ IsFiniteSet(1 .. Text + 1) /\ Cardinality(1 .. Text + 1) = Text + 1
  BY <1>3, FS_Interval
<1>5. IsFiniteSet(P) /\ Cardinality(P) = Text * (Text + 1)
  <2> DEFINE A == 1 .. Text
             B == 1 .. Text + 1
  <2>1. IsFiniteSet(A) /\ Cardinality(A) = Text /\ IsFiniteSet(B) /\ Cardinality(B) = Text + 1
    BY <1>4
  <2> HIDE DEF A, B
  <2>2. IsFiniteSet(A \X B) /\ Cardinality(A \X B) = Cardinality(A) * Cardinality(B)
    BY <2>1, FS_Product
  <2>3. IsFiniteSet(A \X B) /\ Cardinality(A \X B) = Text * (Text + 1)
    BY <2>1, <2>2
  <2> QED BY <2>3 DEF A, B
<1>6. Cardinality(D) <= Cardinality(P)
  <2> HIDE DEF P
  <2> QED BY <1>2, <1>5, FS_Subset
<1> QED
  BY <1>1, <1>5, <1>6

LEMMA SearchEnds ==
    ASSUME Searchable, NEW start \in 1 .. Text
    PROVE  Ended(SearchState(start, FALSE))
<1> DEFINE N == SearchSteps
           run == SearchRun(start, FALSE)
           T == {n \in Nat : Ended(run[n]) \/ Fresh(run[n], n)}
<1>1. Text \in Nat \ {0} /\ start \in Nat \ {0} /\ FALSE \in BOOLEAN
  BY DiscoveryAssumption
<1>2. /\ N \in Nat
      /\ run \in [0 .. N -> States]
      /\ run[0] = Begun(start)
      /\ \A n \in 1 .. N : run[n] = IF Ended(run[n - 1]) THEN run[n - 1]
                                    ELSE Decoded(run[n - 1], FALSE)
  BY <1>1, SearchRunIs
<1>3. 0 \in T
  <2> DEFINE st == [k \in 1 .. 1 |-> start]
  <2>1. Begun(start).stack = <<FrameAt(start)>> /\ Begun(start).visited = {start}
    BY DEF Begun
  <2>2. /\ Len(Begun(start).stack) = 1 /\ Begun(start).stack[1].at = start
    BY <2>1 DEF FrameAt
  <2>3. st \in [1 .. 1 -> {start}] /\ \A k, l \in 1 .. 1 : st[k] = st[l] => k = l
    OBVIOUS
  <2> HIDE DEF st
  <2>4. Decodes(Begun(start), st, {})
    BY <2>1, <2>2, <2>3, <1>1 DEF Decodes
  <2>5. IsFiniteSet({}) /\ Cardinality({}) = 0
    BY FS_EmptySet
  <2>6. Fresh(Begun(start), 0)
    BY <2>4, <2>5 DEF Fresh
  <2> HIDE DEF run
  <2> QED BY <2>6, <1>2
<1>4. ASSUME NEW n \in 0 .. N - 1, n \in T PROVE n + 1 \in T
  <2> HIDE DEF run, N
  <2>1. n \in Nat /\ n + 1 \in Nat /\ n \in 0 .. N /\ n + 1 \in 1 .. N /\ (n + 1) - 1 = n
    BY <1>2
  <2>2. run[n] \in States /\ run[n + 1] = IF Ended(run[n]) THEN run[n] ELSE Decoded(run[n], FALSE)
    BY <2>1, <1>2
  <2>3. Ended(run[n + 1]) \/ Fresh(run[n + 1], n + 1)
    <3>1. CASE Ended(run[n])
      BY <3>1, <2>2
    <3>2. CASE ~Ended(run[n])
      <4>1. Fresh(run[n], n)
        BY <3>2, <1>4
      <4> QED BY <3>2, <4>1, <2>1, <2>2, FreshStep
    <3> QED BY <3>1, <3>2
  <2> QED BY <2>1, <2>3
<1>5. N \in T
  <2> HIDE DEF T, N
  <2>1. \A n \in 0 .. N : n \in T
    BY <1>2, <1>3, <1>4, UpFrom
  <2> QED BY <1>2, <2>1
<1>6. ~(N <= Text * (Text + 1))
  <2>1. Text * (Text + 2) = Text * (Text + 1) + Text
    BY <1>1
  <2>2. Text * (Text + 1) \in Int
    BY <1>1
  <2> DEFINE x == Text * (Text + 1)
  <2>3. N = x + Text
    BY <2>1 DEF SearchSteps
  <2> HIDE DEF x, N
  <2>4. ~(N <= x)
    BY <2>2, <2>3, <1>1 DEF x
  <2> QED BY <2>4 DEF x
<1>7. ~Fresh(run[N], N)
  <2> HIDE DEF run, N
  <2> QED BY <1>2, <1>6, FreshIsBounded
<1> QED
  BY <1>5, <1>7 DEF SearchState

LEMMA SearchInvHolds == ImportsSpec => []SearchInv
<1>1. ImportsInit => SearchInv
  BY DEF ImportsInit, Init, SearchInv, Searchable, ReferenceHoldsAnImport
<1> QED
  BY <1>1, SearchInvStep, PTL DEF ImportsSpec

(* Whatever the code at the entry point is, in cycles or not, the search   *)
(* for a reference to the import table comes to an end within one decoding *)
(* of each instruction for each function, and what the boundaries are then *)
(* grown from holds something the program imports through                  *)
(* (find_iat_ref_from_address).                                            *)
THEOREM TheSearchFindsAnImport == ImportsSpec => []SearchFindsAnImport
<1>1. SearchInv => SearchFindsAnImport
  <2> SUFFICES ASSUME SearchInv PROVE SearchIsBounded /\ ReferenceHoldsAnImport
    BY DEF SearchFindsAnImport
  <2>1. SearchIsBounded
    <3> SUFFICES ASSUME pc = "scan" PROVE Ended(SearchState(code.oep, FALSE))
      BY DEF SearchIsBounded
    <3>1. Searchable
      BY DEF SearchInv
    <3> QED BY <3>1, CodeTypes, SearchEnds
  <2>2. ReferenceHoldsAnImport
    BY DEF SearchInv
  <2> QED BY <2>1, <2>2
<1> QED
  BY <1>1, SearchInvHolds, PTL

----------------------------------------------------------------------------
(* A finite set in ascending order has each of its elements once *)

LEMMA AscendingIs ==
    ASSUME NEW S \in SUBSET Int, IsFiniteSet(S)
    PROVE  /\ Cardinality(S) \in Nat
           /\ Ascending(S) \in [1 .. Cardinality(S) -> S]
           /\ \A i, j \in 1 .. Cardinality(S) : Ascending(S)[i] = Ascending(S)[j] => i = j
           /\ \A x \in S : \E i \in 1 .. Cardinality(S) : Ascending(S)[i] = x
<1> DEFINE n == Cardinality(S)
           Below(x) == {y \in S : y <= x}
           rank == [x \in S |-> Cardinality(Below(x))]
<1>1. n \in Nat
  BY FS_CardinalityType
<1>2. ASSUME NEW x \in S
      PROVE  IsFiniteSet(Below(x)) /\ Cardinality(Below(x)) \in 1 .. n
  <2>1. Below(x) \in SUBSET S /\ x \in Below(x)
    OBVIOUS
  <2>2. IsFiniteSet(Below(x)) /\ Cardinality(Below(x)) <= n
    BY <2>1, FS_Subset
  <2>3. Cardinality(Below(x)) # 0 /\ Cardinality(Below(x)) \in Nat
    BY <2>1, <2>2, FS_EmptySet, FS_CardinalityType
  <2> QED BY <2>2, <2>3, <1>1
<1>3. ASSUME NEW x \in S, NEW y \in S, x < y
      PROVE  Cardinality(Below(x)) # Cardinality(Below(y))
  <2>1. \A z \in S : z \in Int
    OBVIOUS
  <2>2. ASSUME NEW z \in Below(x) PROVE z \in Below(y)
    <3>1. z \in S /\ z <= x /\ z \in Int /\ x \in Int /\ y \in Int
      BY <2>1
    <3>2. z <= y
      BY <3>1, <1>3
    <3> QED BY <3>1, <3>2
  <2>3. y \in Below(y) /\ y \notin Below(x)
    BY <1>3, <2>1
  <2> HIDE DEF Below
  <2> QED BY <2>2, <2>3, <1>2, FS_Subset
<1>4. ASSUME NEW x \in S, NEW y \in S, rank[x] = rank[y] PROVE x = y
  <2>1. ~(x < y) /\ ~(y < x)
    BY <1>3, <1>4
  <2>2. x \in Int /\ y \in Int
    OBVIOUS
  <2> HIDE DEF rank
  <2> QED BY <2>1, <2>2
<1>5. rank \in [S -> 1 .. n]
  BY <1>2
<1>6. rank \in Injection(S, 1 .. n)
  BY <1>4, <1>5 DEF Injection, IsInjective
<1>7. IsFiniteSet(1 .. n) /\ Cardinality(1 .. n) = n
  BY <1>1, FS_Interval
<1>8. rank \in Surjection(S, 1 .. n)
  <2> HIDE DEF rank
  <2> QED BY <1>6, <1>7, FS_Injection
<1>9. \A i \in 1 .. n : \E x \in S : Cardinality(Below(x)) = i
  BY <1>8 DEF Surjection
<1>10. \A i \in 1 .. n : Ascending(S)[i] \in S /\ Cardinality(Below(Ascending(S)[i])) = i
  BY <1>9 DEF Ascending
<1>11. Ascending(S) \in [1 .. n -> S]
  BY <1>10 DEF Ascending
<1>12. ASSUME NEW x \in S PROVE \E i \in 1 .. n : Ascending(S)[i] = x
  <2>1. rank[x] \in 1 .. n
    BY <1>5
  <2>2. rank[Ascending(S)[rank[x]]] = rank[x] /\ Ascending(S)[rank[x]] \in S
    BY <2>1, <1>10
  <2> QED BY <2>1, <2>2, <1>4
<1>13. \A i, j \in 1 .. n : Ascending(S)[i] = Ascending(S)[j] => i = j
  BY <1>10
<1> QED
  BY <1>1, <1>11, <1>12, <1>13

LEMMA ImageIsFinite ==
    ASSUME NEW S, IsFiniteSet(S), NEW f
    PROVE  IsFiniteSet({f[x] : x \in S}) /\ Cardinality({f[x] : x \in S}) <= Cardinality(S)
<1> DEFINE T == {f[x] : x \in S}
           g == [x \in S |-> f[x]]
<1>1. g \in Surjection(S, T)
  BY DEF Surjection
<1> HIDE DEF g, T
<1>2. IsFiniteSet(T) /\ Cardinality(T) <= Cardinality(S)
  BY <1>1, FS_Surjection
<1> QED
  BY <1>2 DEF T

LEMMA InModules ==
    ASSUME NEW S \in SUBSET Modules
    PROVE  S \in SUBSET Int /\ IsFiniteSet(S)
<1>1. IsFiniteSet(Modules) /\ Modules \subseteq Int
  BY RebuildAssumption
<1> QED
  BY <1>1, FS_Subset

----------------------------------------------------------------------------
(* What the slots may stand for *)

\* The snapshot is of the world
Snapped == world \in Worlds /\ known \subseteq world

\* What is at an address or forwards to it, and what a string there means
CandidateSet(v) ==
    {[mod |-> e.mod, at |-> v] : e \in ForwardMap(v) \union {f \in known : f.at = v}}
        \union {[mod |-> t.mod, at |-> t.at] : t \in StringMap(v)}

LEMMA KnownEntries ==
    ASSUME Snapped
    PROVE  /\ IsFiniteSet(known)
           /\ \A e \in known : e.mod \in Modules /\ e.at # 0
<1>1. IsFiniteSet(world) /\ \A e \in world : e.mod \in Modules /\ e.at # 0
  BY RebuildAssumption DEF Snapped
<1> QED
  BY <1>1, FS_Subset DEF Snapped

LEMMA ForwardMapIs ==
    ASSUME NEW v
    PROVE  /\ \A e \in ForwardMap(v) : e \in known /\ \E t \in ForwardTarget(e) : t.at = v
           /\ \A e, f \in ForwardMap(v) : e = f
<1> DEFINE sources == {e \in known : \E t \in ForwardTarget(e) : t.at = v}
           best == {e \in sources : \A f \in sources :
                       \/ Priority[f.mod] < Priority[e.mod]
                       \/ Priority[f.mod] = Priority[e.mod] /\ e.mod <= f.mod}
<1>1. ForwardMap(v) = IF best = {} THEN {} ELSE {CHOOSE e \in best : TRUE}
  BY DEF ForwardMap
<1>2. best \subseteq sources
  OBVIOUS
<1> HIDE DEF best
<1>3. \A e \in ForwardMap(v) : e \in sources
  BY <1>1, <1>2
<1>4. \A e, f \in ForwardMap(v) : e = f
  BY <1>1
<1> QED
  BY <1>3, <1>4

LEMMA CandidatesAre ==
    ASSUME Snapped, NEW v
    PROVE  /\ Candidates(v) \in Seq(CandidateSet(v))
           /\ v # 0 /\ Resolve(v) # {} => Candidates(v) # <<>>
<1> DEFINE choice(ms) == [i \in DOMAIN ms |-> [mod |-> ms[i], at |-> v]]
           F == {e.mod : e \in ForwardMap(v)}
           E == {e.mod : e \in {f \in known : f.at = v}}
           R == {[mod |-> t.mod, at |-> t.at] : t \in StringMap(v)}
           C == CandidateSet(v)
<1>1. ASSUME NEW S \in SUBSET Modules, \A m \in S : [mod |-> m, at |-> v] \in C
      PROVE  /\ choice(Ascending(S)) \in Seq(C)
             /\ S # {} => Len(choice(Ascending(S))) > 0
  <2>1. S \in SUBSET Int /\ IsFiniteSet(S)
    BY InModules
  <2>2. /\ Cardinality(S) \in Nat
        /\ Ascending(S) \in [1 .. Cardinality(S) -> S]
    BY <2>1, AscendingIs
  <2>3. choice(Ascending(S)) \in [1 .. Cardinality(S) -> C]
    <3> HIDE DEF C
    <3> QED BY <2>2, <1>1
  <2>4. S # {} => Cardinality(S) # 0
    BY <2>1, FS_EmptySet
  <2> HIDE DEF choice, C
  <2> QED BY <2>2, <2>3, <2>4
<1>2. F \in SUBSET Modules /\ \A m \in F : [mod |-> m, at |-> v] \in C
  <2>1. ForwardMap(v) \subseteq known
    BY ForwardMapIs
  <2>2. F \in SUBSET Modules
    BY <2>1, KnownEntries
  <2> QED BY <2>2 DEF CandidateSet
<1>3. E \in SUBSET Modules /\ \A m \in E : [mod |-> m, at |-> v] \in C
  BY KnownEntries DEF CandidateSet
<1>4. SetToSeq(R) \in Seq(C)
  <2>1. StringMap(v) \in SUBSET known
    BY DEF StringMap, ForwardTarget, TargetIn
  <2>2. IsFiniteSet(StringMap(v))
    BY <2>1, KnownEntries, FS_Subset
  <2>3. R \in SUBSET C
    BY DEF CandidateSet
  <2>4. IsFiniteSet(R)
    <3> DEFINE f == [t \in StringMap(v) |-> [mod |-> t.mod, at |-> t.at]]
    <3>1. R = {f[t] : t \in StringMap(v)}
      OBVIOUS
    <3> HIDE DEF f, R
    <3> QED BY <3>1, <2>2, ImageIsFinite
  <2> HIDE DEF R, C
  <2>5. Cardinality(R) \in Nat /\ \E f \in [1 .. Cardinality(R) -> R] : IsInjective(f)
    BY <2>4, FS_CardinalityType DEF ExistsBijection, Bijection, Injection
  <2>6. SetToSeq(R) \in [1 .. Cardinality(R) -> R]
    BY <2>5, Zenon DEF SetToSeq
  <2> QED BY <2>3, <2>5, <2>6
<1>5. Resolve(v) # {} => E # {}
  BY DEF Resolve
<1>6. Candidates(v) = IF v = 0 THEN <<>>
                      ELSE choice(Ascending(F)) \o choice(Ascending(E)) \o SetToSeq(R)
  BY DEF Candidates
<1> HIDE DEF choice, F, E, R, C
<1>7. /\ choice(Ascending(F)) \in Seq(C) /\ choice(Ascending(E)) \in Seq(C)
      /\ E # {} => Len(choice(Ascending(E))) > 0
  BY <1>1, <1>2, <1>3
<1>8. Candidates(v) \in Seq(C)
  BY <1>4, <1>6, <1>7
<1>9. ASSUME v # 0, Resolve(v) # {} PROVE Candidates(v) # <<>>
  <2>1. Candidates(v) = choice(Ascending(F)) \o choice(Ascending(E)) \o SetToSeq(R)
    BY <1>6, <1>9
  <2>2. Len(choice(Ascending(E))) > 0
    BY <1>5, <1>7, <1>9
  <2>3. Len(Candidates(v)) > 0
    BY <1>4, <1>7, <2>1, <2>2
  <2> QED BY <2>3
<1> QED
  BY <1>8, <1>9 DEF C

----------------------------------------------------------------------------
(* Builders *)

\* Modules with their thunks, no two of them for one slot
IsBuilder(b) ==
    /\ \E X : b \in Seq(X)
    /\ \A i \in DOMAIN b : /\ b[i].mod \in Modules
                           /\ \E X : b[i].thunks \in Seq(X)
                           /\ Len(b[i].thunks) > 0
    /\ \A i, j \in DOMAIN b : \A k \in DOMAIN b[i].thunks, l \in DOMAIN b[j].thunks :
          b[i].thunks[k].slot = b[j].thunks[l].slot => i = j /\ k = l

Indices == 0 .. TableSlots - 1

IsPairs(p) ==
    /\ DOMAIN p \in SUBSET Indices
    /\ \A s \in DOMAIN p : p[s].mod \in Modules /\ p[s].thunk.slot = s

LEMMA InIndices ==
    ASSUME NEW S \in SUBSET Indices
    PROVE  S \in SUBSET Int /\ IsFiniteSet(S)
<1>1. TableSlots - 1 \in Int
  BY RebuildAssumption
<1>2. IsFiniteSet(Indices)
  BY <1>1, FS_Interval DEF Indices
<1>3. S \in SUBSET Int
  BY DEF Indices
<1> QED
  BY <1>2, <1>3, FS_Subset

LEMMA IsSequence ==
    ASSUME NEW n \in Nat, NEW t, t = [k \in 1 .. n |-> t[k]]
    PROVE  (\E X : t \in Seq(X)) /\ Len(t) = n
<1>1. t \in [1 .. n -> {t[k] : k \in 1 .. n}]
  OBVIOUS
<1>2. t \in Seq({t[k] : k \in 1 .. n}) /\ Len(t) = n
  BY <1>1
<1> QED
  BY <1>2

LEMMA BucketedIs ==
    ASSUME NEW p, IsPairs(p)
    PROVE  IsBuilder(Bucketed(p)) /\ OwnedBy(Bucketed(p)) = DOMAIN p
<1> DEFINE M == {p[s].mod : s \in DOMAIN p}
           D(m) == {s \in DOMAIN p : p[s].mod = m}
           mods == Ascending(M)
           b == Bucketed(p)
<1>1. /\ Cardinality(M) \in Nat
      /\ mods \in [1 .. Cardinality(M) -> M]
      /\ \A i, j \in 1 .. Cardinality(M) : mods[i] = mods[j] => i = j
      /\ \A m \in M : \E i \in 1 .. Cardinality(M) : mods[i] = m
  <2>1. M \in SUBSET Modules
    BY DEF IsPairs
  <2> HIDE DEF M
  <2> QED BY <2>1, InModules, AscendingIs
<1>2. ASSUME NEW m
      PROVE  /\ Cardinality(D(m)) \in Nat
             /\ Ascending(D(m)) \in [1 .. Cardinality(D(m)) -> D(m)]
             /\ \A i, j \in 1 .. Cardinality(D(m)) :
                    Ascending(D(m))[i] = Ascending(D(m))[j] => i = j
             /\ \A s \in D(m) : \E k \in 1 .. Cardinality(D(m)) : Ascending(D(m))[k] = s
  <2>1. D(m) \in SUBSET Indices
    BY DEF IsPairs
  <2> HIDE DEF D
  <2> QED BY <2>1, InIndices, AscendingIs
<1>3. /\ b = [i \in 1 .. Cardinality(M) |->
                [mod |-> mods[i],
                 thunks |-> [k \in 1 .. Cardinality(D(mods[i])) |-> p[Ascending(D(mods[i]))[k]].thunk]]]
  <2>1. b = [i \in DOMAIN mods |->
                [mod |-> mods[i],
                 thunks |-> [k \in DOMAIN Ascending(D(mods[i])) |-> p[Ascending(D(mods[i]))[k]].thunk]]]
    BY DEF Bucketed
  <2>2. DOMAIN mods = 1 .. Cardinality(M)
    BY <1>1
  <2>3. \A m : DOMAIN Ascending(D(m)) = 1 .. Cardinality(D(m))
    BY <1>2
  <2> HIDE DEF mods, M, D, b
  <2> QED BY <2>1, <2>2, <2>3
<1> HIDE DEF M, D, mods, b
<1>4. ASSUME NEW i \in DOMAIN b
      PROVE  /\ i \in 1 .. Cardinality(M) /\ mods[i] \in M
             /\ b[i].mod = mods[i]
             /\ b[i].thunks = [k \in 1 .. Cardinality(D(mods[i])) |->
                                    p[Ascending(D(mods[i]))[k]].thunk]
             /\ DOMAIN b[i].thunks = 1 .. Cardinality(D(mods[i]))
  BY <1>1, <1>3
<1>5. ASSUME NEW i \in DOMAIN b, NEW k \in DOMAIN b[i].thunks
      PROVE  /\ b[i].thunks[k].slot = Ascending(D(mods[i]))[k]
             /\ b[i].thunks[k].slot \in DOMAIN p
             /\ p[b[i].thunks[k].slot].mod = mods[i]
             /\ k \in 1 .. Cardinality(D(mods[i]))
  <2>1. k \in 1 .. Cardinality(D(mods[i])) /\ b[i].thunks[k] = p[Ascending(D(mods[i]))[k]].thunk
    BY <1>4
  <2>2. Ascending(D(mods[i]))[k] \in D(mods[i])
    BY <2>1, <1>2
  <2> QED BY <2>1, <2>2 DEF D, IsPairs
<1>6. \E X : b \in Seq(X)
  <2>1. b \in Seq({b[i] : i \in 1 .. Cardinality(M)})
    BY <1>1, <1>3
  <2> QED BY <2>1
<1>7. ASSUME NEW i \in DOMAIN b
      PROVE  /\ b[i].mod \in Modules
             /\ \E X : b[i].thunks \in Seq(X)
             /\ Len(b[i].thunks) > 0
  <2>1. mods[i] \in M /\ b[i].mod = mods[i]
    BY <1>4
  <2>2. D(mods[i]) # {} /\ mods[i] \in Modules
    BY <2>1 DEF M, D, IsPairs
  <2>3. Cardinality(D(mods[i])) \in Nat /\ Cardinality(D(mods[i])) # 0
    BY <2>2, <1>2
  <2>4. b[i].thunks = [k \in 1 .. Cardinality(D(mods[i])) |-> b[i].thunks[k]]
    BY <1>4
  <2>5. (\E X : b[i].thunks \in Seq(X)) /\ Len(b[i].thunks) = Cardinality(D(mods[i]))
    BY <2>3, <2>4, IsSequence
  <2> QED BY <2>1, <2>2, <2>3, <2>5
<1>8. ASSUME NEW i \in DOMAIN b, NEW j \in DOMAIN b,
             NEW k \in DOMAIN b[i].thunks, NEW l \in DOMAIN b[j].thunks,
             b[i].thunks[k].slot = b[j].thunks[l].slot
      PROVE  i = j /\ k = l
  <2>1. mods[i] = mods[j]
    BY <1>5, <1>8
  <2>2. i = j
    BY <2>1, <1>1, <1>4
  <2>3. Ascending(D(mods[i]))[k] = Ascending(D(mods[i]))[l]
    BY <2>2, <1>5, <1>8
  <2> QED BY <2>2, <2>3, <1>2, <1>5
<1>9. OwnedBy(b) \subseteq DOMAIN p
  BY <1>5 DEF OwnedBy, SlotsOf
<1>10. ASSUME NEW s \in DOMAIN p PROVE s \in OwnedBy(b)
  <2>1. PICK i \in 1 .. Cardinality(M) : mods[i] = p[s].mod
    BY <1>1 DEF M
  <2>2. s \in D(mods[i])
    BY <2>1 DEF D
  <2> HIDE DEF D
  <2>3. PICK k \in 1 .. Cardinality(D(mods[i])) : Ascending(D(mods[i]))[k] = s
    BY <2>2, <1>2
  <2>4. i \in DOMAIN b
    BY <1>3
  <2>5. k \in DOMAIN b[i].thunks
    BY <2>3, <2>4, <1>4
  <2>6. b[i].thunks[k].slot = s
    BY <2>3, <2>4, <2>5, <1>5
  <2> QED BY <2>4, <2>5, <2>6 DEF OwnedBy, SlotsOf
<1> QED
  BY <1>6, <1>7, <1>8, <1>9, <1>10 DEF IsBuilder, b

LEMMA BuilderDomains ==
    ASSUME NEW b, IsBuilder(b)
    PROVE  /\ Len(b) \in Nat /\ DOMAIN b = 1 .. Len(b)
           /\ \A i \in DOMAIN b : /\ Len(b[i].thunks) \in Nat \ {0}
                                  /\ DOMAIN b[i].thunks = 1 .. Len(b[i].thunks)
<1>1. PICK X : b \in Seq(X)
  BY DEF IsBuilder
<1>2. ASSUME NEW i \in DOMAIN b
      PROVE  /\ Len(b[i].thunks) \in Nat \ {0}
             /\ DOMAIN b[i].thunks = 1 .. Len(b[i].thunks)
  <2>1. PICK Y : b[i].thunks \in Seq(Y)
    BY DEF IsBuilder
  <2>2. Len(b[i].thunks) > 0
    BY DEF IsBuilder
  <2> QED BY <2>1, <2>2
<1> QED
  BY <1>1, <1>2

LEMMA OwnSlots ==
    ASSUME NEW b, IsBuilder(b), NEW i \in DOMAIN b, NEW k \in DOMAIN b[i].thunks
    PROVE  /\ b[i].thunks[k].slot \in SlotsOf(b[i])
           /\ b[i].thunks[k].slot \in OwnedBy(b)
           /\ ThunkIn(b[i], b[i].thunks[k].slot) = b[i].thunks[k]
<1>1. \A l \in DOMAIN b[i].thunks : b[i].thunks[l].slot = b[i].thunks[k].slot => l = k
  BY DEF IsBuilder
<1>2. (CHOOSE l \in DOMAIN b[i].thunks : b[i].thunks[l].slot = b[i].thunks[k].slot) = k
  BY <1>1
<1>3. ThunkIn(b[i], b[i].thunks[k].slot) = b[i].thunks[k]
  BY <1>2 DEF ThunkIn
<1>4. b[i].thunks[k].slot \in SlotsOf(b[i])
  BY DEF SlotsOf
<1> QED
  BY <1>3, <1>4 DEF OwnedBy

LEMMA OwnedIn ==
    ASSUME NEW b, NEW s \in OwnedBy(b)
    PROVE  \E i \in DOMAIN b : \E k \in DOMAIN b[i].thunks : b[i].thunks[k].slot = s
BY DEF OwnedBy, SlotsOf

LEMMA OneOwner ==
    ASSUME NEW b, IsBuilder(b), NEW i \in DOMAIN b, NEW j \in DOMAIN b,
           NEW s \in SlotsOf(b[i]), s \in SlotsOf(b[j])
    PROVE  i = j
BY DEF IsBuilder, SlotsOf

LEMMA Joined ==
    ASSUME NEW b, IsBuilder(b), NEW c, IsBuilder(c), OwnedBy(b) \intersect OwnedBy(c) = {}
    PROVE  IsBuilder(b \o c) /\ OwnedBy(b \o c) = OwnedBy(b) \union OwnedBy(c)
<1> DEFINE d == b \o c
<1>1. /\ Len(b) \in Nat /\ DOMAIN b = 1 .. Len(b)
      /\ Len(c) \in Nat /\ DOMAIN c = 1 .. Len(c)
  BY BuilderDomains
<1>2. PICK X, Y : b \in Seq(X) /\ c \in Seq(Y)
  BY DEF IsBuilder
<1>3. b \in Seq(X \union Y) /\ c \in Seq(X \union Y)
  BY <1>1, <1>2
<1>4. /\ d \in Seq(X \union Y) /\ Len(d) = Len(b) + Len(c) /\ DOMAIN d = 1 .. Len(b) + Len(c)
      /\ \A i \in 1 .. Len(b) : d[i] = b[i]
      /\ \A i \in Len(b) + 1 .. Len(b) + Len(c) : d[i] = c[i - Len(b)]
  BY <1>1, <1>3
<1> HIDE DEF d
<1>5. ASSUME NEW i \in DOMAIN d
      PROVE  \/ i \in DOMAIN b /\ d[i] = b[i]
             \/ i - Len(b) \in DOMAIN c /\ d[i] = c[i - Len(b)] /\ i \in Int
  <2>1. CASE i <= Len(b)
    BY <1>1, <1>4, <2>1
  <2>2. CASE i > Len(b)
    BY <1>1, <1>4, <2>2
  <2> QED BY <2>1, <2>2, <1>1, <1>4
<1>6. \A i \in DOMAIN d : /\ d[i].mod \in Modules
                          /\ \E Z : d[i].thunks \in Seq(Z)
                          /\ Len(d[i].thunks) > 0
  BY <1>5 DEF IsBuilder
<1>7. ASSUME NEW i \in DOMAIN d, NEW j \in DOMAIN d,
             NEW k \in DOMAIN d[i].thunks, NEW l \in DOMAIN d[j].thunks,
             d[i].thunks[k].slot = d[j].thunks[l].slot
      PROVE  i = j /\ k = l
  <2>1. CASE i \in DOMAIN b /\ d[i] = b[i] /\ j \in DOMAIN b /\ d[j] = b[j]
    BY <2>1, <1>7 DEF IsBuilder
  <2>2. CASE i \in DOMAIN b /\ d[i] = b[i] /\ j - Len(b) \in DOMAIN c /\ d[j] = c[j - Len(b)]
    <3>1. d[i].thunks[k].slot \in OwnedBy(b)
      BY <2>2 DEF OwnedBy, SlotsOf
    <3>2. d[j].thunks[l].slot \in OwnedBy(c)
      BY <2>2 DEF OwnedBy, SlotsOf
    <3> QED BY <3>1, <3>2, <1>7
  <2>3. CASE j \in DOMAIN b /\ d[j] = b[j] /\ i - Len(b) \in DOMAIN c /\ d[i] = c[i - Len(b)]
    <3>1. d[j].thunks[l].slot \in OwnedBy(b)
      BY <2>3 DEF OwnedBy, SlotsOf
    <3>2. d[i].thunks[k].slot \in OwnedBy(c)
      BY <2>3 DEF OwnedBy, SlotsOf
    <3> QED BY <3>1, <3>2, <1>7
  <2>4. CASE /\ i - Len(b) \in DOMAIN c /\ d[i] = c[i - Len(b)] /\ i \in Int
             /\ j - Len(b) \in DOMAIN c /\ d[j] = c[j - Len(b)] /\ j \in Int
    <3>1. i - Len(b) = j - Len(b) /\ k = l
      BY <2>4, <1>7 DEF IsBuilder
    <3> QED BY <3>1, <2>4, <1>1
  <2> QED BY <2>1, <2>2, <2>3, <2>4, <1>5
<1>8. ASSUME NEW s \in OwnedBy(d) PROVE s \in OwnedBy(b) \union OwnedBy(c)
  <2>1. PICK i \in DOMAIN d : s \in SlotsOf(d[i])
    BY DEF OwnedBy
  <2> QED BY <2>1, <1>5 DEF OwnedBy
<1>9. ASSUME NEW s \in OwnedBy(b) PROVE s \in OwnedBy(d)
  <2>1. PICK i \in DOMAIN b : s \in SlotsOf(b[i])
    BY DEF OwnedBy
  <2>2. i \in DOMAIN d /\ d[i] = b[i]
    BY <1>1, <1>4
  <2> QED BY <2>1, <2>2 DEF OwnedBy
<1>10. ASSUME NEW s \in OwnedBy(c) PROVE s \in OwnedBy(d)
  <2>1. PICK i \in DOMAIN c : s \in SlotsOf(c[i])
    BY DEF OwnedBy
  <2>2. i + Len(b) \in DOMAIN d /\ d[i + Len(b)] = c[i]
    <3>1. i + Len(b) \in Len(b) + 1 .. Len(b) + Len(c) /\ (i + Len(b)) - Len(b) = i
      BY <1>1
    <3> QED BY <3>1, <1>1, <1>4
  <2> QED BY <2>1, <2>2 DEF OwnedBy
<1>11. IsBuilder(d)
  BY <1>4, <1>6, <1>7 DEF IsBuilder
<1> QED
  BY <1>8, <1>9, <1>10, <1>11 DEF d

LEMMA PairsIs ==
    ASSUME NEW b, IsBuilder(b), OwnedBy(b) \in SUBSET Indices
    PROVE  IsPairs(Pairs(b)) /\ DOMAIN Pairs(b) = OwnedBy(b)
<1>1. DOMAIN Pairs(b) = OwnedBy(b)
  BY DEF Pairs
<1>2. ASSUME NEW s \in OwnedBy(b)
      PROVE  Pairs(b)[s].mod \in Modules /\ Pairs(b)[s].thunk.slot = s
  <2> DEFINE I == {i \in DOMAIN b : s \in SlotsOf(b[i])}
  <2>1. Min(I) \in I
    <3>1. I # {}
      BY DEF OwnedBy
    <3>2. I \in SUBSET Int /\ \A i \in I : 1 <= i
      BY BuilderDomains
    <3> HIDE DEF I
    <3> QED BY <3>1, <3>2, MinOf
  <2> HIDE DEF I
  <2>2. PICK i : i = Min(I)
    OBVIOUS
  <2>3. i \in DOMAIN b /\ s \in SlotsOf(b[i])
    BY <2>1, <2>2 DEF I
  <2>4. Pairs(b)[s] = [mod |-> b[i].mod, thunk |-> ThunkIn(b[i], s)]
    BY <2>2 DEF Pairs, I
  <2>5. PICK k \in DOMAIN b[i].thunks : b[i].thunks[k].slot = s
    BY <2>3 DEF SlotsOf
  <2>6. ThunkIn(b[i], s) = b[i].thunks[k]
    BY <2>3, <2>5, OwnSlots
  <2>7. b[i].mod \in Modules
    BY <2>3 DEF IsBuilder
  <2> QED BY <2>4, <2>5, <2>6, <2>7
<1> QED
  BY <1>1, <1>2 DEF IsPairs

\* Moving a thunk to another module leaves it where it is
LEMMA RehomedIs ==
    ASSUME Snapped, NEW p, p.mod \in Modules, NEW s, p.thunk.slot = s
    PROVE  Rehomed(p).mod \in Modules /\ Rehomed(p).thunk.slot = s
<1>1. ASSUME NEW e \in known PROVE As(p, e).mod \in Modules /\ As(p, e).thunk.slot = s
  BY KnownEntries DEF As
<1>2. \A a : StubFor(a) \subseteq known /\ Resolve(a) \subseteq known
  BY DEF StubFor, Resolve
<1>3. PICK derived, found : /\ derived = StubFor(iat[p.thunk.slot + 1])
                            /\ found = Resolve(iat[p.thunk.slot + 1])
  OBVIOUS
<1>4. Rehomed(p) = CASE derived # {} -> As(p, CHOOSE e \in derived : TRUE)
         [] derived = {} /\ ~p.thunk.ord /\ HasName(p.mod, p) -> p
         [] OTHER -> IF found = {} THEN p ELSE As(p, CHOOSE e \in found : TRUE)
  BY <1>3 DEF Rehomed
<1>5. CASE derived # {}
  <2>1. (CHOOSE e \in derived : TRUE) \in known
    BY <1>2, <1>3, <1>5
  <2>2. Rehomed(p) = As(p, CHOOSE e \in derived : TRUE)
    BY <1>4, <1>5
  <2> QED BY <2>1, <2>2, <1>1
<1>6. CASE derived = {}
  <2>1. found # {} => (CHOOSE e \in found : TRUE) \in known
    BY <1>2, <1>3
  <2>2. \/ Rehomed(p) = p
        \/ found # {} /\ Rehomed(p) = As(p, CHOOSE e \in found : TRUE)
    <3> HIDE DEF Rehomed, As
    <3> QED BY <1>4, <1>6
  <2> QED BY <2>1, <2>2, <1>1
<1> QED
  BY <1>5, <1>6

----------------------------------------------------------------------------
(* The normalised builder *)

LEMMA ClusterIs ==
    ASSUME NEW p, IsPairs(p), NEW s \in DOMAIN p
    PROVE  \E hi \in DOMAIN p : /\ s \in Int /\ hi \in Int /\ s <= hi
                                /\ Cluster(p, s) = s .. hi
                                /\ s .. hi \subseteq DOMAIN p
                                /\ hi + 1 \notin DOMAIN p
<1> DEFINE C == Cluster(p, s)
<1>1. \A j \in DOMAIN p : j \in Int /\ j < TableSlots
  BY RebuildAssumption DEF IsPairs, Indices
<1>2. s \in C
  BY <1>1 DEF Cluster
<1>3. C \in SUBSET Int /\ \A j \in C : j <= TableSlots
  BY <1>1, RebuildAssumption DEF Cluster
<1> DEFINE hi == Max(C)
<1>4. hi \in C /\ hi \in Int /\ \A j \in C : j <= hi
  <2> HIDE DEF C
  <2>1. TableSlots \in Int
    BY RebuildAssumption
  <2> QED BY <1>2, <1>3, <2>1, MaxOf
<1> HIDE DEF hi
<1>5. hi \in DOMAIN p /\ s <= hi /\ s .. hi \subseteq DOMAIN p
  BY <1>4 DEF Cluster
<1>6. C = s .. hi
  <2>1. ASSUME NEW j \in C PROVE j \in s .. hi
    BY <1>1, <1>3, <1>4, <2>1 DEF Cluster
  <2>2. ASSUME NEW j \in s .. hi PROVE j \in C
    <3>1. j \in DOMAIN p /\ j >= s
      BY <1>1, <1>5
    <3>2. s .. j \subseteq DOMAIN p
      BY <1>1, <1>4, <1>5
    <3> QED BY <3>1, <3>2 DEF Cluster
  <2> QED BY <2>1, <2>2
<1>7. hi + 1 \notin DOMAIN p
  <2> SUFFICES ASSUME hi + 1 \in DOMAIN p PROVE FALSE
    OBVIOUS
  <2>1. \A j \in s .. hi + 1 : j \in s .. hi \/ j = hi + 1
    BY <1>1, <1>4
  <2>2. s .. hi + 1 \subseteq DOMAIN p
    BY <2>1, <1>5
  <2>3. hi + 1 \in C
    BY <2>2, <1>1, <1>4, <1>5 DEF Cluster
  <2> QED BY <2>3, <1>4
<1> QED
  BY <1>1, <1>4, <1>5, <1>6, <1>7

\* A cluster, with nothing of p before and behind it
IsRun(p, own) ==
    \E lo, hi \in Int : /\ lo <= hi /\ own = lo .. hi /\ lo .. hi \subseteq p
                        /\ lo - 1 \notin p /\ hi + 1 \notin p

LEMMA NormalisedIs ==
    ASSUME NEW p, IsPairs(p)
    PROVE  /\ IsBuilder(Normalised(p))
           /\ OwnedBy(Normalised(p)) \subseteq DOMAIN p
           /\ \A i \in DOMAIN Normalised(p) : IsRun(DOMAIN p, SlotsOf(Normalised(p)[i]))
<1> DEFINE S == Covered(p)
           first == Ascending(S)
           b == Normalised(p)
           m(i) == CHOOSE n \in Covering(p, Cluster(p, first[i])) : TRUE
<1>1. /\ Cardinality(S) \in Nat
      /\ first \in [1 .. Cardinality(S) -> S]
      /\ \A i, j \in 1 .. Cardinality(S) : first[i] = first[j] => i = j
  <2>1. S \in SUBSET Indices
    BY DEF Covered, IsPairs
  <2> HIDE DEF S
  <2> QED BY <2>1, InIndices, AscendingIs
<1>2. b = [i \in 1 .. Cardinality(S) |->
             [mod |-> m(i),
              thunks |-> [k \in 1 .. Cardinality(Cluster(p, first[i])) |-> p[first[i] + k - 1].thunk]]]
  <2>1. b = [i \in DOMAIN first |->
             [mod |-> m(i),
              thunks |-> [k \in 1 .. Cardinality(Cluster(p, first[i])) |-> p[first[i] + k - 1].thunk]]]
    BY DEF Normalised
  <2>2. DOMAIN first = 1 .. Cardinality(S)
    BY <1>1
  <2> HIDE DEF b, first, S, m
  <2> QED BY <2>1, <2>2
<1>3. ASSUME NEW s \in DOMAIN p PROVE Covering(p, Cluster(p, s)) \subseteq Modules
  BY DEF Covering, Cluster, IsPairs
<1> HIDE DEF first, b, m
<1>4. ASSUME NEW i \in 1 .. Cardinality(S)
      PROVE  first[i] \in DOMAIN p /\ first[i] - 1 \notin DOMAIN p /\ m(i) \in Modules
  <2>1. first[i] \in S
    BY <1>1
  <2>2. /\ first[i] \in DOMAIN p /\ first[i] - 1 \notin DOMAIN p
        /\ Covering(p, Cluster(p, first[i])) # {}
    BY <2>1 DEF Covered
  <2> QED BY <2>2, <1>3 DEF m
<1>5. ASSUME NEW i \in DOMAIN b
      PROVE  \E hi \in Int :
                /\ first[i] \in Int /\ first[i] <= hi
                /\ hi + 1 \notin DOMAIN p
                /\ first[i] .. hi \subseteq DOMAIN p
                /\ i \in 1 .. Cardinality(S)
                /\ b[i].mod \in Modules
                /\ \E X : b[i].thunks \in Seq(X)
                /\ Len(b[i].thunks) = hi - first[i] + 1
                /\ DOMAIN b[i].thunks = 1 .. hi - first[i] + 1
                /\ \A k \in 1 .. hi - first[i] + 1 : b[i].thunks[k].slot = first[i] + k - 1
  <2>1. i \in 1 .. Cardinality(S)
    BY <1>2
  <2>2. PICK lo : lo = first[i]
    OBVIOUS
  <2>3. lo \in DOMAIN p
    BY <2>1, <2>2, <1>4
  <2>4. PICK hi \in DOMAIN p : /\ lo \in Int /\ hi \in Int /\ lo <= hi
                               /\ Cluster(p, lo) = lo .. hi
                               /\ lo .. hi \subseteq DOMAIN p
                               /\ hi + 1 \notin DOMAIN p
    BY <2>3, ClusterIs
  <2>5. Cardinality(Cluster(p, lo)) = hi - lo + 1
    BY <2>4, FS_Interval
  <2>6. /\ b[i].mod = m(i)
        /\ b[i].thunks = [k \in 1 .. hi - lo + 1 |-> p[lo + k - 1].thunk]
    BY <2>1, <2>2, <2>5, <1>2
  <2>7. hi - lo + 1 \in Nat
    BY <2>4
  <2>8. b[i].thunks = [k \in 1 .. hi - lo + 1 |-> b[i].thunks[k]]
    BY <2>6
  <2>9. (\E X : b[i].thunks \in Seq(X)) /\ Len(b[i].thunks) = hi - lo + 1
    BY <2>7, <2>8, IsSequence
  <2>10. ASSUME NEW k \in 1 .. hi - lo + 1 PROVE b[i].thunks[k].slot = lo + k - 1
    <3>1. lo + k - 1 \in lo .. hi
      BY <2>4
    <3>2. lo + k - 1 \in DOMAIN p
      BY <3>1, <2>4
    <3> QED BY <3>2, <2>6 DEF IsPairs
  <2>11. DOMAIN b[i].thunks = 1 .. hi - lo + 1
    BY <2>6
  <2>12. b[i].mod \in Modules
    BY <2>1, <2>6, <1>4
  <2> QED BY <2>1, <2>2, <2>4, <2>9, <2>10, <2>11, <2>12
<1>6. ASSUME NEW i \in DOMAIN b
      PROVE  \E hi \in Int :
                /\ first[i] \in Int /\ first[i] <= hi
                /\ SlotsOf(b[i]) = first[i] .. hi
                /\ first[i] .. hi \subseteq DOMAIN p
                /\ hi + 1 \notin DOMAIN p
                /\ first[i] - 1 \notin DOMAIN p
  <2>1. PICK lo : lo = first[i]
    OBVIOUS
  <2>2. PICK hi \in Int :
                /\ lo \in Int /\ lo <= hi
                /\ hi + 1 \notin DOMAIN p
                /\ lo .. hi \subseteq DOMAIN p
                /\ i \in 1 .. Cardinality(S)
                /\ DOMAIN b[i].thunks = 1 .. hi - lo + 1
                /\ \A k \in 1 .. hi - lo + 1 : b[i].thunks[k].slot = lo + k - 1
    BY <2>1, <1>5
  <2>3. ASSUME NEW s \in SlotsOf(b[i]) PROVE s \in lo .. hi
    BY <2>2 DEF SlotsOf
  <2>4. ASSUME NEW s \in lo .. hi PROVE s \in SlotsOf(b[i])
    <3>1. s - lo + 1 \in 1 .. hi - lo + 1 /\ lo + (s - lo + 1) - 1 = s
      BY <2>2
    <3> QED BY <3>1, <2>2 DEF SlotsOf
  <2>5. lo - 1 \notin DOMAIN p
    BY <2>1, <2>2, <1>4
  <2>6. SlotsOf(b[i]) = lo .. hi
    BY <2>3, <2>4
  <2> QED BY <2>1, <2>2, <2>5, <2>6
<1>7. \E X : b \in Seq(X)
  <2>1. b = [i \in 1 .. Cardinality(S) |-> b[i]]
    BY <1>2
  <2> QED BY <2>1, <1>1, IsSequence
<1>8. ASSUME NEW i \in DOMAIN b
      PROVE  /\ b[i].mod \in Modules
             /\ \E X : b[i].thunks \in Seq(X)
             /\ Len(b[i].thunks) > 0
  <2>1. PICK lo : lo = first[i]
    OBVIOUS
  <2>2. PICK hi \in Int : /\ lo \in Int /\ lo <= hi
                          /\ b[i].mod \in Modules
                          /\ \E X : b[i].thunks \in Seq(X)
                          /\ Len(b[i].thunks) = hi - lo + 1
    BY <2>1, <1>5
  <2>3. hi - lo + 1 > 0
    BY <2>2
  <2> QED BY <2>2, <2>3
<1>9. ASSUME NEW i \in DOMAIN b, NEW j \in DOMAIN b,
             NEW k \in DOMAIN b[i].thunks, NEW l \in DOMAIN b[j].thunks,
             b[i].thunks[k].slot = b[j].thunks[l].slot
      PROVE  i = j /\ k = l
  <2>1. PICK s : s = b[i].thunks[k].slot
    OBVIOUS
  <2>2. PICK lo, lp : lo = first[i] /\ lp = first[j]
    OBVIOUS
  <2>3. PICK hi \in Int :
                /\ lo \in Int /\ lo <= hi
                /\ lo .. hi \subseteq DOMAIN p
                /\ i \in 1 .. Cardinality(S)
                /\ DOMAIN b[i].thunks = 1 .. hi - lo + 1
                /\ \A n \in 1 .. hi - lo + 1 : b[i].thunks[n].slot = lo + n - 1
    BY <2>2, <1>5
  <2>4. PICK hj \in Int :
                /\ lp \in Int /\ lp <= hj
                /\ lp .. hj \subseteq DOMAIN p
                /\ j \in 1 .. Cardinality(S)
                /\ DOMAIN b[j].thunks = 1 .. hj - lp + 1
                /\ \A n \in 1 .. hj - lp + 1 : b[j].thunks[n].slot = lp + n - 1
    BY <2>2, <1>5
  <2>5. s = lo + k - 1 /\ k \in 1 .. hi - lo + 1 /\ s = lp + l - 1 /\ l \in 1 .. hj - lp + 1
    BY <2>1, <2>3, <2>4, <1>9
  <2>6. lo - 1 \notin DOMAIN p /\ lp - 1 \notin DOMAIN p
    BY <2>2, <2>3, <2>4, <1>4
  <2>7. lo = lp
    <3>1. CASE lo < lp
      <4>1. lp - 1 \in lo .. hi
        BY <3>1, <2>3, <2>4, <2>5
      <4> QED BY <4>1, <2>3, <2>6
    <3>2. CASE lp < lo
      <4>1. lo - 1 \in lp .. hj
        BY <3>2, <2>3, <2>4, <2>5
      <4> QED BY <4>1, <2>4, <2>6
    <3> QED BY <3>1, <3>2, <2>3, <2>4
  <2>8. i = j
    BY <2>2, <2>3, <2>4, <2>7, <1>1
  <2>9. k = l
    BY <2>3, <2>5, <2>7
  <2> QED BY <2>8, <2>9
<1>10. OwnedBy(b) \subseteq DOMAIN p
  BY <1>6 DEF OwnedBy
<1>11. ASSUME NEW i \in DOMAIN b PROVE IsRun(DOMAIN p, SlotsOf(b[i]))
  BY <1>6 DEF IsRun
<1> QED
  BY <1>7, <1>8, <1>9, <1>10, <1>11 DEF IsBuilder, b

----------------------------------------------------------------------------
(* The modules are written one after the other *)

\* What the slots may hold when the thunks of the builder are written over init
Holding(init) ==
    {init[s] : s \in DOMAIN init} \union {Zero}
        \union {ThunkValue(builder[q[1]].thunks[q[2]]) : q \in
                   {p \in (DOMAIN builder) \X Nat : p[2] \in DOMAIN builder[p[1]].thunks}}

LEMMA WrittenThunk ==
    ASSUME IsBuilder(builder), NEW i \in DOMAIN builder, NEW s \in SlotsOf(builder[i]), NEW init
    PROVE  ThunkValue(ThunkIn(builder[i], s)) \in Holding(init)
<1>1. PICK k \in DOMAIN builder[i].thunks : builder[i].thunks[k].slot = s
  BY DEF SlotsOf
<1>2. ThunkIn(builder[i], s) = builder[i].thunks[k]
  BY <1>1, OwnSlots
<1>3. k \in Nat
  BY BuilderDomains
<1>4. <<i, k>> \in {p \in (DOMAIN builder) \X Nat : p[2] \in DOMAIN builder[p[1]].thunks}
  BY <1>3
<1> HIDE DEF ThunkValue
<1> QED
  BY <1>2, <1>4 DEF Holding

LEMMA AllLookupsAre ==
    ASSUME IsBuilder(builder), NEW D, NEW R, NEW init \in [D -> R]
    PROVE  \E w : /\ w[0] = init
                  /\ \A n \in DOMAIN builder : w[n] = LookupWritten(w[n - 1], builder[n])
                  /\ \A n \in 0 .. Len(builder) : w[n] \in [D -> Holding(init)]
                  /\ AllLookups(init) = w[Len(builder)]
<1> DEFINE N == Len(builder)
           V == Holding(init)
           S == [D -> V]
           Step == [p \in S \X (1 .. N) |-> LookupWritten(p[1], builder[p[2]])]
           F(f) == [n \in 0 .. N |-> IF n = 0 THEN init ELSE LookupWritten(f[n - 1], builder[n])]
           run == CHOOSE f : f = F(f)
<1>1. N \in Nat /\ DOMAIN builder = 1 .. N
  BY BuilderDomains
<1>2. ASSUME NEW x \in S, NEW n \in 1 .. N PROVE LookupWritten(x, builder[n]) \in S
  <2>1. \A s \in SlotsOf(builder[n]) : ThunkValue(ThunkIn(builder[n], s)) \in V
    BY <1>1, WrittenThunk
  <2>2. Zero \in V
    BY DEF Holding
  <2> HIDE DEF V
  <2> QED BY <2>1, <2>2 DEF LookupWritten
<1>3. Step \in [S \X (1 .. N) -> S]
  <2> HIDE DEF S, N
  <2> QED BY <1>2
<1>4. init \in S
  <2>1. \A s \in D : init[s] \in V
    BY DEF Holding
  <2> HIDE DEF V
  <2> QED BY <2>1
<1>5. PICK f \in [0 .. N -> S] : Iterates(f, init, Step, N)
  <2> HIDE DEF Step, N, S
  <2> QED BY <1>1, <1>3, <1>4, Recursion
<1>6. f = F(f)
  <2> HIDE DEF N, S
  <2>1. ASSUME NEW n \in 0 .. N PROVE f[n] = F(f)[n]
    <3>1. CASE n = 0
      BY <1>5, <3>1 DEF Iterates
    <3>2. CASE n # 0
      <4>1. n - 1 \in 0 .. N /\ n \in 1 .. N
        BY <3>2, <1>1
      <4>2. f[n - 1] \in S
        BY <4>1
      <4>3. f[n] = Step[<<f[n - 1], n>>]
        BY <1>5, <4>1 DEF Iterates
      <4> QED BY <4>1, <4>2, <4>3, <3>2
    <3> QED BY <3>1, <3>2
  <2> QED BY <1>5, <2>1
<1>7. run = F(run)
  <2> HIDE DEF F
  <2> QED BY <1>6, Zenon
<1>8. AllLookups(init) = run[N]
  BY DEF AllLookups
<1> HIDE DEF run
<1>9. /\ run[0] = init
      /\ \A n \in 1 .. N : run[n] = LookupWritten(run[n - 1], builder[n])
  <2> HIDE DEF N
  <2> QED BY <1>1, <1>7
<1>10. \A n \in 0 .. N : run[n] \in S
  <2> DEFINE T == {n \in Nat : run[n] \in S}
  <2> HIDE DEF N, S
  <2>1. 0 \in T
    BY <1>4, <1>9
  <2>2. ASSUME NEW n \in 0 .. N - 1, n \in T PROVE n + 1 \in T
    <3>1. n + 1 \in 1 .. N /\ (n + 1) - 1 = n /\ n + 1 \in Nat
      BY <1>1
    <3>2. run[n + 1] = LookupWritten(run[n], builder[n + 1])
      BY <3>1, <1>9
    <3>3. run[n] \in S
      BY <2>2
    <3>4. run[n + 1] \in S
      BY <3>1, <3>2, <3>3, <1>2
    <3> QED BY <3>1, <3>4
  <2> HIDE DEF T
  <2>3. \A n \in 0 .. N - 1 : n \in T => n + 1 \in T
    BY <2>2
  <2>4. \A n \in 0 .. N : n \in T
    <3>1. 0 \in Int /\ N \in Int
      BY <1>1
    <3> QED BY <3>1, <2>1, <2>3, UpFrom
  <2> QED BY <2>4 DEF T
<1> QED
  BY <1>1, <1>8, <1>9, <1>10

LEMMA AllOutputsAre ==
    ASSUME IsBuilder(builder), NEW D, NEW R, NEW init \in [D -> R]
    PROVE  \E w : /\ w[0] = init
                  /\ \A n \in DOMAIN builder : w[n] = OutputWritten(w[n - 1], builder[n])
                  /\ \A n \in 0 .. Len(builder) : w[n] \in [D -> Holding(init)]
                  /\ AllOutputs(init) = w[Len(builder)]
<1> DEFINE N == Len(builder)
           V == Holding(init)
           S == [D -> V]
           Step == [p \in S \X (1 .. N) |-> OutputWritten(p[1], builder[p[2]])]
           F(f) == [n \in 0 .. N |-> IF n = 0 THEN init ELSE OutputWritten(f[n - 1], builder[n])]
           run == CHOOSE f : f = F(f)
<1>1. N \in Nat /\ DOMAIN builder = 1 .. N
  BY BuilderDomains
<1>2. ASSUME NEW x \in S, NEW n \in 1 .. N PROVE OutputWritten(x, builder[n]) \in S
  <2>1. \A s \in SlotsOf(builder[n]) : ThunkValue(ThunkIn(builder[n], s)) \in V
    BY <1>1, WrittenThunk
  <2>2. Zero \in V
    BY DEF Holding
  <2> HIDE DEF V
  <2> QED BY <2>1, <2>2 DEF OutputWritten
<1>3. Step \in [S \X (1 .. N) -> S]
  <2> HIDE DEF S, N
  <2> QED BY <1>2
<1>4. init \in S
  <2>1. \A s \in D : init[s] \in V
    BY DEF Holding
  <2> HIDE DEF V
  <2> QED BY <2>1
<1>5. PICK f \in [0 .. N -> S] : Iterates(f, init, Step, N)
  <2> HIDE DEF Step, N, S
  <2> QED BY <1>1, <1>3, <1>4, Recursion
<1>6. f = F(f)
  <2> HIDE DEF N, S
  <2>1. ASSUME NEW n \in 0 .. N PROVE f[n] = F(f)[n]
    <3>1. CASE n = 0
      BY <1>5, <3>1 DEF Iterates
    <3>2. CASE n # 0
      <4>1. n - 1 \in 0 .. N /\ n \in 1 .. N
        BY <3>2, <1>1
      <4>2. f[n - 1] \in S
        BY <4>1
      <4>3. f[n] = Step[<<f[n - 1], n>>]
        BY <1>5, <4>1 DEF Iterates
      <4> QED BY <4>1, <4>2, <4>3, <3>2
    <3> QED BY <3>1, <3>2
  <2> QED BY <1>5, <2>1
<1>7. run = F(run)
  <2> HIDE DEF F
  <2> QED BY <1>6, Zenon
<1>8. AllOutputs(init) = run[N]
  BY DEF AllOutputs
<1> HIDE DEF run
<1>9. /\ run[0] = init
      /\ \A n \in 1 .. N : run[n] = OutputWritten(run[n - 1], builder[n])
  <2> HIDE DEF N
  <2> QED BY <1>1, <1>7
<1>10. \A n \in 0 .. N : run[n] \in S
  <2> DEFINE T == {n \in Nat : run[n] \in S}
  <2> HIDE DEF N, S
  <2>1. 0 \in T
    BY <1>4, <1>9
  <2>2. ASSUME NEW n \in 0 .. N - 1, n \in T PROVE n + 1 \in T
    <3>1. n + 1 \in 1 .. N /\ (n + 1) - 1 = n /\ n + 1 \in Nat
      BY <1>1
    <3>2. run[n + 1] = OutputWritten(run[n], builder[n + 1])
      BY <3>1, <1>9
    <3>3. run[n] \in S
      BY <2>2
    <3>4. run[n + 1] \in S
      BY <3>1, <3>2, <3>3, <1>2
    <3> QED BY <3>1, <3>4
  <2> HIDE DEF T
  <2>3. \A n \in 0 .. N - 1 : n \in T => n + 1 \in T
    BY <2>2
  <2>4. \A n \in 0 .. N : n \in T
    <3>1. 0 \in Int /\ N \in Int
      BY <1>1
    <3> QED BY <3>1, <2>1, <2>3, UpFrom
  <2> QED BY <2>4 DEF T
<1> QED
  BY <1>1, <1>8, <1>9, <1>10

\* What a module clears outside its slots
Cleared(i, s) ==
    LET last == Max(SlotsOf(builder[i]) \union {0})
    IN \/ s = last + 1
       \/ classic /\ s \in Min(SlotsOf(builder[i])) .. last /\ s \notin Owned

LEMMA LookedUp ==
    ASSUME IsBuilder(builder), NEW D, NEW R, NEW init \in [D -> R]
    PROVE  /\ AllLookups(init) \in [D -> Holding(init)]
           /\ \A s \in D \ Owned :
                 AllLookups(init)[s] = IF \E i \in DOMAIN builder : Cleared(i, s) THEN Zero ELSE init[s]
<1>1. PICK w : /\ w[0] = init
               /\ \A n \in DOMAIN builder : w[n] = LookupWritten(w[n - 1], builder[n])
               /\ \A n \in 0 .. Len(builder) : w[n] \in [D -> Holding(init)]
               /\ AllLookups(init) = w[Len(builder)]
  BY AllLookupsAre
<1>2. Len(builder) \in Nat /\ DOMAIN builder = 1 .. Len(builder)
  BY BuilderDomains
<1>3. ASSUME NEW s \in D \ Owned
      PROVE  AllLookups(init)[s] = IF \E i \in DOMAIN builder : Cleared(i, s) THEN Zero ELSE init[s]
  <2> DEFINE N == Len(builder)
             After(n) == IF \E i \in 1 .. n : Cleared(i, s) THEN Zero ELSE init[s]
             T == {n \in Nat : w[n][s] = After(n)}
  <2> HIDE DEF N
  <2>0. N \in Nat /\ DOMAIN builder = 1 .. N
    BY <1>2 DEF N
  <2>1. 0 \in T
    BY <1>1
  <2>2. ASSUME NEW n \in 0 .. N - 1, n \in T PROVE n + 1 \in T
    <3>1. n + 1 \in DOMAIN builder /\ (n + 1) - 1 = n /\ n \in 0 .. N /\ n + 1 \in Nat
      BY <2>0
    <3>2. w[n + 1] = LookupWritten(w[n], builder[n + 1]) /\ DOMAIN w[n] = D
      BY <3>1, <1>1 DEF N
    <3>3. s \notin SlotsOf(builder[n + 1])
      BY <3>1 DEF Owned, OwnedBy
    <3>4. w[n + 1][s] = IF Cleared(n + 1, s) THEN Zero ELSE w[n][s]
      BY <3>2, <3>3 DEF LookupWritten, Cleared
    <3>5. w[n][s] = After(n)
      BY <2>2
    <3>6. \A i : i \in 1 .. n + 1 <=> (i \in 1 .. n \/ i = n + 1)
      BY <3>1
    <3> HIDE DEF Cleared
    <3>7. w[n + 1][s] = After(n + 1)
      BY <3>4, <3>5, <3>6
    <3> QED BY <3>1, <3>7
  <2> HIDE DEF T
  <2>3. \A n \in 0 .. N - 1 : n \in T => n + 1 \in T
    BY <2>2
  <2>4. \A n \in 0 .. N : n \in T
    <3>1. 0 \in Int /\ N \in Int
      BY <2>0
    <3> QED BY <3>1, <2>1, <2>3, UpFrom
  <2>5. w[N][s] = After(N)
    BY <2>0, <2>4 DEF T
  <2> QED BY <2>5, <1>1, <2>0 DEF N
<1>4. AllLookups(init) \in [D -> Holding(init)]
  <2>1. Len(builder) \in 0 .. Len(builder)
    BY <1>2
  <2> QED BY <1>1, <2>1
<1> QED
  BY <1>3, <1>4

LEMMA PutOut ==
    ASSUME IsBuilder(builder), NEW D, NEW R, NEW init \in [D -> R]
    PROVE  /\ AllOutputs(init) \in [D -> Holding(init)]
           /\ \A s \in D \ Owned : AllOutputs(init)[s] = init[s]
           /\ \A i \in DOMAIN builder : \A s \in SlotsOf(builder[i]) \intersect D :
                 AllOutputs(init)[s] = ThunkValue(ThunkIn(builder[i], s))
<1>1. PICK w : /\ w[0] = init
               /\ \A n \in DOMAIN builder : w[n] = OutputWritten(w[n - 1], builder[n])
               /\ \A n \in 0 .. Len(builder) : w[n] \in [D -> Holding(init)]
               /\ AllOutputs(init) = w[Len(builder)]
  BY AllOutputsAre
<1>2. Len(builder) \in Nat /\ DOMAIN builder = 1 .. Len(builder)
  BY BuilderDomains
<1> DEFINE N == Len(builder)
           value(i, s) == ThunkValue(ThunkIn(builder[i], s))
           T == {n \in Nat : /\ \A s \in D \ Owned : w[n][s] = init[s]
                             /\ \A i \in 1 .. n : \A s \in SlotsOf(builder[i]) \intersect D :
                                   w[n][s] = value(i, s)}
<1> HIDE DEF N, value
<1>3. N \in Nat /\ DOMAIN builder = 1 .. N
  BY <1>2 DEF N
<1>4. 0 \in T
  BY <1>1
<1>5. ASSUME NEW n \in 0 .. N - 1, n \in T PROVE n + 1 \in T
  <2>1. n + 1 \in DOMAIN builder /\ (n + 1) - 1 = n /\ n \in 0 .. N /\ n + 1 \in Nat
    BY <1>3
  <2>2. w[n + 1] = OutputWritten(w[n], builder[n + 1]) /\ DOMAIN w[n] = D
    BY <2>1, <1>1 DEF N
  <2>3. \A s \in D : w[n + 1][s] = IF s \in SlotsOf(builder[n + 1]) THEN value(n + 1, s) ELSE w[n][s]
    BY <2>2 DEF OutputWritten, value
  <2>4. ASSUME NEW s \in D \ Owned PROVE w[n + 1][s] = init[s]
    <3>1. s \notin SlotsOf(builder[n + 1])
      BY <2>1 DEF Owned, OwnedBy
    <3> QED BY <3>1, <2>3, <1>5
  <2>5. ASSUME NEW i \in 1 .. n + 1, NEW s \in SlotsOf(builder[i]) \intersect D
        PROVE  w[n + 1][s] = value(i, s)
    <3>1. CASE i = n + 1
      BY <3>1, <2>3
    <3>2. CASE i # n + 1
      <4>1. i \in 1 .. n /\ i \in DOMAIN builder
        BY <3>2, <1>3
      <4>2. s \notin SlotsOf(builder[n + 1])
        BY <4>1, <3>2, <2>1, OneOwner
      <4> QED BY <4>1, <4>2, <2>3, <1>5
    <3> QED BY <3>1, <3>2
  <2> QED BY <2>1, <2>4, <2>5
<1> HIDE DEF T
<1>6. \A n \in 0 .. N - 1 : n \in T => n + 1 \in T
  BY <1>5
<1>7. \A n \in 0 .. N : n \in T
  <2>1. 0 \in Int /\ N \in Int
    BY <1>3
  <2> QED BY <2>1, <1>4, <1>6, UpFrom
<1>8. N \in T
  BY <1>3, <1>7
<1>9. AllOutputs(init) = w[N] /\ N \in 0 .. Len(builder)
  BY <1>1, <1>2 DEF N
<1>10. AllOutputs(init) \in [D -> Holding(init)]
  BY <1>1, <1>9
<1>11. \A s \in D \ Owned : AllOutputs(init)[s] = init[s]
  BY <1>8, <1>9 DEF T
<1>12. \A i \in DOMAIN builder : \A s \in SlotsOf(builder[i]) \intersect D :
            AllOutputs(init)[s] = value(i, s)
  BY <1>3, <1>8, <1>9 DEF T
<1> QED
  BY <1>10, <1>11, <1>12 DEF value

LEMMA ScanEndsInTable ==
    ASSUME NEW t
    PROVE  ScannedSize(t) \in 1 .. TableSlots
<1> DEFINE N == TableSlots
           S == 0 .. TableSlots - 1
           Step == [p \in S \X (1 .. N) |->
                        IF p[1] # 0 /\ p[2] - 1 >= p[1] + MaxGap THEN p[1]
                        ELSE IF IsApiAddress(t[p[2]]) THEN p[2] - 1 ELSE p[1]]
           F(f) == [i \in 0 .. N |->
                        IF i = 0 THEN 0
                        ELSE IF f[i - 1] # 0 /\ i - 1 >= f[i - 1] + MaxGap THEN f[i - 1]
                        ELSE IF IsApiAddress(t[i]) THEN i - 1 ELSE f[i - 1]]
           run == CHOOSE f : f = F(f)
<1>1. N \in Nat /\ N > 0
  BY RebuildAssumption
<1>2. Step \in [S \X (1 .. N) -> S]
  <2>1. \A n \in 1 .. N : n - 1 \in S
    BY <1>1
  <2> HIDE DEF S
  <2> QED BY <2>1
<1>3. 0 \in S
  BY <1>1
<1>4. PICK f \in [0 .. N -> S] : Iterates(f, 0, Step, N)
  <2> HIDE DEF Step, N, S
  <2> QED BY <1>1, <1>2, <1>3, Recursion
<1>5. f = F(f)
  <2> HIDE DEF N, S
  <2>1. ASSUME NEW n \in 0 .. N PROVE f[n] = F(f)[n]
    <3>1. CASE n = 0
      BY <1>4, <3>1 DEF Iterates
    <3>2. CASE n # 0
      <4>1. n - 1 \in 0 .. N /\ n \in 1 .. N
        BY <3>2, <1>1
      <4>2. f[n - 1] \in S
        BY <4>1
      <4>3. f[n] = Step[<<f[n - 1], n>>]
        BY <1>4, <4>1 DEF Iterates
      <4> QED BY <4>1, <4>2, <4>3, <3>2
    <3> QED BY <3>1, <3>2
  <2> QED BY <1>4, <2>1
<1>6. run = F(run)
  <2> HIDE DEF F
  <2> QED BY <1>5, Zenon
<1>7. ScannedSize(t) = run[N] + 1
  BY DEF ScannedSize
<1> HIDE DEF run
<1>8. /\ run[0] = 0
      /\ \A n \in 1 .. N :
            run[n] = IF run[n - 1] # 0 /\ n - 1 >= run[n - 1] + MaxGap THEN run[n - 1]
                     ELSE IF IsApiAddress(t[n]) THEN n - 1 ELSE run[n - 1]
  <2> HIDE DEF N
  <2> QED BY <1>1, <1>6
<1>9. \A n \in 0 .. N : run[n] \in S
  <2> DEFINE T == {n \in Nat : run[n] \in S}
  <2> HIDE DEF N, S, Step
  <2>1. 0 \in T
    BY <1>8, <1>3
  <2>2. ASSUME NEW n \in 0 .. N - 1, n \in T PROVE n + 1 \in T
    <3>1. n + 1 \in 1 .. N /\ (n + 1) - 1 = n /\ n + 1 \in Nat
      BY <1>1
    <3>2. run[n] \in S
      BY <2>2
    <3>3. run[n + 1] \in S
      <4>1. n \in S
        BY <3>1, <1>1 DEF S, N
      <4>2. run[n + 1] = run[n] \/ run[n + 1] = n
        BY <3>1, <1>8
      <4> QED BY <4>1, <4>2, <3>2
    <3> QED BY <3>1, <3>3
  <2> HIDE DEF T
  <2>3. \A n \in 0 .. N - 1 : n \in T => n + 1 \in T
    BY <2>2
  <2>4. \A n \in 0 .. N : n \in T
    <3>1. 0 \in Int /\ N \in Int
      BY <1>1
    <3> QED BY <3>1, <2>1, <2>3, UpFrom
  <2> QED BY <2>4 DEF T
<1>10. run[N] \in S /\ TableSlots \in Int
  BY <1>1, <1>9
<1> HIDE DEF Step, F
<1> QED
  BY <1>7, <1>10

LEMMA DenseSums ==
    ASSUME IsBuilder(builder)
    PROVE  \E w : /\ w[0] = 0
                  /\ \A n \in DOMAIN builder : w[n] = w[n - 1] + Len(builder[n].thunks) + 1
                  /\ \A n \in 0 .. Len(builder) : w[n] \in Nat
                  /\ \A i \in DOMAIN builder : Dense(i) = w[i - 1]
<1> DEFINE N == Len(builder)
           S == Nat
           Step == [p \in S \X (1 .. N) |-> p[1] + Len(builder[p[2]].thunks) + 1]
           F(f) == [k \in 0 .. N |->
                        IF k = 0 THEN 0 ELSE f[k - 1] + Len(builder[k].thunks) + 1]
           run == CHOOSE f : f = F(f)
<1>1. N \in Nat /\ DOMAIN builder = 1 .. N
  BY BuilderDomains
<1>2. Step \in [S \X (1 .. N) -> S]
  <2>1. \A n \in 1 .. N : Len(builder[n].thunks) \in Nat
    BY <1>1, BuilderDomains
  <2> QED BY <2>1
<1>3. 0 \in S
  OBVIOUS
<1>4. PICK f \in [0 .. N -> S] : Iterates(f, 0, Step, N)
  <2> HIDE DEF Step, N, S
  <2> QED BY <1>1, <1>2, <1>3, Recursion
<1>5. f = F(f)
  <2> HIDE DEF N, S
  <2>1. ASSUME NEW n \in 0 .. N PROVE f[n] = F(f)[n]
    <3>1. CASE n = 0
      BY <1>4, <3>1 DEF Iterates
    <3>2. CASE n # 0
      <4>1. n - 1 \in 0 .. N /\ n \in 1 .. N
        BY <3>2, <1>1
      <4>2. f[n - 1] \in S
        BY <4>1
      <4>3. f[n] = Step[<<f[n - 1], n>>]
        BY <1>4, <4>1 DEF Iterates
      <4> QED BY <4>1, <4>2, <4>3, <3>2
    <3> QED BY <3>1, <3>2
  <2> QED BY <1>4, <2>1
<1>6. run = F(run)
  <2> HIDE DEF F
  <2> QED BY <1>5, Zenon
<1>7. \A i \in DOMAIN builder : Dense(i) = run[i - 1]
  BY DEF Dense
<1> HIDE DEF run
<1>8. /\ run[0] = 0
      /\ \A n \in 1 .. N : run[n] = run[n - 1] + Len(builder[n].thunks) + 1
  <2> HIDE DEF N
  <2> QED BY <1>1, <1>6
<1>9. \A n \in 0 .. N : run[n] \in S
  <2> DEFINE T == {n \in Nat : run[n] \in S}
  <2> HIDE DEF N, S, Step
  <2>1. 0 \in T
    BY <1>8, <1>3
  <2>2. ASSUME NEW n \in 0 .. N - 1, n \in T PROVE n + 1 \in T
    <3>1. n + 1 \in 1 .. N /\ (n + 1) - 1 = n /\ n + 1 \in Nat
      BY <1>1
    <3>2. run[n] \in S
      BY <2>2
    <3>3. run[n + 1] \in S
      <4>1. Len(builder[n + 1].thunks) \in Nat
        BY <3>1, <1>1, BuilderDomains
      <4>2. run[n + 1] = run[n] + Len(builder[n + 1].thunks) + 1
        BY <3>1, <1>8
      <4> QED BY <4>1, <4>2, <3>2 DEF S
    <3> QED BY <3>1, <3>3
  <2> HIDE DEF T
  <2>3. \A n \in 0 .. N - 1 : n \in T => n + 1 \in T
    BY <2>2
  <2>4. \A n \in 0 .. N : n \in T
    <3>1. 0 \in Int /\ N \in Int
      BY <1>1
    <3> QED BY <3>1, <2>1, <2>3, UpFrom
  <2> QED BY <2>4 DEF T
<1> QED
  BY <1>1, <1>7, <1>8, <1>9

LEMMA SlotCount ==
    ASSUME NEW b, IsBuilder(b), NEW i \in DOMAIN b
    PROVE  IsFiniteSet(SlotsOf(b[i])) /\ Cardinality(SlotsOf(b[i])) = Len(b[i].thunks)
<1> DEFINE n == Len(b[i].thunks)
           f == [k \in 1 .. n |-> b[i].thunks[k].slot]
<1>1. n \in Nat /\ DOMAIN b[i].thunks = 1 .. n
  BY BuilderDomains
<1>2. f \in Surjection(1 .. n, SlotsOf(b[i]))
  BY <1>1 DEF Surjection, SlotsOf
<1>3. \A k, l \in 1 .. n : b[i].thunks[k].slot = b[i].thunks[l].slot => k = l
  BY <1>1 DEF IsBuilder
<1>4. f \in Injection(1 .. n, SlotsOf(b[i]))
  BY <1>2, <1>3 DEF Injection, IsInjective, Surjection
<1>5. IsFiniteSet(1 .. n) /\ Cardinality(1 .. n) = n
  BY <1>1, FS_Interval
<1> HIDE DEF f, n
<1>6. IsFiniteSet(SlotsOf(b[i])) /\ Cardinality(SlotsOf(b[i])) = n
  BY <1>2, <1>4, <1>5, FS_Surjection
<1> QED
  BY <1>6 DEF n


----------------------------------------------------------------------------
(* The rebuild, over the steps of the specification *)

\* The last slot of a module, as the code that terminates it counts
LastOf(i) == Max(SlotsOf(builder[i]) \union {0})

Importable(s) == Resolve(live[s + 1]) # {}

TableHeld ==
    /\ Snapped
    /\ Len(iat) \in 1 .. TableSlots /\ DOMAIN iat = 1 .. Len(iat)
    /\ next \in 0 .. Len(iat)
    /\ \A s \in next .. Len(iat) - 1 : iat[s + 1] = live[s + 1]

\* What is behind in the vote has a thunk if anything exports it
Gathered ==
    /\ Owned \subseteq 0 .. next - 1
    /\ \A s \in 0 .. next - 1 : Importable(s) => s \in Owned

\* The modules of a classic table are clusters of a set of slots with
\* everything in it that is exported
Clustered ==
    \E p \in SUBSET (0 .. Len(iat) - 1) :
        /\ \A s \in 0 .. Len(iat) - 1 : Importable(s) => s \in p
        /\ Owned \subseteq p
        /\ \A i \in DOMAIN builder : IsRun(p, SlotsOf(builder[i]))

\* What the modules cleared is zero, and what they did not describe is there
Written ==
    /\ \E R : output \in [0 .. 2 * TableSlots -> R]
    /\ \A i \in DOMAIN builder : LastOf(i) + 1 \notin Owned => output[LastOf(i) + 1] = Zero
    /\ classic => \A s \in (0 .. Len(iat) - 1) \ Owned :
                     Importable(s) => output[s] = <<"live", live[s + 1]>>

RebuildInv ==
    /\ stage \in {"wait", "read", "collect", "vote", "normalise", "section", "write",
                  "done", "fallen back"}
    /\ stage # "wait" =>
          pc = "done" /\ world \in Worlds /\ live \in [1 .. TableSlots -> Values]
    /\ stage \in {"wait", "read", "collect"} => builder = <<>> /\ next = 0
    /\ IsBuilder(builder)
    /\ stage \notin {"wait", "read"} => TableHeld
    /\ stage = "vote" =>
          /\ Gathered
          /\ \A s \in 0 .. Len(iat) - 1 : CandidateOf(s) = Candidates(live[s + 1])
    /\ stage = "normalise" => Gathered /\ next = Len(iat)
    /\ stage \in {"section", "write", "done"} =>
          /\ Owned \subseteq 0 .. Len(iat) - 1
          /\ classic => Clustered
    /\ stage \in {"write", "done"} => Written
    /\ ThunksInTheirSlots

LEMMA LastSlot ==
    ASSUME NEW n \in Nat, IsBuilder(builder), Owned \subseteq 0 .. n - 1, NEW i \in DOMAIN builder
    PROVE  /\ SlotsOf(builder[i]) \subseteq 0 .. n - 1
           /\ LastOf(i) \in SlotsOf(builder[i])
           /\ \A s \in SlotsOf(builder[i]) : s <= LastOf(i)
           /\ Min(SlotsOf(builder[i])) \in SlotsOf(builder[i])
           /\ \A s \in SlotsOf(builder[i]) : Min(SlotsOf(builder[i])) <= s
           /\ LastOf(i) \in 0 .. n - 1
<1> DEFINE S == SlotsOf(builder[i])
           U == S \union {0}
<1>1. S \subseteq 0 .. n - 1
  BY DEF Owned, OwnedBy
<1>2. S # {}
  <2>1. 1 \in DOMAIN builder[i].thunks
    BY BuilderDomains
  <2> QED BY <2>1 DEF SlotsOf
<1> HIDE DEF S
<1>3. U # {} /\ U \in SUBSET Int /\ \A s \in U : s <= n
  BY <1>1
<1>4. Max(U) \in U /\ Max(U) \in Int /\ \A s \in U : s <= Max(U)
  <2>1. n \in Int
    OBVIOUS
  <2> HIDE DEF U
  <2> QED BY <1>3, <2>1, MaxOf
<1>5. Max(U) \in S
  <2>1. PICK s \in S : TRUE
    BY <1>2
  <2>2. s \in 0 .. n - 1 /\ s <= Max(U)
    BY <2>1, <1>1, <1>4
  <2>3. CASE Max(U) = 0
    BY <2>1, <2>2, <2>3
  <2>4. CASE Max(U) # 0
    BY <2>4, <1>4
  <2> QED BY <2>3, <2>4
<1>6. S \in SUBSET Int /\ \A s \in S : 0 <= s
  BY <1>1
<1>7. Min(S) \in S /\ \A s \in S : Min(S) <= s
  <2>1. 0 \in Int
    OBVIOUS
  <2> QED BY <1>2, <1>6, <2>1, MinOf
<1>8. LastOf(i) = Max(U)
  BY DEF LastOf, S
<1>9. \A s \in S : s \in U
  OBVIOUS
<1> HIDE DEF U
<1>10. /\ Max(U) \in 0 .. n - 1
       /\ \A s \in S : s <= Max(U)
  BY <1>1, <1>4, <1>5, <1>9
<1> QED
  BY <1>1, <1>5, <1>7, <1>8, <1>10 DEF S

LEMMA EmptyBuilder ==
    IsBuilder(<<>>) /\ OwnedBy(<<>>) = {}
<1>1. DOMAIN <<>> = {} /\ <<>> \in Seq({})
  OBVIOUS
<1> QED
  BY <1>1 DEF IsBuilder, OwnedBy

\* The slots that a vote settles
LEMMA GroupIs ==
    ASSUME TableHeld, next < Len(iat), iat[next + 1] # 0
    PROVE  /\ Max(GroupAt(next)) \in next .. Len(iat) - 1
           /\ GroupAt(next) = next .. Max(GroupAt(next))
           /\ \A s \in GroupAt(next) : live[s + 1] # 0
<1> DEFINE G == GroupAt(next)
<1>1. Len(iat) \in Int /\ next \in Int /\ next <= Len(iat) - 1
  BY DEF TableHeld
<1>2. next \in G
  BY <1>1 DEF GroupAt
<1>3. G \subseteq next .. Len(iat) - 1
  BY DEF GroupAt
<1> DEFINE hi == Max(G)
<1>4. hi \in G /\ hi \in Int /\ \A j \in G : j <= hi
  <2>1. G \in SUBSET Int /\ \A j \in G : j <= Len(iat)
    BY <1>1, <1>3
  <2> HIDE DEF G
  <2> QED BY <1>1, <1>2, <2>1, MaxOf
<1> HIDE DEF hi
<1>5. ASSUME NEW j \in next .. hi PROVE j \in G
  <2>1. \A k \in next .. hi : iat[k + 1] # 0
    BY <1>4 DEF GroupAt
  <2>2. j \in next .. Len(iat) - 1
    BY <1>1, <1>3, <1>4
  <2>3. next .. j \subseteq next .. hi
    BY <1>1, <1>4
  <2> QED BY <2>1, <2>2, <2>3 DEF GroupAt
<1>6. G = next .. hi
  <2>1. ASSUME NEW j \in G PROVE j \in next .. hi
    BY <1>1, <1>3, <1>4
  <2> QED BY <2>1, <1>5
<1>7. ASSUME NEW s \in G PROVE live[s + 1] # 0
  <2>1. s \in next .. Len(iat) - 1
    BY <1>3
  <2>2. s \in next .. s
    BY <1>1, <2>1
  <2>3. iat[s + 1] # 0
    BY <2>2, <1>7 DEF GroupAt
  <2>4. iat[s + 1] = live[s + 1]
    BY <2>1 DEF TableHeld
  <2> QED BY <2>3, <2>4
<1> QED
  BY <1>3, <1>4, <1>6, <1>7 DEF hi

LEMMA ChosenIs ==
    ASSUME Snapped, NEW j, NEW winner, CandidateOf(j) = Candidates(live[j + 1]), CandidateOf(j) # <<>>
    PROVE  /\ Chosen(j, winner) \in CandidateSet(live[j + 1])
           /\ Chosen(j, winner).mod \in Modules
<1> DEFINE c == CandidateOf(j)
           own == {k \in DOMAIN c : c[k].mod = winner}
<1>1. c \in Seq(CandidateSet(live[j + 1])) /\ Len(c) \in Nat /\ DOMAIN c = 1 .. Len(c) /\ Len(c) > 0
  BY CandidatesAre
<1>2. ASSUME own # {} PROVE Min(own) \in own
  <2>1. own \in SUBSET Int /\ \A k \in own : 1 <= k
    BY <1>1
  <2>2. 1 \in Int
    OBVIOUS
  <2> HIDE DEF own
  <2> QED BY <1>2, <2>1, <2>2, MinOf
<1>3. Chosen(j, winner) = c[IF own = {} THEN 1 ELSE Min(own)]
  BY DEF Chosen
<1>4. (IF own = {} THEN 1 ELSE Min(own)) \in DOMAIN c
  BY <1>1, <1>2
<1> HIDE DEF own, c
<1>5. Chosen(j, winner) \in CandidateSet(live[j + 1])
  BY <1>1, <1>3, <1>4
<1>6. \A e \in ForwardMap(live[j + 1]) \union StringMap(live[j + 1]) : e \in known
  BY ForwardMapIs DEF StringMap, ForwardTarget, TargetIn
<1>7. \A k \in CandidateSet(live[j + 1]) : k.mod \in Modules
  BY <1>6, KnownEntries DEF CandidateSet
<1> QED
  BY <1>5, <1>7

LEMMA SameExports ==
    ASSUME UNCHANGED <<world, known, live>>
    PROVE  /\ Snapped' <=> Snapped
           /\ \A s : Importable(s)' = Importable(s)
           /\ \A v : Candidates(v)' = Candidates(v)
<1>1. \A s : Importable(s)' = Importable(s)
  BY DEF Importable, Resolve
<1>2. \A a : ForwardMap(a)' = ForwardMap(a) /\ StringMap(a)' = StringMap(a)
  BY DEF ForwardMap, StringMap, ForwardTarget, TargetIn
<1>3. \A v : Candidates(v)' = Candidates(v)
  BY <1>2 DEF Candidates
<1> QED
  BY <1>1, <1>3 DEF Snapped

LEMMA ReadKeepsInv ==
    ASSUME RebuildInv, NEW located \in {0, TableSlots}, ReadTableOf(located), pc' = pc
    PROVE  RebuildInv'
<1>1. /\ stage = "read" /\ stage' = "collect"
      /\ known' = Snapshot
      /\ iat' = SubSeq(live, 1, IF located > 0 THEN located ELSE ScannedSize(live))
      /\ UNCHANGED <<world, classic, live, candidates, next, builder, output>>
  BY DEF ReadTableOf
<1>2. PICK m : m = IF located > 0 THEN located ELSE ScannedSize(live)
  OBVIOUS
<1>3. m \in 1 .. TableSlots /\ TableSlots \in Nat
  <2>1. TableSlots \in Nat /\ TableSlots > 0
    BY RebuildAssumption
  <2>2. ScannedSize(live) \in 1 .. TableSlots
    BY ScanEndsInTable
  <2> QED BY <2>1, <2>2, <1>2
<1>4. live \in [1 .. TableSlots -> Values] /\ pc = "done" /\ world \in Worlds
  BY <1>1 DEF RebuildInv
<1>5. /\ Len(iat') = m /\ DOMAIN iat' = 1 .. m
      /\ \A s \in 1 .. m : iat'[s] = live[s]
  <2>1. live \in Seq(Values) /\ Len(live) = TableSlots
    BY <1>3, <1>4
  <2>2. iat' = SubSeq(live, 1, m)
    BY <1>1, <1>2
  <2> QED BY <2>1, <2>2, <1>3
<1>6. Snapped'
  BY <1>1, <1>4 DEF Snapped, Snapshot, Seen
<1>7. builder = <<>> /\ next = 0
  BY <1>1 DEF RebuildInv
<1>8. TableHeld'
  <2>1. ASSUME NEW s \in 0 .. m - 1 PROVE iat'[s + 1] = live'[s + 1]
    <3>1. s + 1 \in 1 .. m
      BY <1>3
    <3> QED BY <3>1, <1>1, <1>5
  <2>2. next' = 0 /\ 0 \in 0 .. m /\ Len(iat') = m
    <3>1. next' = 0
      BY <1>1, <1>7
    <3>2. 0 \in 0 .. m
      BY <1>3
    <3> QED BY <3>1, <3>2, <1>5
  <2>3. \A s \in next' .. Len(iat') - 1 : iat'[s + 1] = live'[s + 1]
    BY <2>1, <2>2
  <2>4. Len(iat') \in 1 .. TableSlots /\ DOMAIN iat' = 1 .. Len(iat')
    BY <1>3, <1>5
  <2>5. next' \in 0 .. Len(iat')
    BY <2>2
  <2> QED BY <2>3, <2>4, <2>5, <1>6 DEF TableHeld
<1>9. pc' = pc
  OBVIOUS
<1> QED
  BY <1>1, <1>4, <1>7, <1>8, <1>9, EmptyBuilder DEF RebuildInv, ThunksInTheirSlots

LEMMA CollectKeepsInv ==
    ASSUME RebuildInv, Collect, pc' = pc
    PROVE  RebuildInv'
<1>1. /\ stage = "collect" /\ stage' = "vote"
      /\ candidates' = [i \in DOMAIN iat |-> Candidates(iat[i])]
      /\ UNCHANGED <<world, known, classic, live, iat, next, builder, output>>
  BY DEF Collect
<1>2. /\ pc = "done" /\ world \in Worlds /\ live \in [1 .. TableSlots -> Values]
      /\ builder = <<>> /\ next = 0 /\ TableHeld
  BY <1>1 DEF RebuildInv
<1>3. TableHeld'
  BY <1>1, <1>2, SameExports DEF TableHeld
<1>4. \A s \in 0 .. Len(iat) - 1 : candidates'[s + 1] = Candidates(live[s + 1])
  BY <1>1, <1>2 DEF TableHeld
<1>5. \A s \in (0 .. Len(iat) - 1)' : CandidateOf(s)' = Candidates(live[s + 1])'
  BY <1>1, <1>4, SameExports DEF CandidateOf
<1>6. Gathered'
  BY <1>1, <1>2, EmptyBuilder DEF Gathered, Owned
<1> QED
  BY <1>1, <1>2, <1>3, <1>5, <1>6, EmptyBuilder DEF RebuildInv, ThunksInTheirSlots

LEMMA SkipKeepsInv ==
    ASSUME RebuildInv, SkipZero, pc' = pc
    PROVE  RebuildInv'
<1>1. /\ stage = "vote" /\ stage' = "vote" /\ next < Len(iat) /\ iat[next + 1] = 0 /\ next' = next + 1
      /\ UNCHANGED <<world, known, classic, live, iat, candidates, builder, output>>
  BY DEF SkipZero
<1>2. /\ pc = "done" /\ world \in Worlds /\ live \in [1 .. TableSlots -> Values]
      /\ TableHeld /\ Gathered /\ IsBuilder(builder)
      /\ \A s \in 0 .. Len(iat) - 1 : CandidateOf(s) = Candidates(live[s + 1])
  BY <1>1 DEF RebuildInv
<1>3. next \in Int /\ next >= 0 /\ Len(iat) \in Int
  BY <1>2 DEF TableHeld
<1>4. TableHeld'
  BY <1>1, <1>2, <1>3, SameExports DEF TableHeld
<1>5. ~Importable(next)
  <2>1. next \in next .. Len(iat) - 1
    BY <1>1, <1>3
  <2>2. live[next + 1] = 0
    BY <2>1, <1>1, <1>2 DEF TableHeld
  <2>3. \A e \in known : e.at # 0
    BY <1>2, KnownEntries DEF TableHeld
  <2> QED BY <2>2, <2>3 DEF Importable, Resolve
<1>6. Gathered'
  <2>1. Owned' = Owned
    BY <1>1 DEF Owned
  <2>2. \A s \in 0 .. next : s \in 0 .. next - 1 \/ s = next
    BY <1>3
  <2> QED BY <2>1, <2>2, <1>1, <1>2, <1>3, <1>5, SameExports DEF Gathered
<1>7. \A s \in (0 .. Len(iat) - 1)' : CandidateOf(s)' = Candidates(live[s + 1])'
  BY <1>1, <1>2, SameExports DEF CandidateOf
<1> QED
  BY <1>1, <1>2, <1>4, <1>6, <1>7 DEF RebuildInv, ThunksInTheirSlots

LEMMA VoteKeepsInv ==
    ASSUME RebuildInv, Vote, pc' = pc
    PROVE  RebuildInv'
<1> DEFINE group == GroupAt(next)
           resolved == {j \in group : CandidateOf(j) # <<>>}
           hi == Max(group)
<1>1. /\ stage = "vote" /\ stage' = "vote" /\ next < Len(iat) /\ iat[next + 1] # 0
      /\ next' = hi + 1
      /\ UNCHANGED <<world, known, classic, live, candidates, output>>
  BY DEF Vote
<1>2. /\ pc = "done" /\ world \in Worlds /\ live \in [1 .. TableSlots -> Values]
      /\ TableHeld /\ Gathered /\ IsBuilder(builder)
      /\ \A s \in 0 .. Len(iat) - 1 : CandidateOf(s) = Candidates(live[s + 1])
  BY <1>1 DEF RebuildInv
<1>3. next \in Int /\ next >= 0 /\ Len(iat) \in Int /\ Snapped /\ Len(iat) <= TableSlots
  BY <1>2, RebuildAssumption DEF TableHeld
<1>4. /\ hi \in next .. Len(iat) - 1
      /\ group = next .. hi
      /\ \A s \in group : live[s + 1] # 0
  BY <1>1, <1>2, GroupIs
<1>5. \A s \in group : Importable(s) => s \in resolved
  <2> SUFFICES ASSUME NEW s \in group, Importable(s) PROVE CandidateOf(s) # <<>>
    OBVIOUS
  <2>1. s \in 0 .. Len(iat) - 1
    BY <1>3, <1>4
  <2>2. CandidateOf(s) = Candidates(live[s + 1]) /\ live[s + 1] # 0
    BY <2>1, <1>2, <1>4
  <2> QED BY <2>2, <1>3, CandidatesAre DEF Importable
<1>6. resolved \subseteq next .. hi
  BY <1>4
<1>7. /\ IsBuilder(builder')
      /\ OwnedBy(builder') = Owned \union resolved
      /\ Len(iat') = Len(iat) /\ DOMAIN iat' = 1 .. Len(iat)
      /\ \A s \in hi + 1 .. Len(iat) - 1 : iat'[s + 1] = iat[s + 1]
  <2>1. CASE resolved = {}
    <3>1. UNCHANGED <<iat, builder>>
      BY <2>1 DEF Vote
    <3> HIDE DEF resolved
    <3> QED BY <3>1, <2>1, <1>2 DEF Owned, TableHeld
  <2>2. CASE resolved # {}
    <3>1. PICK winner \in Winners(group) :
             LET choice == [j \in resolved |-> Chosen(j, winner)]
             IN /\ builder' = builder \o Buckets(choice)
                /\ iat' = [i \in DOMAIN iat |-> IF i - 1 \in resolved THEN choice[i - 1].at ELSE iat[i]]
      BY <2>2 DEF Vote
    <3> DEFINE choice == [j \in resolved |-> Chosen(j, winner)]
               pairs == [j \in resolved |-> [mod |-> choice[j].mod, thunk |-> ThunkAt(j, choice[j])]]
    <3>2. ASSUME NEW j \in resolved PROVE choice[j].mod \in Modules
      <4>1. j \in 0 .. Len(iat) - 1 /\ CandidateOf(j) # <<>>
        BY <1>3, <1>4
      <4>2. CandidateOf(j) = Candidates(live[j + 1])
        BY <4>1, <1>2
      <4>3. Chosen(j, winner).mod \in Modules
        BY <4>1, <4>2, <1>3, ChosenIs
      <4> HIDE DEF resolved
      <4> QED BY <4>3
    <3>3. \A j : ThunkAt(j, choice[j]).slot = j
      BY DEF ThunkAt
    <3>4. resolved \subseteq Indices
      BY <1>3, <1>4, RebuildAssumption DEF Indices
    <3>5. IsPairs(pairs) /\ DOMAIN pairs = resolved
      <4> HIDE DEF resolved, choice
      <4> QED BY <3>2, <3>3, <3>4 DEF IsPairs
    <3>6. Buckets(choice) = Bucketed(pairs)
      BY DEF Buckets
    <3>7. builder' = builder \o Bucketed(pairs)
      BY <3>1, <3>6
    <3>8. IsBuilder(Bucketed(pairs)) /\ OwnedBy(Bucketed(pairs)) = resolved
      <4> HIDE DEF pairs, resolved
      <4> QED BY <3>5, BucketedIs
    <3>9. OwnedBy(builder) \intersect resolved = {}
      BY <1>2, <1>3, <1>6 DEF Gathered, Owned
    <3> HIDE DEF pairs, resolved
    <3>10. IsBuilder(builder') /\ OwnedBy(builder') = OwnedBy(builder) \union resolved
      BY <3>7, <3>8, <3>9, <1>2, Joined
    <3>11. iat' = [i \in DOMAIN iat |-> IF i - 1 \in resolved THEN choice[i - 1].at ELSE iat[i]]
      BY <3>1
    <3> HIDE DEF choice
    <3>12. DOMAIN iat = 1 .. Len(iat) /\ Len(iat) \in Nat
      BY <1>2 DEF TableHeld
    <3>13. Len(iat') = Len(iat) /\ DOMAIN iat' = 1 .. Len(iat)
      <4>1. DOMAIN iat' = 1 .. Len(iat) /\ iat' = [i \in 1 .. Len(iat) |-> iat'[i]]
        BY <3>11, <3>12
      <4> QED BY <4>1, <3>12, IsSequence
    <3>14. ASSUME NEW s \in hi + 1 .. Len(iat) - 1 PROVE iat'[s + 1] = iat[s + 1]
      <4>1. s + 1 \in DOMAIN iat /\ (s + 1) - 1 = s /\ s \notin next .. hi
        BY <3>12, <1>3, <1>4
      <4> QED BY <4>1, <3>11, <1>6
    <3> QED BY <3>10, <3>13, <3>14 DEF Owned
  <2> QED BY <2>1, <2>2
<1> HIDE DEF group, resolved, hi
<1>8. TableHeld'
  <2>1. \A s \in hi + 1 .. Len(iat) - 1 : iat'[s + 1] = live[s + 1]
    BY <1>2, <1>3, <1>4, <1>7 DEF TableHeld
  <2>2. Len(iat) \in 1 .. TableSlots
    BY <1>2 DEF TableHeld
  <2>3. next' \in 0 .. Len(iat)
    BY <1>1, <1>3, <1>4
  <2> QED BY <2>1, <2>2, <2>3, <1>1, <1>3, <1>7, SameExports DEF TableHeld
<1>9. Gathered'
  <2>1. Owned' = Owned \union resolved
    BY <1>7 DEF Owned
  <2>2. Owned' \subseteq 0 .. hi
    BY <2>1, <1>2, <1>3, <1>4, <1>6 DEF Gathered
  <2>3. ASSUME NEW s \in 0 .. hi, Importable(s) PROVE s \in Owned'
    <3>1. s \in 0 .. next - 1 \/ s \in next .. hi
      BY <1>3, <1>4
    <3> QED BY <3>1, <2>1, <2>3, <1>2, <1>4, <1>5 DEF Gathered
  <2>4. next' - 1 = hi
    BY <1>1, <1>3, <1>4
  <2> QED BY <2>2, <2>3, <2>4, <1>1, SameExports DEF Gathered
<1>10. \A s \in (0 .. Len(iat) - 1)' : CandidateOf(s)' = Candidates(live[s + 1])'
  BY <1>1, <1>2, <1>7, SameExports DEF CandidateOf
<1> QED
  BY <1>1, <1>2, <1>7, <1>8, <1>9, <1>10 DEF RebuildInv, ThunksInTheirSlots

\* All that an action between the vote and the section may assume
Between ==
    /\ pc = "done" /\ world \in Worlds /\ live \in [1 .. TableSlots -> Values]
    /\ TableHeld /\ IsBuilder(builder) /\ Owned \subseteq 0 .. Len(iat) - 1
    /\ Owned \in SUBSET Indices

LEMMA InvGives ==
    ASSUME RebuildInv,
           \/ stage \in {"vote", "normalise"} /\ next = Len(iat)
           \/ stage \in {"section", "write"}
    PROVE  Between
<1>1. /\ pc = "done" /\ world \in Worlds /\ live \in [1 .. TableSlots -> Values]
      /\ TableHeld /\ IsBuilder(builder)
  BY DEF RebuildInv
<1>2. Owned \subseteq 0 .. Len(iat) - 1
  BY DEF RebuildInv, Gathered
<1>3. 0 .. Len(iat) - 1 \subseteq Indices
  <2>1. Len(iat) \in Int /\ TableSlots \in Int /\ Len(iat) <= TableSlots
    <3>1. TableSlots \in Nat
      BY RebuildAssumption
    <3>2. Len(iat) \in 1 .. TableSlots
      BY <1>1 DEF TableHeld
    <3> QED BY <3>1, <3>2
  <2> QED BY <2>1 DEF Indices
<1> QED
  BY <1>1, <1>2, <1>3 DEF Between

LEMMA VoteDoneKeepsInv ==
    ASSUME RebuildInv, VoteDone, pc' = pc
    PROVE  RebuildInv'
<1>1. /\ stage = "vote" /\ stage' = "section" /\ next = Len(iat) /\ ~classic
      /\ UNCHANGED <<world, known, classic, live, iat, candidates, next, builder, output>>
  BY DEF VoteDone
<1>2. Between
  BY <1>1, InvGives
<1>3. TableHeld'
  BY <1>1, <1>2, SameExports DEF Between, TableHeld
<1> QED
  BY <1>1, <1>2, <1>3 DEF RebuildInv, Between, ThunksInTheirSlots, Owned

LEMMA RegroupKeepsInv ==
    ASSUME RebuildInv, Regroup, pc' = pc
    PROVE  RebuildInv'
<1> DEFINE pairs == [s \in Owned |-> Rehomed(Pairs(builder)[s])]
<1>1. /\ stage = "vote" /\ stage' = "normalise" /\ next = Len(iat)
      /\ builder' = Bucketed(pairs)
      /\ UNCHANGED <<world, known, classic, live, iat, candidates, next, output>>
  BY DEF Regroup
<1>2. Between /\ Gathered
  BY <1>1, InvGives DEF RebuildInv
<1>3. IsPairs(Pairs(builder)) /\ DOMAIN Pairs(builder) = Owned
  BY <1>2, PairsIs DEF Between, Owned
<1>4. ASSUME NEW s \in Owned PROVE pairs[s].mod \in Modules /\ pairs[s].thunk.slot = s
  <2>1. Pairs(builder)[s].mod \in Modules /\ Pairs(builder)[s].thunk.slot = s
    BY <1>3 DEF IsPairs
  <2>2. Snapped
    BY <1>2 DEF Between, TableHeld
  <2>3. Rehomed(Pairs(builder)[s]).mod \in Modules /\ Rehomed(Pairs(builder)[s]).thunk.slot = s
    BY <2>1, <2>2, RehomedIs
  <2> QED BY <2>3
<1>5. DOMAIN pairs = Owned
  OBVIOUS
<1> HIDE DEF pairs
<1>6. IsPairs(pairs)
  BY <1>2, <1>4, <1>5 DEF IsPairs, Between
<1>7. IsBuilder(builder') /\ Owned' = Owned
  BY <1>1, <1>5, <1>6, BucketedIs DEF Owned
<1>8. TableHeld'
  BY <1>1, <1>2, SameExports DEF Between, TableHeld
<1>9. Gathered'
  BY <1>1, <1>2, <1>7, SameExports DEF Gathered
<1> QED
  BY <1>1, <1>2, <1>7, <1>8, <1>9 DEF RebuildInv, Between, ThunksInTheirSlots

LEMMA NormaliseKeepsInv ==
    ASSUME RebuildInv, Normalise, pc' = pc
    PROVE  RebuildInv'
<1> DEFINE pairs == Pairs(builder)
<1>1. /\ stage = "normalise" /\ stage' = "section"
      /\ builder' = Normalised(pairs)
      /\ UNCHANGED <<world, known, classic, live, iat, candidates, next, output>>
  BY DEF Normalise
<1>2. Between /\ Gathered /\ next = Len(iat)
  BY <1>1, InvGives DEF RebuildInv
<1>3. IsPairs(pairs) /\ DOMAIN pairs = Owned
  BY <1>2, PairsIs DEF Between, Owned
<1> HIDE DEF pairs
<1>4. /\ IsBuilder(builder') /\ OwnedBy(builder') \subseteq Owned
      /\ \A i \in DOMAIN builder' : IsRun(Owned, SlotsOf(builder'[i]))
  BY <1>1, <1>3, NormalisedIs
<1>5. TableHeld'
  BY <1>1, <1>2, SameExports DEF Between, TableHeld
<1>6. Owned' \subseteq Owned
  BY <1>4 DEF Owned
<1>7. Clustered'
  <2>1. Owned \in SUBSET (0 .. Len(iat') - 1)
    BY <1>1, <1>2 DEF Between
  <2>2. \A s \in 0 .. Len(iat') - 1 : Importable(s)' => s \in Owned
    BY <1>1, <1>2, SameExports DEF Gathered
  <2> QED BY <2>1, <2>2, <1>4, <1>6 DEF Clustered
<1> QED
  BY <1>1, <1>2, <1>4, <1>5, <1>6, <1>7 DEF RebuildInv, Between, ThunksInTheirSlots

\* What the slot of an exported function holds in the dump
LEMMA DumpedLive ==
    ASSUME Between, NEW s \in 0 .. Len(iat) - 1, Importable(s)
    PROVE  Dumped[s] = <<"live", live[s + 1]>>
<1>1. s \in 0 .. 2 * TableSlots /\ ~(s >= TableSlots)
  BY RebuildAssumption DEF Between, TableHeld
<1>2. live[s + 1] # 0
  <2>1. \A e \in known : e.at # 0
    BY KnownEntries DEF Between, TableHeld
  <2> QED BY <2>1 DEF Importable, Resolve
<1> QED
  BY <1>1, <1>2 DEF Dumped

LEMMA DumpedIs ==
    Dumped \in [0 .. 2 * TableSlots -> {Dumped[s] : s \in 0 .. 2 * TableSlots}]
BY DEF Dumped

LEMMA FallBackKeepsInv ==
    ASSUME RebuildInv, FallBack, pc' = pc
    PROVE  RebuildInv'
<1>1. /\ stage = "section" /\ builder = <<>>
      /\ \/ stage' = "fallen back"
         \/ stage' = "done" /\ output' = Dumped
      /\ UNCHANGED <<world, known, classic, live, iat, candidates, next, builder>>
  BY DEF FallBack
<1>2. Between /\ (classic => Clustered)
  BY <1>1, InvGives DEF RebuildInv
<1>3. TableHeld'
  BY <1>1, <1>2, SameExports DEF Between, TableHeld
<1>4. Owned' = Owned /\ DOMAIN builder = {}
  <2>1. DOMAIN <<>> = {}
    OBVIOUS
  <2> QED BY <2>1, <1>1 DEF Owned
<1>5. classic' => Clustered'
  BY <1>1, <1>2, <1>4, SameExports DEF Clustered
<1>6. CASE stage' = "fallen back"
  BY <1>1, <1>2, <1>3, <1>6 DEF RebuildInv, Between, ThunksInTheirSlots
<1>7. CASE stage' = "done" /\ output' = Dumped
  <2>1. \E R : output' \in [0 .. 2 * TableSlots -> R]
    BY <1>7, DumpedIs
  <2>2. \A s \in 0 .. Len(iat) - 1 : Importable(s) => output'[s] = <<"live", live[s + 1]>>
    BY <1>2, <1>7, DumpedLive
  <2>3. Written'
    BY <2>1, <2>2, <1>1, <1>4, SameExports DEF Written
  <2>4. ThunksInTheirSlots'
    BY <1>1, <1>4 DEF ThunksInTheirSlots
  <2> QED BY <2>3, <2>4, <1>1, <1>2, <1>3, <1>4, <1>5, <1>7 DEF RebuildInv, Between
<1> QED
  BY <1>1, <1>6, <1>7

LEMMA CreateKeepsInv ==
    ASSUME RebuildInv, CreateSection, pc' = pc
    PROVE  RebuildInv'
<1> DEFINE D == 0 .. 2 * TableSlots
           n == Len(iat)
<1>1. /\ stage = "section" /\ stage' = "write"
      /\ output' = AllLookups(Dumped)
      /\ UNCHANGED <<world, known, classic, live, iat, candidates, next, builder>>
  BY DEF CreateSection
<1>2. Between /\ (classic => Clustered)
  BY <1>1, InvGives DEF RebuildInv
<1>3. TableHeld'
  BY <1>1, <1>2, SameExports DEF Between, TableHeld
<1>4. Owned' = Owned
  BY <1>1 DEF Owned
<1>5. classic' => Clustered'
  BY <1>1, <1>2, <1>4, SameExports DEF Clustered
<1>6. /\ output' \in [D -> Holding(Dumped)]
      /\ \A s \in D \ Owned :
            output'[s] = IF \E i \in DOMAIN builder : Cleared(i, s) THEN Zero ELSE Dumped[s]
  <2>1. IsBuilder(builder)
    BY <1>2 DEF Between
  <2>2. PICK R : Dumped \in [D -> R]
    BY DumpedIs
  <2>3. PICK init : init = Dumped
    OBVIOUS
  <2>4. /\ AllLookups(init) \in [D -> Holding(init)]
        /\ \A s \in D \ Owned :
              AllLookups(init)[s] = IF \E i \in DOMAIN builder : Cleared(i, s) THEN Zero ELSE init[s]
    <3> HIDE DEF D
    <3> QED BY <2>1, <2>2, <2>3, LookedUp
  <2> QED BY <2>3, <2>4, <1>1
<1>7. n \in Nat /\ n <= TableSlots /\ TableSlots \in Nat /\ IsBuilder(builder) /\ Owned \subseteq 0 .. n - 1
  BY <1>2, RebuildAssumption DEF Between, TableHeld
<1>8. ASSUME NEW i \in DOMAIN builder, LastOf(i) + 1 \notin Owned
      PROVE  output'[LastOf(i) + 1] = Zero
  <2>1. LastOf(i) \in 0 .. n - 1
    BY <1>7, LastSlot
  <2>2. LastOf(i) + 1 \in D \ Owned
    BY <2>1, <1>7, <1>8
  <2>3. Cleared(i, LastOf(i) + 1)
    BY DEF Cleared, LastOf
  <2> QED BY <2>2, <2>3, <1>6
<1>9. ASSUME classic, NEW s \in (0 .. n - 1) \ Owned, Importable(s)
      PROVE  output'[s] = <<"live", live[s + 1]>>
  <2>1. PICK p \in SUBSET (0 .. n - 1) :
            /\ s \in p
            /\ Owned \subseteq p
            /\ \A i \in DOMAIN builder : IsRun(p, SlotsOf(builder[i]))
    BY <1>2, <1>9 DEF Clustered
  <2>2. ASSUME NEW i \in DOMAIN builder PROVE ~Cleared(i, s)
    <3>1. PICK lo, hi \in Int : /\ SlotsOf(builder[i]) = lo .. hi /\ lo <= hi
                                /\ hi + 1 \notin p
      BY <2>1 DEF IsRun
    <3>2. /\ LastOf(i) \in lo .. hi /\ \A k \in lo .. hi : k <= LastOf(i)
          /\ Min(SlotsOf(builder[i])) \in lo .. hi
      BY <3>1, <1>7, LastSlot
    <3>3. LastOf(i) = hi
      BY <3>1, <3>2
    <3>4. s # LastOf(i) + 1
      BY <3>1, <3>3, <2>1
    <3>5. s \notin lo .. hi
      BY <3>1, <1>9 DEF Owned, OwnedBy
    <3>6. s \notin Min(SlotsOf(builder[i])) .. LastOf(i)
      BY <3>1, <3>2, <3>3, <3>5, <1>7
    <3> QED BY <3>4, <3>6 DEF Cleared, LastOf
  <2>3. s \in D \ Owned
    BY <1>7
  <2>4. Dumped[s] = <<"live", live[s + 1]>>
    BY <1>2, <1>9, DumpedLive
  <2>5. output'[s] = Dumped[s]
    BY <2>2, <2>3, <1>6
  <2> QED BY <2>4, <2>5
<1>10. Written'
  <2>1. \A i : LastOf(i)' = LastOf(i)
    BY <1>1 DEF LastOf
  <2> QED BY <2>1, <1>1, <1>4, <1>6, <1>8, <1>9, SameExports DEF Written
<1> QED
  BY <1>1, <1>2, <1>3, <1>4, <1>5, <1>10 DEF RebuildInv, Between, ThunksInTheirSlots

LEMMA WriteKeepsInv ==
    ASSUME RebuildInv, WriteSlots, pc' = pc
    PROVE  RebuildInv'
<1> DEFINE D == 0 .. 2 * TableSlots
           n == Len(iat)
<1>1. /\ stage = "write" /\ stage' = "done"
      /\ output' = AllOutputs(output)
      /\ UNCHANGED <<world, known, classic, live, iat, candidates, next, builder>>
  BY DEF WriteSlots
<1>2. Between /\ (classic => Clustered) /\ Written
  BY <1>1, InvGives DEF RebuildInv
<1>3. TableHeld'
  BY <1>1, <1>2, SameExports DEF Between, TableHeld
<1>4. Owned' = Owned
  BY <1>1 DEF Owned
<1>5. classic' => Clustered'
  BY <1>1, <1>2, <1>4, SameExports DEF Clustered
<1>6. PICK R : output \in [D -> R]
  BY <1>2 DEF Written
<1>7. n \in Nat /\ n <= TableSlots /\ TableSlots \in Nat /\ IsBuilder(builder) /\ Owned \subseteq 0 .. n - 1
  BY <1>2, RebuildAssumption DEF Between, TableHeld
<1>8. /\ output' \in [D -> Holding(output)]
      /\ \A s \in D \ Owned : output'[s] = output[s]
      /\ \A i \in DOMAIN builder : \A s \in SlotsOf(builder[i]) \intersect D :
            output'[s] = ThunkValue(ThunkIn(builder[i], s))
  BY <1>1, <1>6, <1>7, PutOut
<1>9. ASSUME NEW i \in DOMAIN builder, LastOf(i) + 1 \notin Owned
      PROVE  output'[LastOf(i) + 1] = Zero
  <2>1. LastOf(i) \in 0 .. n - 1
    BY <1>7, LastSlot
  <2>2. LastOf(i) + 1 \in D \ Owned
    BY <2>1, <1>7, <1>9
  <2>3. output[LastOf(i) + 1] = Zero
    BY <1>2, <1>9 DEF Written
  <2> QED BY <2>2, <2>3, <1>8
<1>10. ASSUME classic, NEW s \in (0 .. n - 1) \ Owned, Importable(s)
       PROVE  output'[s] = <<"live", live[s + 1]>>
  <2>1. s \in D \ Owned
    BY <1>7
  <2> QED BY <2>1, <1>2, <1>8, <1>10 DEF Written
<1>11. Written'
  <2>1. \A i : LastOf(i)' = LastOf(i)
    BY <1>1 DEF LastOf
  <2> QED BY <2>1, <1>1, <1>4, <1>8, <1>9, <1>10, SameExports DEF Written
<1>12. ThunksInTheirSlots'
  <2> SUFFICES ASSUME NEW i \in DOMAIN builder, NEW k \in DOMAIN builder[i].thunks
               PROVE  output'[builder[i].thunks[k].slot] = ThunkValue(builder[i].thunks[k])
    BY <1>1 DEF ThunksInTheirSlots
  <2>1. PICK s : s = builder[i].thunks[k].slot
    OBVIOUS
  <2>2. s \in SlotsOf(builder[i]) /\ s \in Owned /\ ThunkIn(builder[i], s) = builder[i].thunks[k]
    BY <2>1, <1>7, OwnSlots DEF Owned
  <2>3. s \in D
    BY <2>2, <1>7
  <2> QED BY <2>1, <2>2, <2>3, <1>8
<1> QED
  BY <1>1, <1>2, <1>3, <1>4, <1>5, <1>11, <1>12 DEF RebuildInv, Between

LEMMA InvKeptUnchanged ==
    ASSUME RebuildInv, UNCHANGED rebuildVars, stage # "wait" => pc' = pc
    PROVE  RebuildInv'
<1>1. UNCHANGED <<stage, world, known, classic, live, iat, candidates, next, builder, output>>
  BY DEF rebuildVars
<1>2. Owned' = Owned /\ \A i : LastOf(i)' = LastOf(i)
  BY <1>1 DEF Owned, LastOf
<1>3. TableHeld' <=> TableHeld
  BY <1>1, SameExports DEF TableHeld
<1>4. Gathered' <=> Gathered
  BY <1>1, <1>2, SameExports DEF Gathered
<1>5. Clustered' <=> Clustered
  BY <1>1, <1>2, SameExports DEF Clustered
<1>6. Written' <=> Written
  BY <1>1, <1>2, SameExports DEF Written
<1>7. (\A s \in 0 .. Len(iat) - 1 : CandidateOf(s) = Candidates(live[s + 1]))'
          <=> (\A s \in 0 .. Len(iat) - 1 : CandidateOf(s) = Candidates(live[s + 1]))
  BY <1>1, SameExports DEF CandidateOf
<1>8. ThunksInTheirSlots' <=> ThunksInTheirSlots
  BY <1>1 DEF ThunksInTheirSlots
<1> QED
  BY <1>1, <1>2, <1>3, <1>4, <1>5, <1>6, <1>7, <1>8 DEF RebuildInv

LEMMA RebuildInvStep ==
    ASSUME RebuildInv, [ImportsNext]_<<vars, rebuildVars>>
    PROVE  RebuildInv'
<1>1. CASE UNCHANGED <<vars, rebuildVars>>
  BY <1>1, InvKeptUnchanged DEF vars
<1>2. CASE Discover
  <2>1. pc = "done" => pc' = pc
    BY <1>2 DEF Discover, Scan, Rescan, AdoptEarlier, ReadTable, Bound, Enter, Over, vars
  <2>2. UNCHANGED rebuildVars
    BY <1>2 DEF Discover
  <2> QED BY <2>1, <2>2, InvKeptUnchanged DEF RebuildInv
<1>3. ASSUME NEW version \in {"V1", "Ancient", "V2", "V3", "unknown"}, Repair(version)
      PROVE  RebuildInv'
  <2>1. FixV1 \/ FixV2 \/ FixV3
    BY <1>3 DEF Repair
  <2>2. pc # "done"
    BY <2>1 DEF FixV1, FixV2, FixV3
  <2>3. stage = "wait" /\ UNCHANGED <<stage, next, builder>>
    BY <1>3, <2>2 DEF RebuildInv, Repair
  <2> QED BY <2>3 DEF RebuildInv, ThunksInTheirSlots
<1>4. CASE Dump
  <2>1. /\ stage = "wait" /\ pc = "done" /\ stage' = "read" /\ world' \in Worlds
        /\ live' \in [1 .. TableSlots -> Values]
        /\ UNCHANGED <<pc, next, builder>>
    BY <1>4 DEF Dump
  <2> QED BY <2>1 DEF RebuildInv, ThunksInTheirSlots
<1>5. CASE RebuildNext /\ UNCHANGED vars
  <2>1. pc' = pc
    BY <1>5 DEF vars
  <2>2. CASE \E located \in {0, TableSlots} : ReadTableOf(located)
    BY <2>1, <2>2, ReadKeepsInv
  <2>3. CASE Collect
    BY <2>1, <2>3, CollectKeepsInv
  <2>4. CASE SkipZero
    BY <2>1, <2>4, SkipKeepsInv
  <2>5. CASE Vote
    BY <2>1, <2>5, VoteKeepsInv
  <2>6. CASE VoteDone
    BY <2>1, <2>6, VoteDoneKeepsInv
  <2>7. CASE Regroup
    BY <2>1, <2>7, RegroupKeepsInv
  <2>8. CASE Normalise
    BY <2>1, <2>8, NormaliseKeepsInv
  <2>9. CASE FallBack
    BY <2>1, <2>9, FallBackKeepsInv
  <2>10. CASE CreateSection
    BY <2>1, <2>10, CreateKeepsInv
  <2>11. CASE WriteSlots
    BY <2>1, <2>11, WriteKeepsInv
  <2> QED
    BY <1>5, <2>2, <2>3, <2>4, <2>5, <2>6, <2>7, <2>8, <2>9, <2>10, <2>11 DEF RebuildNext
<1> QED
  BY <1>1, <1>2, <1>3, <1>4, <1>5 DEF ImportsNext

LEMMA RebuildInvHolds == ImportsSpec => []RebuildInv
<1>1. ImportsInit => RebuildInv
  BY EmptyBuilder DEF ImportsInit, NotDumped, RebuildInv, ThunksInTheirSlots
<1> QED
  BY <1>1, RebuildInvStep, PTL DEF ImportsSpec

(* Whatever the modules export and the table holds, at the end of the      *)
(* rebuild every thunk has its own value in its own slot of the product:   *)
(* no two descriptors claim a slot, and no terminator and no gap of one is *)
(* left where a thunk of another is (write_iat_to_output).                 *)
THEOREM ThunksAreInTheirSlots == ImportsSpec => []ThunksInTheirSlots
<1>1. RebuildInv => ThunksInTheirSlots
  BY DEF RebuildInv
<1> QED
  BY <1>1, RebuildInvHolds, PTL

\* The loader's walk under a classic descriptor does not leave its slots
LEMMA WalkedIsOwn ==
    ASSUME IsBuilder(builder), TableHeld, Clustered, Written, classic,
           Owned \subseteq 0 .. Len(iat) - 1,
           NEW i \in DOMAIN builder, NEW s \in Walk(i)
    PROVE  s \in SlotsOf(builder[i])
<1>1. PICK p \in SUBSET (0 .. Len(iat) - 1) :
          Owned \subseteq p /\ \A n \in DOMAIN builder : IsRun(p, SlotsOf(builder[n]))
  BY DEF Clustered
<1>2. Len(iat) \in Nat
  BY DEF TableHeld
<1>3. PICK lo, hi \in Int : SlotsOf(builder[i]) = lo .. hi /\ lo <= hi /\ hi + 1 \notin p
  BY <1>1 DEF IsRun
<1>4. /\ LastOf(i) \in lo .. hi /\ \A k \in lo .. hi : k <= LastOf(i)
      /\ Min(SlotsOf(builder[i])) \in lo .. hi
      /\ \A k \in lo .. hi : Min(SlotsOf(builder[i])) <= k
  BY <1>2, <1>3, LastSlot
<1>5. LastOf(i) = hi /\ Min(SlotsOf(builder[i])) = lo
  BY <1>3, <1>4
<1>6. output[hi + 1] = Zero
  BY <1>1, <1>3, <1>5 DEF Written
<1>7. FirstThunk(i) = lo
  BY <1>5 DEF FirstThunk
<1>8. s \in Int /\ s >= lo /\ \A k \in lo .. s : output[k] # Zero
  BY <1>7 DEF Walk, Written
<1>9. ~(hi + 1 <= s)
  BY <1>3, <1>6, <1>8
<1> QED
  BY <1>3, <1>8, <1>9

(* Whatever the modules export and the table holds, a slot of a function   *)
(* that some module exports and that no classic descriptor has taken keeps *)
(* the address it had, and no descriptor's walk comes across it            *)
(* (normalize_module_runs).                                                *)
THEOREM UndescribedStays == ImportsSpec => []UndescribedUntouched
<1>1. ASSUME RebuildInv PROVE UndescribedUntouched
  <2> SUFFICES ASSUME stage = "done", classic, NEW s \in 0 .. Len(iat) - 1,
                      Resolve(live[s + 1]) # {}, s \notin Owned
               PROVE  /\ output[s] = <<"live", live[s + 1]>>
                      /\ \A i \in DOMAIN builder : s \notin Walk(i)
    BY DEF UndescribedUntouched
  <2>1. /\ IsBuilder(builder) /\ TableHeld /\ Owned \subseteq 0 .. Len(iat) - 1
        /\ Clustered /\ Written
    BY <1>1 DEF RebuildInv
  <2>2. output[s] = <<"live", live[s + 1]>>
    BY <2>1 DEF Written, Importable
  <2>3. ASSUME NEW i \in DOMAIN builder, s \in Walk(i) PROVE FALSE
    <3>1. s \in SlotsOf(builder[i])
      BY <2>1, <2>3, WalkedIsOwn
    <3> QED BY <3>1 DEF Owned, OwnedBy
  <2> QED BY <2>2, <2>3
<1> QED
  BY <1>1, RebuildInvHolds, PTL

\* Where the buckets are back to back the dense offsets are the slots
LEMMA DenseOffsets ==
    ASSUME NEW n \in Nat, IsBuilder(builder), Owned \subseteq 0 .. n - 1, BackToBack
    PROVE  /\ \A i \in DOMAIN builder :
                 /\ Dense(i) = Min(SlotsOf(builder[i]))
                 /\ SlotsOf(builder[i]) = Dense(i) .. LastOf(i)
                 /\ Dense(i) \in Nat /\ LastOf(i) \in Nat
           /\ \A i \in DOMAIN builder : LastOf(i) + 1 \notin Owned
<1> DEFINE lo(i) == Min(SlotsOf(builder[i]))
           N == Len(builder)
<1>1. N \in Nat /\ DOMAIN builder = 1 .. N
  BY BuilderDomains
<1>2. ASSUME NEW i \in DOMAIN builder
      PROVE  /\ lo(i) \in Int /\ LastOf(i) \in Int /\ lo(i) <= LastOf(i)
             /\ LastOf(i) \in 0 .. n - 1 /\ lo(i) \in 0 .. n - 1
             /\ SlotsOf(builder[i]) = lo(i) .. LastOf(i)
             /\ Max(SlotsOf(builder[i])) = LastOf(i)
             /\ Len(builder[i].thunks) = LastOf(i) - lo(i) + 1
  <2> DEFINE S == SlotsOf(builder[i])
  <2>1. /\ S \subseteq 0 .. n - 1
        /\ LastOf(i) \in S /\ Min(S) \in S /\ LastOf(i) \in 0 .. n - 1
        /\ \A s \in S : s <= LastOf(i) /\ Min(S) <= s
    BY LastSlot
  <2>2. Max(S) = LastOf(i)
    <3>1. S # {} /\ S \in SUBSET Int /\ (\A s \in S : s <= n) /\ n \in Int
      BY <2>1
    <3> HIDE DEF S
    <3>2. Max(S) \in S /\ Max(S) \in Int /\ \A s \in S : s <= Max(S)
      BY <3>1, MaxOf
    <3>3. Max(S) <= LastOf(i) /\ LastOf(i) <= Max(S)
      BY <2>1, <3>2
    <3> QED BY <3>2, <3>3, <2>1
  <2>3. S = Min(S) .. LastOf(i)
    BY <2>2 DEF BackToBack
  <2>4. Min(S) \in Int /\ LastOf(i) \in Int /\ Min(S) <= LastOf(i) /\ Min(S) \in 0 .. n - 1
    BY <2>1
  <2>5. Cardinality(Min(S) .. LastOf(i)) = LastOf(i) - Min(S) + 1
    BY <2>4, FS_Interval
  <2>6. Len(builder[i].thunks) = LastOf(i) - Min(S) + 1
    BY <2>3, <2>5, SlotCount
  <2> QED BY <2>1, <2>2, <2>3, <2>4, <2>6
<1>3. /\ \A i \in DOMAIN builder : i = 1 => lo(i) = 0
      /\ \A i \in DOMAIN builder : i > 1 => lo(i) = LastOf(i - 1) + 2
  <2>1. \A i \in DOMAIN builder : i = 1 => lo(i) = 0
    BY DEF BackToBack
  <2>2. ASSUME NEW i \in DOMAIN builder, i > 1 PROVE lo(i) = LastOf(i - 1) + 2
    <3>1. i - 1 \in DOMAIN builder
      BY <1>1, <2>2
    <3>2. lo(i) = Max(SlotsOf(builder[i - 1])) + 2
      BY <2>2 DEF BackToBack
    <3> QED BY <3>1, <3>2, <1>2
  <2> QED BY <2>1, <2>2
<1> HIDE DEF lo, N
<1>4. PICK w : /\ w[0] = 0
               /\ \A i \in DOMAIN builder : w[i] = w[i - 1] + Len(builder[i].thunks) + 1
               /\ \A i \in 0 .. N : w[i] \in Nat
               /\ \A i \in DOMAIN builder : Dense(i) = w[i - 1]
  BY DenseSums DEF N
<1>5. \A i \in DOMAIN builder : w[i - 1] = lo(i)
  <2> DEFINE T == {i \in Nat : i \in DOMAIN builder => w[i - 1] = lo(i)}
  <2>1. 1 \in T
    BY <1>3, <1>4
  <2>2. ASSUME NEW i \in 1 .. N - 1, i \in T PROVE i + 1 \in T
    <3>1. i \in DOMAIN builder /\ i + 1 \in DOMAIN builder /\ (i + 1) - 1 = i /\ i + 1 > 1 /\ i + 1 \in Nat
      BY <1>1
    <3>2. w[i - 1] = lo(i)
      BY <2>2, <3>1
    <3>3. w[i] = lo(i) + (LastOf(i) - lo(i) + 1) + 1
      BY <3>1, <3>2, <1>2, <1>4
    <3>4. lo(i + 1) = LastOf(i) + 2
      BY <3>1, <1>3
    <3>5. w[i] = lo(i + 1)
      BY <3>1, <3>3, <3>4, <1>2
    <3> QED BY <3>1, <3>5
  <2> HIDE DEF T
  <2>3. \A i \in 1 .. N - 1 : i \in T => i + 1 \in T
    BY <2>2
  <2>4. \A i \in 1 .. N : i \in T
    <3>1. 1 \in Int /\ N \in Int
      BY <1>1
    <3> QED BY <3>1, <2>1, <2>3, UpFrom
  <2> QED BY <2>4, <1>1 DEF T
<1>6. ASSUME NEW i \in DOMAIN builder, NEW j \in DOMAIN builder, i < j
      PROVE  lo(j) >= LastOf(i) + 2
  <2> DEFINE T == {k \in Int : k \in DOMAIN builder => lo(k) >= LastOf(i) + 2}
  <2>0. i \in Int /\ i >= 1 /\ j <= N /\ j \in Int
    BY <1>1
  <2>1. i + 1 \in T
    <3>1. i + 1 > 1 /\ (i + 1) - 1 = i /\ i + 1 \in Int
      BY <2>0
    <3>2. i + 1 \in DOMAIN builder => lo(i + 1) = LastOf(i) + 2
      BY <3>1, <1>3
    <3>3. LastOf(i) \in Int
      BY <1>2
    <3> QED BY <3>1, <3>2, <3>3
  <2>2. ASSUME NEW k \in i + 1 .. N - 1, k \in T PROVE k + 1 \in T
    <3>1. k \in DOMAIN builder /\ k + 1 \in DOMAIN builder /\ (k + 1) - 1 = k /\ k + 1 > 1 /\ k + 1 \in Int
      BY <1>1, <2>0
    <3>2. lo(k) >= LastOf(i) + 2
      BY <2>2, <3>1
    <3>3. lo(k + 1) = LastOf(k) + 2
      BY <3>1, <1>3
    <3>4. lo(k) <= LastOf(k) /\ lo(k) \in Int /\ LastOf(k) \in Int /\ LastOf(i) \in Int
      BY <3>1, <1>2
    <3>5. lo(k + 1) >= LastOf(i) + 2
      BY <3>2, <3>3, <3>4
    <3> QED BY <3>1, <3>5
  <2> HIDE DEF T
  <2>3. \A k \in i + 1 .. N - 1 : k \in T => k + 1 \in T
    BY <2>2
  <2>4. \A k \in i + 1 .. N : k \in T
    <3>1. i + 1 \in Int /\ N \in Int
      BY <1>1, <2>0
    <3> QED BY <3>1, <2>1, <2>3, UpFrom
  <2>5. j \in i + 1 .. N
    BY <2>0, <1>1, <1>6
  <2> QED BY <2>4, <2>5 DEF T
<1>7. ASSUME NEW i \in DOMAIN builder, LastOf(i) + 1 \in Owned PROVE FALSE
  <2>1. PICK j \in DOMAIN builder : LastOf(i) + 1 \in SlotsOf(builder[j])
    BY <1>7 DEF Owned, OwnedBy
  <2>2. LastOf(i) + 1 \in lo(j) .. LastOf(j)
    BY <2>1, <1>2
  <2>3. /\ LastOf(i) \in Int /\ LastOf(j) \in Int /\ lo(i) \in Int /\ lo(j) \in Int
        /\ lo(i) <= LastOf(i) /\ i \in Int /\ j \in Int
    BY <1>1, <1>2
  <2>4. CASE i < j
    <3>1. lo(j) >= LastOf(i) + 2
      BY <2>4, <1>6
    <3> QED BY <3>1, <2>2, <2>3
  <2>5. CASE j < i
    <3>1. lo(i) >= LastOf(j) + 2
      BY <2>5, <1>6
    <3> QED BY <3>1, <2>2, <2>3
  <2>6. CASE i = j
    BY <2>6, <2>2, <2>3
  <2> QED BY <2>3, <2>4, <2>5, <2>6
<1>8. ASSUME NEW i \in DOMAIN builder
      PROVE  /\ Dense(i) = Min(SlotsOf(builder[i]))
             /\ SlotsOf(builder[i]) = Dense(i) .. LastOf(i)
             /\ Dense(i) \in Nat /\ LastOf(i) \in Nat
  <2>1. Dense(i) = lo(i)
    BY <1>4, <1>5
  <2>2. lo(i) \in Nat /\ LastOf(i) \in Nat
    BY <1>2
  <2> QED BY <2>1, <2>2, <1>2 DEF lo
<1> QED
  BY <1>7, <1>8

(* Whatever the modules export and the table holds, where the buckets of   *)
(* the V3 path lie back to back in the table the loader walks under every  *)
(* dense descriptor the slots of its module and no others                  *)
(* (build_import_section_no_iat).                                          *)
THEOREM DenseDescriptorsAreRead == ImportsSpec => []DenseTablesAreRead
<1>1. ASSUME RebuildInv PROVE DenseTablesAreRead
  <2> SUFFICES ASSUME stage = "done", ~classic, BackToBack, NEW i \in DOMAIN builder
               PROVE  Walk(i) = SlotsOf(builder[i])
    BY DEF DenseTablesAreRead
  <2>1. /\ IsBuilder(builder) /\ TableHeld /\ Owned \subseteq 0 .. Len(iat) - 1
        /\ Written /\ ThunksInTheirSlots
    BY <1>1 DEF RebuildInv
  <2>2. Len(iat) \in Nat /\ Len(iat) <= TableSlots /\ TableSlots \in Nat
    BY <2>1, RebuildAssumption DEF TableHeld
  <2>3. PICK lo, hi : lo = Dense(i) /\ hi = LastOf(i)
    OBVIOUS
  <2>4. /\ SlotsOf(builder[i]) = lo .. hi /\ lo \in Nat /\ hi \in Nat
        /\ hi + 1 \notin Owned
    BY <2>1, <2>2, <2>3, DenseOffsets
  <2>5. FirstThunk(i) = lo
    BY <2>3 DEF FirstThunk
  <2>6. output[hi + 1] = Zero
    BY <2>1, <2>3, <2>4 DEF Written
  <2>7. lo .. hi \subseteq DOMAIN output
    <3>1. DOMAIN output = 0 .. 2 * TableSlots
      BY <2>1 DEF Written
    <3>2. lo .. hi \subseteq 0 .. Len(iat) - 1
      BY <2>1, <2>4 DEF Owned, OwnedBy
    <3> QED BY <3>1, <3>2, <2>2
  <2>8. ASSUME NEW s \in lo .. hi PROVE output[s] # Zero
    <3>1. PICK k \in DOMAIN builder[i].thunks : builder[i].thunks[k].slot = s
      BY <2>4 DEF SlotsOf
    <3>2. output[s] = ThunkValue(builder[i].thunks[k])
      BY <3>1, <2>1 DEF ThunksInTheirSlots
    <3>3. output[s][1] = "thunk" /\ Zero[1] = "zero"
      BY <3>2 DEF ThunkValue, Zero
    <3> QED BY <3>3
  <2>9. ASSUME NEW s \in Walk(i) PROVE s \in lo .. hi
    <3>1. /\ s \in 0 .. 2 * TableSlots /\ s >= lo
          /\ \A k \in lo .. s : output[k] # Zero
      BY <2>1, <2>5 DEF Walk, Written
    <3>2. hi + 1 \notin lo .. s \/ hi + 1 < lo
      BY <3>1, <2>6
    <3>3. SlotsOf(builder[i]) # {}
      BY <2>1, <2>2, LastSlot
    <3> QED BY <3>1, <3>2, <3>3, <2>2, <2>4
  <2>10. ASSUME NEW s \in lo .. hi PROVE s \in Walk(i)
    <3>1. \A k \in lo .. s : k \in lo .. hi
      BY <2>4
    <3>2. s >= lo /\ \A k \in lo .. s : output[k] # Zero
      BY <3>1, <2>4, <2>8
    <3> QED BY <3>2, <2>5, <2>7 DEF Walk
  <2> QED BY <2>4, <2>9, <2>10
<1> QED
  BY <1>1, RebuildInvHolds, PTL

----------------------------------------------------------------------------
(* What the loader finds *)

\* A value leads to the function that is meant, or to a stub in front of it
Right(v, a) == a = Meant(v) \/ \E x \in StubFor(Meant(v)) : x.at = a

\* The module exports the thunk's name, and it leads where the slot led
Leads(m, t) ==
    \E e \in known : /\ e.mod = m /\ e.name = t.name /\ t.ord = FALSE
                     /\ Right(live[t.slot + 1], Reached(known, e))

\* The table holds what it held, or the function a forwarder string of it means
Followed(s) == iat[s + 1] \in {live[s + 1], Meant(live[s + 1])}

AllLead ==
    \A i \in DOMAIN builder : \A k \in DOMAIN builder[i].thunks :
        Leads(builder[i].mod, builder[i].thunks[k])

FoundInv ==
    stage \notin {"wait", "read"} =>
        /\ known = Snapshot
        /\ \A s \in 0 .. Len(iat) - 1 : Followed(s)
        /\ AllLead

\* Two entries of a world with the same key are one
LEMMA OneEntry ==
    ASSUME Snapped, NEW e \in world, NEW f \in world,
           e.mod = f.mod, e.name = f.name, e.ord = f.ord
    PROVE  e = f
BY RebuildAssumption DEF Snapped

\* None is exported by ordinal only
LEMMA Named ==
    ASSUME Snapped, Agreeing(known), NEW e \in known
    PROVE  e.ord = FALSE
<1>1. ~e.ord
  BY DEF Agreeing
<1>2. e.ord \in BOOLEAN
  BY RebuildAssumption DEF Snapped
<1> QED
  BY <1>1, <1>2

LEMMA OneTarget ==
    ASSUME Snapped, NEW e, NEW t \in ForwardTarget(e)
    PROVE  t \in known /\ Reached(known, e) = t.at
<1>1. /\ e.fwd # None /\ t \in known
      /\ \A u \in TargetIn(known, e) :
            /\ u \in known /\ u.mod = t.mod /\ u.name = t.name /\ ~u.ord /\ ~t.ord
  BY DEF ForwardTarget, TargetIn
<1>2. ASSUME NEW u \in TargetIn(known, e) PROVE u = t
  <2>1. u \in world /\ t \in world /\ u.mod = t.mod /\ u.name = t.name
    BY <1>1 DEF Snapped
  <2>2. u.ord = t.ord
    <3>1. ~u.ord /\ ~t.ord
      BY <1>1
    <3>2. u.ord \in BOOLEAN /\ t.ord \in BOOLEAN
      BY <2>1, RebuildAssumption DEF Snapped
    <3> QED BY <3>1, <3>2
  <2> QED BY <2>1, <2>2, OneEntry
<1>3. t \in TargetIn(known, e)
  BY DEF ForwardTarget
<1>4. (CHOOSE u \in TargetIn(known, e) : TRUE) = t
  BY <1>2, <1>3
<1> QED
  BY <1>1, <1>3, <1>4 DEF Reached

\* What an address means is what any entry at it leads to
LEMMA MeantAt ==
    ASSUME Snapped, Agreeing(known), NEW e \in known
    PROVE  Meant(e.at) = Reached(known, e)
<1>1. CASE StringMap(e.at) = {}
  <2>1. TargetIn(known, e) = {}
    BY <1>1 DEF StringMap, ForwardTarget
  <2> QED BY <1>1, <2>1 DEF Meant, Reached
<1>2. CASE StringMap(e.at) # {}
  <2>1. PICK t : t = CHOOSE u \in StringMap(e.at) : TRUE
    OBVIOUS
  <2>2. t \in StringMap(e.at) /\ Meant(e.at) = t.at
    BY <1>2, <2>1 DEF Meant
  <2>3. PICK f \in known : f.at = e.at /\ t \in ForwardTarget(f)
    BY <2>2 DEF StringMap
  <2>4. Reached(known, f) = t.at
    BY <2>3, OneTarget
  <2>5. Reached(known, f) = Reached(known, e)
    BY <2>3 DEF Agreeing
  <2> QED BY <2>2, <2>4, <2>5
<1> QED
  BY <1>1, <1>2

\* What is forwarded to is a function, and means itself
LEMMA TargetMeansItself ==
    ASSUME Snapped, Agreeing(known), NEW e \in known, NEW t \in ForwardTarget(e)
    PROVE  t \in known /\ Meant(e.at) = t.at /\ Meant(t.at) = t.at /\ Reached(known, e) = t.at
<1>1. t \in known /\ Reached(known, e) = t.at
  BY OneTarget
<1>2. Meant(e.at) = t.at
  BY <1>1, MeantAt
<1>3. Reached(known, t) = t.at
  BY <1>1 DEF Agreeing, ForwardTarget
<1>4. Meant(t.at) = t.at
  BY <1>1, <1>3, MeantAt
<1> QED
  BY <1>1, <1>2, <1>4

\* No stub stands in front of a forwarder string
LEMMA StubsOfTheMeant ==
    ASSUME Snapped, Agreeing(known), NEW v
    PROVE  StubFor(v) # {} => Meant(v) = v
<1> SUFFICES ASSUME NEW x \in StubFor(v), StringMap(v) # {} PROVE Meant(v) = v
  BY DEF Meant
<1>1. PICK f \in known : f.at = v
  BY DEF StringMap
<1>2. x \in known /\ x.stub = f.at
  BY <1>1 DEF StubFor
<1>3. Reached(known, f) = f.at
  BY <1>1, <1>2 DEF Agreeing
<1> QED
  BY <1>1, <1>3, MeantAt

\* A candidate is what the slot held or what it means, and its thunk leads there
LEMMA ThunkLeads ==
    ASSUME Snapped, Agreeing(known), NEW j, NEW c \in CandidateSet(live[j + 1])
    PROVE  /\ c.at \in {live[j + 1], Meant(live[j + 1])}
           /\ Leads(c.mod, ThunkAt(j, c))
<1> DEFINE v == live[j + 1]
           names == IF NameAt(c.mod, c.at) # {} THEN NameAt(c.mod, c.at) ELSE ForwardMap(c.at)
           n == CHOOSE e \in names : TRUE
<1>1. ThunkAt(j, c) = [slot |-> j, ord |-> n.ord, name |-> n.name]
  BY DEF ThunkAt
<1>2. ASSUME n \in known, n.mod = c.mod, Reached(known, n) = Meant(v)
      PROVE  Leads(c.mod, ThunkAt(j, c))
  <2> HIDE DEF n
  <2>1. n.ord = FALSE
    BY <1>2, Named
  <2> QED BY <2>1, <1>1, <1>2 DEF Leads, Right
<1>3. ASSUME NEW e \in known, e.mod = c.mod, e.at = c.at, Meant(c.at) = Meant(v)
      PROVE  Leads(c.mod, ThunkAt(j, c))
  <2>1. e \in NameAt(c.mod, c.at)
    BY <1>3 DEF NameAt
  <2>2. n \in NameAt(c.mod, c.at)
    BY <2>1
  <2> HIDE DEF n
  <2>3. n \in known /\ n.mod = c.mod /\ n.at = c.at
    BY <2>2 DEF NameAt
  <2>4. Reached(known, n) = Meant(v)
    BY <2>3, <1>3, MeantAt
  <2> QED BY <2>3, <2>4, <1>2
<1>4. ASSUME NEW e \in ForwardMap(v), c = [mod |-> e.mod, at |-> v]
      PROVE  Leads(c.mod, ThunkAt(j, c))
  <2>1. e \in known /\ (\A f \in ForwardMap(v) : f = e)
    BY ForwardMapIs
  <2>2. PICK t \in ForwardTarget(e) : t.at = v
    BY ForwardMapIs
  <2>3. Reached(known, e) = v /\ Meant(v) = v
    BY <2>1, <2>2, TargetMeansItself
  <2>4. CASE NameAt(c.mod, c.at) = {}
    <3>1. n = e
      BY <2>1, <2>4, <1>4
    <3> HIDE DEF n
    <3> QED BY <3>1, <2>1, <2>3, <1>2, <1>4
  <2>5. CASE NameAt(c.mod, c.at) # {}
    <3>1. PICK f \in known : f.mod = c.mod /\ f.at = c.at
      BY <2>5 DEF NameAt
    <3> QED BY <3>1, <1>3, <1>4
  <2> QED BY <2>4, <2>5
<1>5. CASE \E e \in ForwardMap(v) : c = [mod |-> e.mod, at |-> v]
  <2> HIDE DEF n, names
  <2> QED BY <1>4, <1>5
<1>6. CASE \E e \in known : e.at = v /\ c = [mod |-> e.mod, at |-> v]
  <2> HIDE DEF n, names
  <2> QED BY <1>3, <1>6
<1>7. CASE \E t \in StringMap(v) : c = [mod |-> t.mod, at |-> t.at]
  <2>1. PICK t \in StringMap(v) : c = [mod |-> t.mod, at |-> t.at]
    BY <1>7
  <2>2. PICK e \in known : e.at = v /\ t \in ForwardTarget(e)
    BY <2>1 DEF StringMap
  <2>3. t \in known /\ Meant(v) = t.at /\ Meant(t.at) = t.at
    BY <2>2, TargetMeansItself
  <2> HIDE DEF n, names
  <2> QED BY <2>1, <2>3, <1>3
<1>8. \/ \E e \in ForwardMap(v) : c = [mod |-> e.mod, at |-> v]
      \/ \E e \in known : e.at = v /\ c = [mod |-> e.mod, at |-> v]
      \/ \E t \in StringMap(v) : c = [mod |-> t.mod, at |-> t.at]
  BY DEF CandidateSet
<1> HIDE DEF n, names
<1> QED
  BY <1>5, <1>6, <1>7, <1>8

\* The buckets hold the thunks of the slots, each with its module
LEMMA BucketedThunks ==
    ASSUME NEW p, IsPairs(p), NEW i \in DOMAIN Bucketed(p),
           NEW k \in DOMAIN Bucketed(p)[i].thunks
    PROVE  \E s \in DOMAIN p : /\ Bucketed(p)[i].mod = p[s].mod
                               /\ Bucketed(p)[i].thunks[k] = p[s].thunk
<1> DEFINE M == {p[s].mod : s \in DOMAIN p}
           D(m) == {s \in DOMAIN p : p[s].mod = m}
           mods == Ascending(M)
<1>1. i \in DOMAIN mods /\ Bucketed(p)[i].mod = mods[i]
      /\ Bucketed(p)[i].thunks = [n \in DOMAIN Ascending(D(mods[i])) |-> p[Ascending(D(mods[i]))[n]].thunk]
  BY DEF Bucketed
<1>2. D(mods[i]) \in SUBSET Indices
  BY DEF IsPairs
<1> HIDE DEF D, mods
<1>3. Ascending(D(mods[i])) \in [1 .. Cardinality(D(mods[i])) -> D(mods[i])]
  BY <1>2, InIndices, AscendingIs
<1>4. k \in 1 .. Cardinality(D(mods[i])) /\ Bucketed(p)[i].thunks[k] = p[Ascending(D(mods[i]))[k]].thunk
  BY <1>1, <1>3
<1>5. Ascending(D(mods[i]))[k] \in D(mods[i])
  BY <1>3, <1>4
<1> QED
  BY <1>1, <1>4, <1>5 DEF D

LEMMA JoinedThunks ==
    ASSUME NEW b, IsBuilder(b), NEW c, IsBuilder(c), NEW i \in DOMAIN (b \o c)
    PROVE  \/ i \in DOMAIN b /\ (b \o c)[i] = b[i]
           \/ \E n \in DOMAIN c : (b \o c)[i] = c[n]
<1>1. /\ Len(b) \in Nat /\ DOMAIN b = 1 .. Len(b)
      /\ Len(c) \in Nat /\ DOMAIN c = 1 .. Len(c)
  BY BuilderDomains
<1>2. PICK X, Y : b \in Seq(X) /\ c \in Seq(Y)
  BY DEF IsBuilder
<1>3. b \in Seq(X \union Y) /\ c \in Seq(X \union Y)
  BY <1>1, <1>2
<1>4. /\ DOMAIN (b \o c) = 1 .. Len(b) + Len(c)
      /\ \A n \in 1 .. Len(b) : (b \o c)[n] = b[n]
      /\ \A n \in Len(b) + 1 .. Len(b) + Len(c) : (b \o c)[n] = c[n - Len(b)]
  BY <1>1, <1>3
<1>5. CASE i <= Len(b)
  BY <1>1, <1>4, <1>5
<1>6. CASE i > Len(b)
  <2>1. i - Len(b) \in DOMAIN c /\ i \in Len(b) + 1 .. Len(b) + Len(c)
    BY <1>1, <1>4, <1>6
  <2> QED BY <2>1, <1>4
<1> QED
  BY <1>1, <1>4, <1>5, <1>6

\* A slot's pair is a thunk of the builder with its module
LEMMA PairsThunks ==
    ASSUME NEW b, IsBuilder(b), NEW s \in OwnedBy(b)
    PROVE  \E i \in DOMAIN b : \E k \in DOMAIN b[i].thunks :
              Pairs(b)[s] = [mod |-> b[i].mod, thunk |-> b[i].thunks[k]]
<1> DEFINE I == {i \in DOMAIN b : s \in SlotsOf(b[i])}
<1>1. Min(I) \in I
  <2>1. I # {}
    BY DEF OwnedBy
  <2>2. I \in SUBSET Int /\ \A i \in I : 1 <= i
    BY BuilderDomains
  <2> HIDE DEF I
  <2> QED BY <2>1, <2>2, MinOf
<1>2. PICK i : i = Min(I)
  OBVIOUS
<1>3. Pairs(b)[s] = [mod |-> b[i].mod, thunk |-> ThunkIn(b[i], s)]
  BY <1>2 DEF Pairs
<1>4. i \in DOMAIN b /\ s \in SlotsOf(b[i])
  BY <1>1, <1>2
<1>5. PICK k \in DOMAIN b[i].thunks : b[i].thunks[k].slot = s
  BY <1>4 DEF SlotsOf
<1>6. ThunkIn(b[i], s) = b[i].thunks[k]
  BY <1>4, <1>5, OwnSlots
<1> QED
  BY <1>3, <1>4, <1>5, <1>6

\* What covers a cluster covers each of its slots
LEMMA CoveringIs ==
    ASSUME NEW p, IsPairs(p), NEW C \in SUBSET DOMAIN p, NEW m \in Covering(p, C), NEW s \in C,
           ~p[s].thunk.ord
    PROVE  \/ m = p[s].mod
           \/ \E e \in known : e.mod = m /\ p[s].thunk.name = IF e.ord THEN -e.name ELSE e.name
<1> DEFINE mods == {p[j].mod : j \in C}
           valid(n, q) == IF q.thunk.ord THEN q.mod = n
                          ELSE \E e \in known : e.mod = n /\
                                 q.thunk.name = (IF e.ord THEN -e.name ELSE e.name)
           fit == IF Cardinality(mods) = 1 THEN mods
                  ELSE {n \in mods : \A j \in C : valid(n, p[j])}
<1>1. m \in fit
  BY DEF Covering
<1>2. CASE Cardinality(mods) = 1
  <2>1. m \in mods /\ p[s].mod \in mods
    BY <1>1, <1>2
  <2>2. mods \in SUBSET Modules
    BY DEF IsPairs
  <2>3. PICK x : mods = {x}
    <3> HIDE DEF mods
    <3> QED BY <2>2, <1>2, InModules, FS_Singleton
  <2> QED BY <2>1, <2>3
<1>3. CASE Cardinality(mods) # 1
  <2>1. valid(m, p[s])
    BY <1>1, <1>3
  <2> QED BY <2>1
<1> QED
  BY <1>2, <1>3

\* A slot stays with its module, or goes to one under which its name is valid
LEMMA NormalisedThunks ==
    ASSUME NEW p, IsPairs(p), NEW i \in DOMAIN Normalised(p),
           NEW k \in DOMAIN Normalised(p)[i].thunks, \A s \in DOMAIN p : ~p[s].thunk.ord
    PROVE  \E s \in DOMAIN p :
              /\ Normalised(p)[i].thunks[k] = p[s].thunk
              /\ \/ Normalised(p)[i].mod = p[s].mod
                 \/ \E e \in known : /\ e.mod = Normalised(p)[i].mod
                                     /\ p[s].thunk.name = IF e.ord THEN -e.name ELSE e.name
<1> DEFINE S == Covered(p)
           first == Ascending(S)
<1>1. S \in SUBSET Indices
  BY DEF Covered, IsPairs
<1>2. Cardinality(S) \in Nat /\ first \in [1 .. Cardinality(S) -> S]
  <2> HIDE DEF S
  <2> QED BY <1>1, InIndices, AscendingIs
<1>3. PICK lo : lo = first[i]
  OBVIOUS
<1>4. /\ i \in DOMAIN first
      /\ Normalised(p)[i].mod = CHOOSE m \in Covering(p, Cluster(p, lo)) : TRUE
      /\ Normalised(p)[i].thunks = [n \in 1 .. Cardinality(Cluster(p, lo)) |-> p[lo + n - 1].thunk]
  <2>1. PICK b : b = Normalised(p)
    OBVIOUS
  <2>2. b = [n \in DOMAIN first |->
               [mod |-> CHOOSE m \in Covering(p, Cluster(p, first[n])) : TRUE,
                thunks |-> [l \in 1 .. Cardinality(Cluster(p, first[n])) |-> p[first[n] + l - 1].thunk]]]
    BY <2>1 DEF Normalised
  <2>3. i \in DOMAIN b
    BY <2>1
  <2> HIDE DEF first
  <2>4. /\ i \in DOMAIN first
        /\ b[i].mod = CHOOSE m \in Covering(p, Cluster(p, lo)) : TRUE
        /\ b[i].thunks = [n \in 1 .. Cardinality(Cluster(p, lo)) |-> p[lo + n - 1].thunk]
    BY <2>2, <2>3, <1>3
  <2> QED BY <2>1, <2>4
<1>5. lo \in S
  <2> HIDE DEF S, first
  <2> QED BY <1>2, <1>3, <1>4
<1>6. lo \in DOMAIN p /\ Covering(p, Cluster(p, lo)) # {}
  BY <1>5 DEF Covered
<1> HIDE DEF S, first
<1>7. PICK hi \in DOMAIN p : /\ lo \in Int /\ hi \in Int /\ lo <= hi
                             /\ Cluster(p, lo) = lo .. hi
                             /\ lo .. hi \subseteq DOMAIN p
  BY <1>6, ClusterIs
<1>8. Cardinality(Cluster(p, lo)) = hi - lo + 1
  BY <1>7, FS_Interval
<1>9. PICK s : s = lo + k - 1
  OBVIOUS
<1>10. s \in lo .. hi /\ Normalised(p)[i].thunks[k] = p[s].thunk
  BY <1>4, <1>7, <1>8, <1>9
<1>11. PICK C, m : C = Cluster(p, lo) /\ m = Normalised(p)[i].mod
  OBVIOUS
<1>12. m \in Covering(p, C) /\ s \in C
  BY <1>4, <1>6, <1>7, <1>10, <1>11
<1>13. s \in DOMAIN p /\ C \in SUBSET DOMAIN p
  BY <1>7, <1>10, <1>11
<1>14. \/ m = p[s].mod
       \/ \E e \in known : e.mod = m /\ p[s].thunk.name = IF e.ord THEN -e.name ELSE e.name
  BY <1>12, <1>13, CoveringIs
<1> QED
  BY <1>10, <1>11, <1>13, <1>14

\* Moving a thunk to the export its slot has been found at leads there as well
LEMMA RehomedLeads ==
    ASSUME Snapped, Agreeing(known), NEW p, Leads(p.mod, p.thunk), Followed(p.thunk.slot)
    PROVE  /\ Leads(Rehomed(p).mod, Rehomed(p).thunk)
           /\ Rehomed(p).thunk.slot = p.thunk.slot
<1>1. PICK v, derived, found : /\ v = live[p.thunk.slot + 1]
                               /\ derived = StubFor(iat[p.thunk.slot + 1])
                               /\ found = Resolve(iat[p.thunk.slot + 1])
  OBVIOUS
<1>2. Rehomed(p) = CASE derived # {} -> As(p, CHOOSE e \in derived : TRUE)
         [] derived = {} /\ ~p.thunk.ord /\ HasName(p.mod, p) -> p
         [] OTHER -> IF found = {} THEN p ELSE As(p, CHOOSE e \in found : TRUE)
  BY <1>1 DEF Rehomed
<1>3. ASSUME derived # {}
      PROVE  Leads(Rehomed(p).mod, Rehomed(p).thunk) /\ Rehomed(p).thunk.slot = p.thunk.slot
  <2>1. PICK x : x = CHOOSE e \in derived : TRUE
    OBVIOUS
  <2>2. x \in StubFor(iat[p.thunk.slot + 1])
    BY <2>1, <1>1, <1>3
  <2>3. x \in StubFor(Meant(v))
    BY <2>2, <1>1, StubsOfTheMeant DEF Followed
  <2>4. x \in known /\ x.stub # 0
    BY <2>2 DEF StubFor
  <2>5. Reached(known, x) = x.at
    BY <2>4 DEF Agreeing
  <2>6. x.ord = FALSE
    BY <2>4, Named
  <2>7. Rehomed(p) = As(p, x)
    BY <2>1, <1>2, <1>3
  <2>8. Rehomed(p) = [mod |-> x.mod,
                      thunk |-> [slot |-> p.thunk.slot, ord |-> FALSE, name |-> x.name]]
    BY <2>6, <2>7 DEF As
  <2> QED BY <2>3, <2>4, <2>5, <2>8, <1>1 DEF Leads, Right
<1>4. ASSUME derived = {}
      PROVE  Leads(Rehomed(p).mod, Rehomed(p).thunk) /\ Rehomed(p).thunk.slot = p.thunk.slot
  <2>1. PICK e \in known : e.mod = p.mod /\ e.name = p.thunk.name /\ p.thunk.ord = FALSE
    BY DEF Leads
  <2>2. HasName(p.mod, p)
    BY <2>1, Named DEF HasName
  <2>3. Rehomed(p) = p
    BY <2>1, <2>2, <1>2, <1>4
  <2> QED BY <2>3
<1> QED
  BY <1>3, <1>4

\* A name is as good in another module that has it
LEMMA LeadsToo ==
    ASSUME Snapped, Agreeing(known), NEW m, NEW n, NEW t, Leads(m, t),
           n = m \/ \E e \in known : e.mod = n /\ t.name = IF e.ord THEN -e.name ELSE e.name
    PROVE  Leads(n, t)
<1>1. CASE n = m
  BY <1>1
<1>2. ASSUME NEW e \in known, e.mod = n, t.name = IF e.ord THEN -e.name ELSE e.name
      PROVE  Leads(n, t)
  <2>1. PICK f \in known : /\ f.mod = m /\ f.name = t.name /\ t.ord = FALSE
                           /\ Right(live[t.slot + 1], Reached(known, f))
    BY DEF Leads
  <2>2. e.name = f.name
    BY <2>1, <1>2, Named
  <2>3. Reached(known, e) = Reached(known, f)
    BY <2>2 DEF Agreeing
  <2> QED BY <2>1, <2>2, <2>3, <1>2 DEF Leads
<1> QED
  BY <1>1, <1>2

\* The agreement of the modules lasts, and so does what their entries mean
LEMMA SameMeaning ==
    ASSUME UNCHANGED <<known, live>>
    PROVE  /\ \A v : Meant(v)' = Meant(v)
           /\ \A m, t : Leads(m, t)' = Leads(m, t)
<1>1. \A v : Meant(v)' = Meant(v)
  BY DEF Meant, StringMap, ForwardTarget, TargetIn
<1>2. \A v, a : Right(v, a)' = Right(v, a)
  BY <1>1 DEF Right, StubFor
<1>3. \A e : Reached(known, e)' = Reached(known, e)
  BY DEF Reached, TargetIn
<1>4. \A m, t : Leads(m, t)' = Leads(m, t)
  BY <1>2, <1>3 DEF Leads
<1> QED
  BY <1>1, <1>4

LEMMA AllLeadNext ==
    ASSUME UNCHANGED <<known, live>>,
           \A i \in DOMAIN builder' : \A k \in DOMAIN builder'[i].thunks :
              Leads(builder'[i].mod, builder'[i].thunks[k])
    PROVE  AllLead'
<1> SUFFICES ASSUME NEW i \in DOMAIN builder', NEW k \in DOMAIN builder'[i].thunks
             PROVE  Leads(builder[i].mod, builder[i].thunks[k])'
  BY DEF AllLead
<1>1. PICK m, t : m = builder'[i].mod /\ t = builder'[i].thunks[k]
  OBVIOUS
<1>2. Leads(m, t)
  BY <1>1
<1>3. Leads(m, t)'
  BY <1>2, SameMeaning
<1> QED
  BY <1>1, <1>3 DEF Leads

\* The modules of every world agree, as far as their tables are read
AgreeingWorlds == \A w \in Worlds : Agreeing(Seen(w))

LEMMA FoundGives ==
    ASSUME RebuildInv, FoundInv, AgreeingWorlds, stage \notin {"wait", "read"}
    PROVE  /\ Snapped /\ Agreeing(known) /\ known = Snapshot
           /\ \A s \in 0 .. Len(iat) - 1 : Followed(s)
           /\ AllLead
<1>1. TableHeld /\ world \in Worlds
  BY DEF RebuildInv
<1>2. known = Seen(world)
  BY DEF FoundInv, Snapshot
<1>3. Agreeing(known)
  BY <1>1, <1>2 DEF AgreeingWorlds
<1> QED
  BY <1>1, <1>3 DEF FoundInv, TableHeld

\* Steps that leave the table and the builder alone
LEMMA FoundKept ==
    ASSUME FoundInv, stage \notin {"wait", "read"},
           UNCHANGED <<world, known, live, iat, builder>>
    PROVE  FoundInv'
<1>1. /\ known = Snapshot
      /\ \A s \in 0 .. Len(iat) - 1 : Followed(s)
      /\ AllLead
  BY DEF FoundInv
<1>2. known' = Snapshot'
  BY <1>1 DEF Snapshot
<1>3. \A s : Followed(s)' = Followed(s)
  BY SameMeaning DEF Followed
<1>4. \A s \in (0 .. Len(iat) - 1)' : Followed(s)'
  BY <1>1, <1>3
<1>5. AllLead'
  BY <1>1, AllLeadNext DEF AllLead
<1> QED
  BY <1>2, <1>4, <1>5 DEF FoundInv

LEMMA ReadKeepsFound ==
    ASSUME RebuildInv, RebuildInv', NEW located \in {0, TableSlots}, ReadTableOf(located)
    PROVE  FoundInv'
<1>1. /\ stage = "read" /\ stage' = "collect" /\ known' = Snapshot
      /\ UNCHANGED <<world, live, next, builder>>
  BY DEF ReadTableOf
<1>2. builder' = <<>> /\ next' = 0 /\ TableHeld'
  BY <1>1 DEF RebuildInv
<1>3. ASSUME NEW s \in (0 .. Len(iat) - 1)' PROVE Followed(s)'
  <2>1. s \in next' .. Len(iat') - 1
    BY <1>2
  <2>2. iat'[s + 1] = live'[s + 1]
    BY <2>1, <1>2 DEF TableHeld
  <2> QED BY <2>2 DEF Followed
<1>4. known' = Snapshot'
  BY <1>1 DEF Snapshot
<1>5. DOMAIN builder' = {}
  BY <1>2
<1> QED
  BY <1>3, <1>4, <1>5 DEF FoundInv, AllLead

LEMMA VoteKeepsFound ==
    ASSUME RebuildInv, FoundInv, AgreeingWorlds, Vote
    PROVE  FoundInv'
<1> DEFINE group == GroupAt(next)
           resolved == {j \in group : CandidateOf(j) # <<>>}
<1>1. /\ stage = "vote" /\ stage' = "vote" /\ next < Len(iat) /\ iat[next + 1] # 0
      /\ UNCHANGED <<world, known, classic, live, candidates, output>>
  BY DEF Vote
<1>2. /\ TableHeld /\ IsBuilder(builder)
      /\ \A s \in 0 .. Len(iat) - 1 : CandidateOf(s) = Candidates(live[s + 1])
  BY <1>1 DEF RebuildInv
<1>3. /\ Snapped /\ Agreeing(known) /\ known = Snapshot
      /\ \A s \in 0 .. Len(iat) - 1 : Followed(s)
      /\ AllLead
  BY <1>1, FoundGives
<1>4. /\ next \in Int /\ next >= 0 /\ Len(iat) \in Int /\ Len(iat) <= TableSlots /\ TableSlots \in Int
      /\ DOMAIN iat = 1 .. Len(iat) /\ Len(iat) \in Nat
  BY <1>2, RebuildAssumption DEF TableHeld
<1>5. group \subseteq 0 .. Len(iat) - 1
  <2>1. Max(group) \in next .. Len(iat) - 1 /\ group = next .. Max(group)
    BY <1>1, <1>2, GroupIs
  <2> HIDE DEF group
  <2> QED BY <2>1, <1>4
<1>6. resolved \subseteq 0 .. Len(iat) - 1
  BY <1>5
<1>7. ASSUME NEW j \in resolved, NEW winner
      PROVE  /\ Chosen(j, winner) \in CandidateSet(live[j + 1])
             /\ Chosen(j, winner).mod \in Modules
             /\ Chosen(j, winner).at \in {live[j + 1], Meant(live[j + 1])}
             /\ Leads(Chosen(j, winner).mod, ThunkAt(j, Chosen(j, winner)))
  <2>1. CandidateOf(j) = Candidates(live[j + 1]) /\ CandidateOf(j) # <<>>
    BY <1>2, <1>6
  <2>2. Chosen(j, winner) \in CandidateSet(live[j + 1]) /\ Chosen(j, winner).mod \in Modules
    BY <2>1, <1>3, ChosenIs
  <2> QED BY <2>2, <1>3, ThunkLeads
<1>8. CASE resolved = {}
  <2>1. UNCHANGED <<iat, builder>>
    BY <1>8 DEF Vote
  <2> QED BY <2>1, <1>1, FoundKept
<1>9. CASE resolved # {}
  <2>1. PICK winner \in Winners(group) :
           LET choice == [j \in resolved |-> Chosen(j, winner)]
           IN /\ builder' = builder \o Buckets(choice)
              /\ iat' = [i \in DOMAIN iat |-> IF i - 1 \in resolved THEN choice[i - 1].at ELSE iat[i]]
    BY <1>9 DEF Vote
  <2> DEFINE choice == [j \in resolved |-> Chosen(j, winner)]
             pairs == [j \in resolved |-> [mod |-> choice[j].mod, thunk |-> ThunkAt(j, choice[j])]]
  <2>2. builder' = builder \o Bucketed(pairs)
    BY <2>1 DEF Buckets
  <2>3. iat' = [i \in DOMAIN iat |-> IF i - 1 \in resolved THEN choice[i - 1].at ELSE iat[i]]
    BY <2>1
  <2> HIDE DEF resolved
  <2>4. \A j : ThunkAt(j, choice[j]).slot = j
    BY DEF ThunkAt
  <2>5. \A j \in resolved : /\ choice[j].mod \in Modules
                            /\ choice[j].at \in {live[j + 1], Meant(live[j + 1])}
                            /\ Leads(choice[j].mod, ThunkAt(j, choice[j]))
    BY <1>7
  <2> HIDE DEF choice
  <2>6. IsPairs(pairs) /\ DOMAIN pairs = resolved
    <3>1. resolved \subseteq Indices
      BY <1>4, <1>6 DEF Indices
    <3> QED BY <3>1, <2>4, <2>5 DEF IsPairs
  <2>7. \A j \in resolved : Leads(pairs[j].mod, pairs[j].thunk)
    BY <2>5
  <2> HIDE DEF pairs
  <2>8. IsBuilder(Bucketed(pairs))
    BY <2>6, BucketedIs
  <2>9. PICK c : c = Bucketed(pairs)
    OBVIOUS
  <2>10. ASSUME NEW i \in DOMAIN c, NEW k \in DOMAIN c[i].thunks
         PROVE  Leads(c[i].mod, c[i].thunks[k])
    <3>1. PICK s \in DOMAIN pairs : c[i].mod = pairs[s].mod /\ c[i].thunks[k] = pairs[s].thunk
      BY <2>6, <2>9, BucketedThunks
    <3> QED BY <3>1, <2>6, <2>7
  <2>11. ASSUME NEW i \in DOMAIN builder', NEW k \in DOMAIN builder'[i].thunks
         PROVE  Leads(builder'[i].mod, builder'[i].thunks[k])
    <3>1. \/ i \in DOMAIN builder /\ builder'[i] = builder[i]
          \/ \E n \in DOMAIN c : builder'[i] = c[n]
      BY <2>2, <2>8, <2>9, <1>2, JoinedThunks
    <3> QED BY <3>1, <2>10, <1>3 DEF AllLead
  <2>12. DOMAIN iat' = 1 .. Len(iat) /\ Len(iat') = Len(iat)
    <3>1. DOMAIN iat' = 1 .. Len(iat) /\ iat' = [i \in 1 .. Len(iat) |-> iat'[i]]
      BY <2>3, <1>4
    <3> QED BY <3>1, <1>4, IsSequence
  <2>13. ASSUME NEW s \in 0 .. Len(iat) - 1 PROVE iat'[s + 1] \in {live[s + 1], Meant(live[s + 1])}
    <3>1. s + 1 \in DOMAIN iat /\ (s + 1) - 1 = s
      BY <1>4
    <3>2. iat'[s + 1] = IF s \in resolved THEN choice[s].at ELSE iat[s + 1]
      BY <3>1, <2>3
    <3> QED BY <3>2, <2>5, <1>3 DEF Followed
  <2>14. \A s \in (0 .. Len(iat) - 1)' : Followed(s)'
    BY <2>12, <2>13, <1>1, SameMeaning DEF Followed
  <2>15. AllLead'
    BY <2>11, <1>1, AllLeadNext
  <2>16. known' = Snapshot'
    BY <1>1, <1>3 DEF Snapshot
  <2> QED BY <2>14, <2>15, <2>16 DEF FoundInv
<1> QED
  BY <1>8, <1>9

LEMMA RegroupKeepsFound ==
    ASSUME RebuildInv, FoundInv, AgreeingWorlds, Regroup
    PROVE  FoundInv'
<1> DEFINE pairs == [s \in Owned |-> Rehomed(Pairs(builder)[s])]
<1>1. /\ stage = "vote" /\ stage' = "normalise" /\ next = Len(iat)
      /\ builder' = Bucketed(pairs)
      /\ UNCHANGED <<world, known, classic, live, iat, candidates, next, output>>
  BY DEF Regroup
<1>2. Between
  BY <1>1, InvGives
<1>3. /\ Snapped /\ Agreeing(known) /\ known = Snapshot
      /\ \A s \in 0 .. Len(iat) - 1 : Followed(s)
      /\ AllLead
  BY <1>1, FoundGives
<1>4. ASSUME NEW s \in Owned
      PROVE  /\ pairs[s].mod \in Modules /\ pairs[s].thunk.slot = s
             /\ Leads(pairs[s].mod, pairs[s].thunk)
  <2>1. PICK p : p = Pairs(builder)[s]
    OBVIOUS
  <2>2. p.mod \in Modules /\ p.thunk.slot = s
    BY <2>1, <1>2, PairsIs DEF Between, Owned, IsPairs
  <2>3. Leads(p.mod, p.thunk)
    <3>1. PICK i \in DOMAIN builder : \E k \in DOMAIN builder[i].thunks :
             p = [mod |-> builder[i].mod, thunk |-> builder[i].thunks[k]]
      BY <2>1, <1>2, PairsThunks DEF Between, Owned
    <3> QED BY <3>1, <1>3 DEF AllLead
  <2>4. Followed(p.thunk.slot)
    BY <2>2, <1>2, <1>3 DEF Between
  <2>5. Leads(Rehomed(p).mod, Rehomed(p).thunk)
    BY <2>3, <2>4, <1>3, RehomedLeads
  <2>6. Rehomed(p).mod \in Modules /\ Rehomed(p).thunk.slot = s
    BY <2>2, <1>3, RehomedIs
  <2>7. pairs[s] = Rehomed(p)
    BY <2>1
  <2> HIDE DEF pairs
  <2> QED BY <2>5, <2>6, <2>7
<1>5. DOMAIN pairs = Owned
  OBVIOUS
<1> HIDE DEF pairs
<1>6. IsPairs(pairs)
  BY <1>2, <1>4, <1>5 DEF IsPairs, Between
<1>7. ASSUME NEW i \in DOMAIN builder', NEW k \in DOMAIN builder'[i].thunks
      PROVE  Leads(builder'[i].mod, builder'[i].thunks[k])
  <2>1. PICK c : c = Bucketed(pairs)
    OBVIOUS
  <2>2. PICK s \in DOMAIN pairs : c[i].mod = pairs[s].mod /\ c[i].thunks[k] = pairs[s].thunk
    BY <2>1, <1>1, <1>6, BucketedThunks
  <2> QED BY <2>1, <2>2, <1>1, <1>4, <1>5
<1>8. AllLead'
  BY <1>1, <1>7, AllLeadNext
<1>9. \A s \in (0 .. Len(iat) - 1)' : Followed(s)'
  BY <1>1, <1>3, SameMeaning DEF Followed
<1>10. known' = Snapshot'
  BY <1>1, <1>3 DEF Snapshot
<1> QED
  BY <1>8, <1>9, <1>10 DEF FoundInv

LEMMA NormaliseKeepsFound ==
    ASSUME RebuildInv, FoundInv, AgreeingWorlds, Normalise
    PROVE  FoundInv'
<1>1. /\ stage = "normalise" /\ stage' = "section"
      /\ builder' = Normalised(Pairs(builder))
      /\ UNCHANGED <<world, known, classic, live, iat, candidates, next, output>>
  BY DEF Normalise
<1>2. Between
  BY <1>1, InvGives DEF RebuildInv
<1>3. /\ Snapped /\ Agreeing(known) /\ known = Snapshot
      /\ \A s \in 0 .. Len(iat) - 1 : Followed(s)
      /\ AllLead
  BY <1>1, FoundGives
<1>4. PICK p : p = Pairs(builder)
  OBVIOUS
<1>5. IsPairs(p) /\ DOMAIN p = Owned
  BY <1>2, <1>4, PairsIs DEF Between, Owned
<1>6. ASSUME NEW s \in DOMAIN p PROVE Leads(p[s].mod, p[s].thunk)
  <2>1. IsBuilder(builder) /\ s \in OwnedBy(builder)
    BY <1>2, <1>5 DEF Between, Owned
  <2>2. PICK i \in DOMAIN builder : \E k \in DOMAIN builder[i].thunks :
           Pairs(builder)[s] = [mod |-> builder[i].mod, thunk |-> builder[i].thunks[k]]
    BY <2>1, PairsThunks
  <2> QED BY <2>2, <1>3, <1>4 DEF AllLead
<1>7. \A s \in DOMAIN p : ~p[s].thunk.ord
  BY <1>6 DEF Leads
<1>8. ASSUME NEW i \in DOMAIN builder', NEW k \in DOMAIN builder'[i].thunks
      PROVE  Leads(builder'[i].mod, builder'[i].thunks[k])
  <2>1. PICK c : c = Normalised(p)
    OBVIOUS
  <2>2. PICK s \in DOMAIN p :
              /\ c[i].thunks[k] = p[s].thunk
              /\ \/ c[i].mod = p[s].mod
                 \/ \E e \in known : e.mod = c[i].mod /\ p[s].thunk.name = IF e.ord THEN -e.name ELSE e.name
    BY <2>1, <1>1, <1>4, <1>5, <1>7, NormalisedThunks
  <2>3. Leads(c[i].mod, p[s].thunk)
    BY <2>2, <1>3, <1>6, LeadsToo
  <2> QED BY <2>1, <2>2, <2>3, <1>1, <1>4
<1>9. AllLead'
  BY <1>1, <1>8, AllLeadNext
<1>10. \A s \in (0 .. Len(iat) - 1)' : Followed(s)'
  BY <1>1, <1>3, SameMeaning DEF Followed
<1>11. known' = Snapshot'
  BY <1>1, <1>3 DEF Snapshot
<1> QED
  BY <1>9, <1>10, <1>11 DEF FoundInv

LEMMA FoundInvStep ==
    ASSUME RebuildInv, RebuildInv', FoundInv, AgreeingWorlds,
           [ImportsNext]_<<vars, rebuildVars>>
    PROVE  FoundInv'
<1>1. CASE UNCHANGED rebuildVars
  <2>1. UNCHANGED <<stage, world, known, live, iat, builder>>
    BY <1>1 DEF rebuildVars
  <2> QED BY <2>1, FoundKept DEF FoundInv
<1>2. CASE Dump \/ \E version \in {"V1", "Ancient", "V2", "V3", "unknown"} : Repair(version)
  <2>1. CASE Dump
    BY <2>1 DEF Dump, FoundInv
  <2>2. ASSUME NEW version \in {"V1", "Ancient", "V2", "V3", "unknown"}, Repair(version)
        PROVE  FoundInv'
    <3>1. UNCHANGED <<stage, world, known, live, iat, builder>>
      BY <2>2 DEF Repair
    <3> QED BY <3>1, FoundKept DEF FoundInv
  <2> QED BY <2>1, <2>2, <1>2
<1>3. CASE \E located \in {0, TableSlots} : ReadTableOf(located)
  BY <1>3, ReadKeepsFound
<1>4. CASE Collect \/ SkipZero \/ VoteDone \/ FallBack \/ CreateSection \/ WriteSlots
  <2>1. stage \notin {"wait", "read"} /\ UNCHANGED <<world, known, live, iat, builder>>
    BY <1>4 DEF Collect, SkipZero, VoteDone, FallBack, CreateSection, WriteSlots
  <2> QED BY <2>1, FoundKept
<1>5. CASE Vote
  BY <1>5, VoteKeepsFound
<1>6. CASE Regroup
  BY <1>6, RegroupKeepsFound
<1>7. CASE Normalise
  BY <1>7, NormaliseKeepsFound
<1> QED
  BY <1>1, <1>2, <1>3, <1>4, <1>5, <1>6, <1>7 DEF ImportsNext, RebuildNext, Discover

(* Whatever the table holds, as long as the modules agree on what a name   *)
(* and an address mean and export nothing by ordinal only: every slot the  *)
(* loader walks under a classic descriptor is a thunk that the module of   *)
(* the descriptor exports, and it leads to the function the slot led to in *)
(* the debuggee or to the stub in front of it (the vote,                   *)
(* validate_and_regroup, normalize_module_runs, the lookup and the slots). *)
THEOREM TheLoaderFindsTheSame ==
    ASSUME AgreeingWorlds
    PROVE  ImportsSpec => []LoaderFindsTheSame
<1>1. ImportsInit => RebuildInv /\ FoundInv
  BY EmptyBuilder DEF ImportsInit, NotDumped, RebuildInv, FoundInv, ThunksInTheirSlots
<1>2. RebuildInv /\ FoundInv /\ [ImportsNext]_<<vars, rebuildVars>> => RebuildInv' /\ FoundInv'
  BY RebuildInvStep, FoundInvStep
<1>3. ASSUME RebuildInv, FoundInv PROVE LoaderFindsTheSame
  <2> SUFFICES ASSUME stage = "done", classic, NEW i \in DOMAIN builder, NEW s \in Walk(i)
               PROVE  /\ output[s][1] = "thunk"
                      /\ LoaderFinds(builder[i].mod, output[s]) # {}
                      /\ \A a \in LoaderFinds(builder[i].mod, output[s]) :
                            Right(live[s + 1], a)
    BY DEF LoaderFindsTheSame, Right
  <2>1. s \in SlotsOf(builder[i])
    BY <1>3, WalkedIsOwn DEF RebuildInv
  <2>2. PICK k \in DOMAIN builder[i].thunks : builder[i].thunks[k].slot = s
    BY <2>1 DEF SlotsOf
  <2>3. PICK t, m : t = builder[i].thunks[k] /\ m = builder[i].mod
    OBVIOUS
  <2>4. output[s] = ThunkValue(t)
    BY <2>2, <2>3, <1>3 DEF RebuildInv, ThunksInTheirSlots
  <2>5. output[s][1] = "thunk" /\ output[s][2] = t.ord /\ output[s][3] = t.name
    BY <2>4 DEF ThunkValue
  <2>6. Snapped /\ Agreeing(known) /\ Leads(m, t)
    BY <2>3, <1>3, FoundGives DEF AllLead
  <2>7. PICK e \in known : /\ e.mod = m /\ e.name = t.name /\ t.ord = FALSE
                           /\ Right(live[s + 1], Reached(known, e))
    BY <2>2, <2>3, <2>6 DEF Leads
  <2>8. e \in world /\ e.ord = t.ord
    BY <2>6, <2>7, Named DEF Snapped
  <2>9. {f \in world : f.mod = m /\ f.ord = t.ord /\ f.name = t.name} = {e}
    BY <2>6, <2>7, <2>8, OneEntry
  <2>10. LoaderFinds(m, output[s]) = {Reached(known, e)}
    BY <2>5, <2>9 DEF LoaderFinds
  <2> QED BY <2>3, <2>5, <2>7, <2>10
<1> QED
  BY <1>1, <1>2, <1>3, PTL DEF ImportsSpec

=============================================================================
