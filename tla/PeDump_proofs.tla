---------------------------- MODULE PeDump_proofs ----------------------------
(***************************************************************************)
(* Proofs about the layout of the product, for every pair of alignments,   *)
(* every image of a code section and any number of data and bss sections,  *)
(* every size of theirs and of what is appended, and every shell section.  *)
(***************************************************************************)
EXTENDS PeDump, FiniteSetTheorems, DataInduction

----------------------------------------------------------------------------
(* Alignment *)

IsMultiple(n, d) == \E q \in Nat : n = q * d

LEMMA Division ==
    ASSUME NEW n \in Nat, NEW d \in Nat \ {0}
    PROVE  /\ n \div d \in Nat
           /\ (n \div d) * d <= n
           /\ n < (n \div d) * d + d
  OBVIOUS

LEMMA Times ==
    ASSUME NEW p \in Nat, NEW q \in Nat, NEW d \in Nat, p <= q
    PROVE  p * d <= q * d
  OBVIOUS

LEMMA FewerTimes ==
    ASSUME NEW p \in Nat, NEW q \in Nat, NEW d \in Nat \ {0}, p * d < q * d + d
    PROVE  p <= q
<1>1. ASSUME p >= q + 1 PROVE FALSE
  <2>1. p * d >= (q + 1) * d
    BY <1>1
  <2>2. (q + 1) * d = q * d + d
    OBVIOUS
  <2> QED BY <2>1, <2>2
<1> QED BY <1>1

LEMMA Multiples ==
    ASSUME NEW m, NEW n, NEW d \in Nat \ {0}, IsMultiple(m, d), IsMultiple(n, d)
    PROVE  /\ m \in Nat
           /\ IsMultiple(m + n, d)
           /\ m < n + d => m <= n
           /\ n <= m => IsMultiple(m - n, d)
<1>1. PICK p \in Nat : m = p * d
  BY DEF IsMultiple
<1>2. PICK q \in Nat : n = q * d
  BY DEF IsMultiple
<1>3. m \in Nat /\ n \in Nat
  BY <1>1, <1>2
<1>4. p + q \in Nat /\ m + n = (p + q) * d
  BY <1>1, <1>2
<1>5. ASSUME m < n + d PROVE m <= n
  <2>1. p <= q
    BY <1>5, <1>1, <1>2, FewerTimes
  <2> QED BY <2>1, <1>1, <1>2, Times
<1>6. ASSUME n <= m PROVE IsMultiple(m - n, d)
  <2>1. q * d < p * d + d
    BY <1>6, <1>1, <1>2
  <2>2. q <= p
    BY <2>1, FewerTimes
  <2>3. p - q \in Nat /\ m - n = (p - q) * d
    BY <2>2, <1>1, <1>2
  <2> QED BY <2>3 DEF IsMultiple
<1> QED
  BY <1>3, <1>4, <1>5, <1>6 DEF IsMultiple

LEMMA AlignUpIs ==
    ASSUME NEW n \in Nat, NEW d \in Nat \ {0}
    PROVE  /\ AlignUp(n, d) \in Nat
           /\ n <= AlignUp(n, d) /\ AlignUp(n, d) < n + d
           /\ IsMultiple(AlignUp(n, d), d)
<1> DEFINE m == n + d - 1
           q == m \div d
<1>1. m \in Nat
  OBVIOUS
<1>2. /\ q \in Nat /\ q * d <= m /\ m < q * d + d
  <2> HIDE DEF m
  <2> QED BY <1>1, Division
<1>3. AlignUp(n, d) = q * d
  BY DEF AlignUp
<1> HIDE DEF q
<1>4. q * d \in Nat
  BY <1>2
<1>5. q * d <= n + d - 1 /\ n + d - 1 < q * d + d
  BY <1>2
<1> QED
  BY <1>2, <1>3, <1>4, <1>5 DEF IsMultiple

(* AlignUp is the least multiple that is not below.                        *)
LEMMA AlignUpLeast ==
    ASSUME NEW n \in Nat, NEW m, NEW d \in Nat \ {0}, IsMultiple(m, d), n <= m
    PROVE  AlignUp(n, d) <= m
<1>1. /\ AlignUp(n, d) < n + d /\ IsMultiple(AlignUp(n, d), d)
      /\ AlignUp(n, d) \in Nat
  BY AlignUpIs
<1>2. m \in Nat
  BY Multiples
<1>3. AlignUp(n, d) < m + d
  BY <1>1, <1>2
<1> QED
  BY <1>1, <1>3, Multiples

LEMMA AlignUpGrows ==
    ASSUME NEW m \in Nat, NEW n \in Nat, NEW d \in Nat \ {0}, m <= n
    PROVE  AlignUp(m, d) <= AlignUp(n, d)
<1>1. n <= AlignUp(n, d) /\ IsMultiple(AlignUp(n, d), d) /\ AlignUp(n, d) \in Nat
  BY AlignUpIs
<1>2. m <= AlignUp(n, d)
  BY <1>1
<1> QED
  BY <1>1, <1>2, AlignUpLeast

LEMMA AlignUpStays ==
    ASSUME NEW n, NEW d \in Nat \ {0}, IsMultiple(n, d)
    PROVE  n \in Nat /\ AlignUp(n, d) = n
<1>1. n \in Nat
  BY Multiples
<1>2. AlignUp(n, d) <= n
  BY <1>1, AlignUpLeast
<1>3. n <= AlignUp(n, d) /\ AlignUp(n, d) \in Nat
  BY <1>1, AlignUpIs
<1> QED
  BY <1>1, <1>2, <1>3

LEMMA AlignUpAfter ==
    ASSUME NEW a, NEW n \in Nat, NEW d \in Nat \ {0}, IsMultiple(a, d)
    PROVE  AlignUp(a + n, d) = a + AlignUp(n, d)
<1>1. a \in Nat
  BY Multiples
<1>2. /\ n <= AlignUp(n, d) /\ IsMultiple(AlignUp(n, d), d) /\ AlignUp(n, d) \in Nat
  BY AlignUpIs
<1>3. IsMultiple(a + AlignUp(n, d), d) /\ a + n <= a + AlignUp(n, d) /\ a + n \in Nat
  BY <1>1, <1>2, Multiples
<1>4. AlignUp(a + n, d) <= a + AlignUp(n, d)
  BY <1>3, AlignUpLeast
<1>5. /\ a + n <= AlignUp(a + n, d) /\ IsMultiple(AlignUp(a + n, d), d)
      /\ AlignUp(a + n, d) \in Nat
  BY <1>3, AlignUpIs
<1>6. a <= AlignUp(a + n, d)
  BY <1>1, <1>5
<1>7. IsMultiple(AlignUp(a + n, d) - a, d)
  BY <1>5, <1>6, Multiples
<1>8. n <= AlignUp(a + n, d) - a
  BY <1>1, <1>5
<1>9. AlignUp(n, d) <= AlignUp(a + n, d) - a
  BY <1>7, <1>8, AlignUpLeast
<1> QED
  BY <1>1, <1>2, <1>4, <1>5, <1>9

LEMMA NoRemainder ==
    ASSUME NEW n \in Nat, NEW d \in Nat \ {0}
    PROVE  n % d = 0 <=> IsMultiple(n, d)
<1>1. ASSUME n % d = 0 PROVE \E q \in Nat : n = q * d
  BY <1>1
<1>2. ASSUME NEW q \in Nat PROVE (q * d) % d = 0
  OBVIOUS
<1> QED
  BY <1>1, <1>2 DEF IsMultiple

LEMMA SectionsOfFiles ==
    /\ FA \in Nat \ {0} /\ SA \in Nat \ {0} /\ 3 < SA
    /\ \A n : IsMultiple(n, SA) => IsMultiple(n, FA)
    /\ \A n \in Nat : AlignUp(n, FA) <= AlignUp(n, SA)
<1>1. FA \in Nat \ {0} /\ SA \in Nat \ {0} /\ 3 < SA /\ SA % FA = 0
  BY DumpAssumption
<1>2. PICK k \in Nat : SA = k * FA
  BY <1>1, NoRemainder DEF IsMultiple
<1>3. ASSUME NEW n, IsMultiple(n, SA) PROVE IsMultiple(n, FA)
  <2>1. PICK q \in Nat : n = q * SA
    BY <1>3 DEF IsMultiple
  <2>2. n = (q * k) * FA /\ q * k \in Nat
    BY <1>1, <1>2, <2>1
  <2> QED BY <2>2 DEF IsMultiple
<1>4. ASSUME NEW n \in Nat PROVE AlignUp(n, FA) <= AlignUp(n, SA)
  <2>1. n <= AlignUp(n, SA) /\ IsMultiple(AlignUp(n, SA), SA)
    BY <1>1, AlignUpIs
  <2>2. IsMultiple(AlignUp(n, SA), FA)
    BY <2>1, <1>3
  <2> QED BY <1>1, <2>1, <2>2, AlignUpLeast
<1> QED
  BY <1>1, <1>3, <1>4

----------------------------------------------------------------------------
(* Sections and their place in the image *)

SecKinds == {"code", "data", "bss", "shell", "made"}
SecNames == {"text", "data", "bss", "themida", "pdata", "reloc", "import"}

Section == [kind : SecKinds, name : SecNames, at : Nat, va : Nat, size : Nat \ {0},
            used : Nat, raw : Int, rsize : Nat]

IsTable(ss) == ss \in Seq(Section) /\ Len(ss) \in Nat \ {0}

\* What a loader asks of the virtual addresses
Follows(ss) ==
    /\ ss[1].va = SA
    /\ \A i \in 2 .. Len(ss) : ss[i].va = AlignUp(End(ss[i - 1]), SA)

LEMMA TableIs ==
    ASSUME NEW ss, IsTable(ss)
    PROVE  /\ Len(ss) \in Nat \ {0} /\ DOMAIN ss = 1 .. Len(ss)
           /\ \A i \in 1 .. Len(ss) : ss[i] \in Section
           /\ Last(ss) = ss[Len(ss)] /\ Len(ss) \in 1 .. Len(ss)
           /\ \A s \in ToSet(ss) : \E i \in 1 .. Len(ss) : s = ss[i]
           /\ \A i \in 1 .. Len(ss) : ss[i] \in ToSet(ss)
BY DEF IsTable, Last, ToSet

LEMMA SectionIs ==
    ASSUME NEW s \in Section
    PROVE  /\ s.kind \in SecKinds /\ s.name \in SecNames /\ s.at \in Nat /\ s.va \in Nat
           /\ s.size \in Nat \ {0} /\ s.used \in Nat /\ s.raw \in Int /\ s.rsize \in Nat
           /\ End(s) \in Nat /\ RawEnd(s) \in Int
BY DEF Section, End, RawEnd

\* The fields that a step may set
LEMMA SectionSet ==
    ASSUME NEW s \in Section
    PROVE  /\ \A n \in Nat : [s EXCEPT !.va = n] \in Section
           /\ \A n \in Int : [s EXCEPT !.raw = n] \in Section
           /\ \A n \in Nat : [s EXCEPT !.rsize = n] \in Section
           /\ \A n \in Nat \ {0} : [s EXCEPT !.size = n] \in Section
           /\ \A n \in Int, k \in Nat : [s EXCEPT !.raw = n, !.rsize = k] \in Section
BY DEF Section

LEMMA ResizedIs ==
    ASSUME NEW s \in Section, NEW n \in Nat, NEW c, c = [s EXCEPT !.rsize = n]
    PROVE  /\ c \in Section /\ c.kind = s.kind /\ c.name = s.name /\ c.at = s.at
           /\ c.used = s.used /\ c.va = s.va /\ c.size = s.size
           /\ c.raw = s.raw /\ c.rsize = n
BY DEF Section

LEMMA MovedIs ==
    ASSUME NEW s \in Section, NEW n \in Int, NEW c, c = [s EXCEPT !.raw = n]
    PROVE  /\ c \in Section /\ c.kind = s.kind /\ c.name = s.name /\ c.at = s.at
           /\ c.used = s.used /\ c.va = s.va /\ c.size = s.size
           /\ c.raw = n /\ c.rsize = s.rsize
BY DEF Section

LEMMA PlaceOf ==
    ASSUME NEW ss, IsTable(ss), Follows(ss)
    PROVE  /\ \A i \in 1 .. Len(ss) : IsMultiple(ss[i].va, SA) /\ SA <= ss[i].va
           /\ \A i, j \in 1 .. Len(ss) : i < j =>
                 /\ AlignUp(End(ss[i]), SA) <= ss[j].va
                 /\ AlignUp(End(ss[i]), SA) = ss[i].va + AlignUp(ss[i].size, SA)
                 /\ End(ss[i]) <= ss[j].va
<1> DEFINE N == Len(ss)
<1>1. /\ N \in Nat \ {0} /\ \A i \in 1 .. N : ss[i] \in Section
      /\ SA \in Nat \ {0} /\ 3 < SA
  BY TableIs, SectionsOfFiles
<1>2. \A i \in 1 .. N : ss[i].va \in Nat /\ ss[i].size \in Nat \ {0} /\ End(ss[i]) \in Nat
  BY <1>1, SectionIs
<1>3. IsMultiple(SA, SA)
  <2>1. SA = 1 * SA
    BY <1>1
  <2> QED BY <2>1 DEF IsMultiple
<1>4. \A i \in 1 .. N : IsMultiple(ss[i].va, SA)
  <2> SUFFICES ASSUME NEW i \in 1 .. N PROVE IsMultiple(ss[i].va, SA)
    OBVIOUS
  <2>1. CASE i = 1
    BY <2>1, <1>3 DEF Follows
  <2>2. CASE i # 1
    <3>1. i \in 2 .. N /\ i - 1 \in 1 .. N
      BY <2>2, <1>1
    <3>2. ss[i].va = AlignUp(End(ss[i - 1]), SA) /\ End(ss[i - 1]) \in Nat
      BY <3>1, <1>2 DEF Follows
    <3> QED BY <3>2, <1>1, AlignUpIs
  <2> QED BY <2>1, <2>2
<1>5. \A i \in 1 .. N : AlignUp(End(ss[i]), SA) = ss[i].va + AlignUp(ss[i].size, SA)
  BY <1>1, <1>2, <1>4, AlignUpAfter DEF End
<1>6. \A i \in 1 .. N :
         /\ AlignUp(End(ss[i]), SA) \in Nat /\ End(ss[i]) <= AlignUp(End(ss[i]), SA)
         /\ ss[i].va < End(ss[i])
  <2> SUFFICES ASSUME NEW i \in 1 .. N
               PROVE  /\ AlignUp(End(ss[i]), SA) \in Nat /\ End(ss[i]) <= AlignUp(End(ss[i]), SA)
                      /\ ss[i].va < End(ss[i])
    OBVIOUS
  <2>1. /\ AlignUp(End(ss[i]), SA) \in Nat /\ End(ss[i]) <= AlignUp(End(ss[i]), SA)
    BY <1>1, <1>2, AlignUpIs
  <2>2. ss[i].va < End(ss[i])
    BY <1>2 DEF End
  <2> QED BY <2>1, <2>2
<1>7. \A i \in 1 .. N, j \in 1 .. N : i < j => AlignUp(End(ss[i]), SA) <= ss[j].va
  <2> SUFFICES ASSUME NEW i \in 1 .. N, i < N
               PROVE  \A j \in i + 1 .. N : AlignUp(End(ss[i]), SA) <= ss[j].va
    BY <1>1
  <2> DEFINE T == {j \in i + 1 .. N : AlignUp(End(ss[i]), SA) <= ss[j].va}
  <2>1. i + 1 \in T
    <3>1. i + 1 \in 2 .. N /\ (i + 1) - 1 = i
      BY <1>1
    <3>2. ss[i + 1].va = AlignUp(End(ss[i]), SA)
      BY <3>1 DEF Follows
    <3> QED BY <3>1, <3>2, <1>6
  <2>2. ASSUME NEW n \in i + 1 .. N - 1, n \in T PROVE n + 1 \in T
    <3>1. n + 1 \in 2 .. N /\ (n + 1) - 1 = n /\ n \in 1 .. N /\ n + 1 \in i + 1 .. N
      BY <1>1
    <3>2. ss[n + 1].va = AlignUp(End(ss[n]), SA)
      BY <3>1 DEF Follows
    <3>3. AlignUp(End(ss[i]), SA) <= ss[n].va
      BY <2>2
    <3>4. AlignUp(End(ss[i]), SA) <= ss[n + 1].va
      BY <3>1, <3>2, <3>3, <1>2, <1>6
    <3> QED BY <3>1, <3>4
  <2> HIDE DEF T
  <2>3. i + 1 \in Int /\ N \in Int
    BY <1>1
  <2>4. \A n \in i + 1 .. N : n \in T
    BY <2>1, <2>2, <2>3, UpFrom
  <2> QED BY <2>4 DEF T
<1>8. \A i \in 1 .. N : SA <= ss[i].va
  <2> SUFFICES ASSUME NEW i \in 1 .. N PROVE SA <= ss[i].va
    OBVIOUS
  <2>1. ss[1].va = SA /\ 1 \in 1 .. N
    BY <1>1 DEF Follows
  <2>2. CASE i # 1
    <3>1. AlignUp(End(ss[1]), SA) <= ss[i].va
      BY <2>1, <2>2, <1>1, <1>7
    <3> QED BY <3>1, <2>1, <1>1, <1>2, <1>6, SMTT(40)
  <2> QED BY <2>1, <2>2, <1>1
<1>9. \A i, j \in 1 .. N : i < j => End(ss[i]) <= ss[j].va
  <2> SUFFICES ASSUME NEW i \in 1 .. N, NEW j \in 1 .. N, i < j
               PROVE  End(ss[i]) <= ss[j].va
    OBVIOUS
  <2>1. AlignUp(End(ss[i]), SA) <= ss[j].va
    BY <1>7
  <2> QED BY <2>1, <1>2, <1>6
<1> QED
  BY <1>4, <1>5, <1>7, <1>8, <1>9

LEMMA LaidOutIs ==
    ASSUME NEW shape, IsTable(shape)
    PROVE  /\ IsTable(LaidOut(shape)) /\ Len(LaidOut(shape)) = Len(shape)
           /\ Follows(LaidOut(shape))
           /\ \A i \in 1 .. Len(shape) : \E n \in Nat :
                 LaidOut(shape)[i] = [shape[i] EXCEPT !.va = n]
<1> DEFINE N == Len(shape)
           Onward == [p \in Nat \X (1 .. N - 1) |-> AlignUp(p[1] + shape[p[2]].size, SA)]
           F(f) == [i \in 1 .. N |->
                        IF i = 1 THEN SA ELSE AlignUp(f[i - 1] + shape[i - 1].size, SA)]
           va == CHOOSE f : f = F(f)
           out == [i \in 1 .. N |-> [shape[i] EXCEPT !.va = va[i]]]
<1>1. /\ N \in Nat \ {0} /\ \A i \in 1 .. N : shape[i] \in Section /\ shape[i].size \in Nat \ {0}
      /\ SA \in Nat \ {0} /\ 3 < SA
  BY TableIs, SectionIs, SectionsOfFiles
<1>2. Onward \in [Nat \X (1 .. N - 1) -> Nat]
  <2>1. ASSUME NEW n \in Nat, NEW i \in 1 .. N - 1
        PROVE  AlignUp(n + shape[i].size, SA) \in Nat
    <3>1. i \in 1 .. N
      BY <1>1
    <3>2. n + shape[i].size \in Nat
      BY <3>1, <1>1
    <3> QED BY <3>2, <1>1, AlignUpIs
  <2> HIDE DEF N
  <2> QED BY <2>1
<1>3. PICK f \in [0 .. N - 1 -> Nat] : Iterates(f, SA, Onward, N - 1)
  <2>1. N - 1 \in Nat /\ SA \in Nat
    BY <1>1
  <2> HIDE DEF Onward, N
  <2> QED BY <2>1, <1>2, Recursion
<1> DEFINE g == [i \in 1 .. N |-> f[i - 1]]
<1>4. g = F(g)
  <2>1. ASSUME NEW i \in 1 .. N PROVE g[i] = F(g)[i]
    <3>1. CASE i = 1
      BY <3>1, <1>3 DEF Iterates
    <3>2. CASE i # 1
      <4>1. i - 1 \in 1 .. N - 1 /\ i - 1 \in 1 .. N /\ i - 2 \in 0 .. N - 1 /\ (i - 1) - 1 = i - 2
        BY <3>2, <1>1
      <4>2. f[i - 1] = Onward[<<f[i - 2], i - 1>>]
        BY <4>1, <1>3 DEF Iterates
      <4>3. f[i - 2] \in Nat
        BY <4>1, <1>3
      <4>4. g[i - 1] = f[i - 2] /\ g[i] = f[i - 1]
        BY <4>1
      <4>5. Onward[<<f[i - 2], i - 1>>] = AlignUp(f[i - 2] + shape[i - 1].size, SA)
        BY <4>1, <4>3
      <4> HIDE DEF g, Onward
      <4> QED BY <4>2, <4>4, <4>5, <3>2
    <3> QED BY <3>1, <3>2
  <2>2. g = [i \in 1 .. N |-> g[i]]
    OBVIOUS
  <2> HIDE DEF g, N
  <2> QED BY <2>1, <2>2
<1>5. va = F(va)
  <2> HIDE DEF F, g
  <2> QED BY <1>4, Zenon
<1>6. LaidOut(shape) = out
  BY DEF LaidOut
<1> HIDE DEF va, g
<1>7. /\ va[1] = SA
      /\ \A i \in 2 .. N : va[i] = AlignUp(va[i - 1] + shape[i - 1].size, SA)
  <2>1. 1 \in 1 .. N
    BY <1>1
  <2>2. \A i \in 2 .. N : i \in 1 .. N /\ i # 1
    OBVIOUS
  <2> HIDE DEF N
  <2> QED BY <2>1, <2>2, <1>5
<1>8. \A i \in 1 .. N : va[i] \in Nat
  <2> DEFINE T == {i \in 1 .. N : va[i] \in Nat}
  <2>1. 1 \in T
    BY <1>1, <1>7
  <2>2. ASSUME NEW n \in 1 .. N - 1, n \in T PROVE n + 1 \in T
    <3>1. n + 1 \in 2 .. N /\ (n + 1) - 1 = n /\ n \in 1 .. N /\ n + 1 \in 1 .. N
      BY <1>1
    <3>2. va[n] + shape[n].size \in Nat
      BY <3>1, <2>2, <1>1
    <3>3. va[n + 1] = AlignUp(va[n] + shape[n].size, SA)
      BY <3>1, <1>7
    <3> QED BY <3>1, <3>2, <3>3, <1>1, AlignUpIs
  <2> HIDE DEF T
  <2>3. 1 \in Int /\ N \in Int
    BY <1>1
  <2>4. \A n \in 1 .. N : n \in T
    <3> HIDE DEF N
    <3> QED BY <2>1, <2>2, <2>3, UpFrom
  <2> QED BY <2>4 DEF T
<1>9. \A i \in 1 .. N : out[i] \in Section
  BY <1>1, <1>8, SectionSet
<1>10. \A i \in 1 .. N : out[i].va = va[i] /\ out[i].size = shape[i].size
  BY <1>1 DEF Section
<1>11. out \in Seq(Section) /\ Len(out) = N
  <2> HIDE DEF va
  <2>1. out \in [1 .. N -> Section]
    BY <1>9
  <2> HIDE DEF out
  <2> QED BY <2>1, <1>1
<1>12. Follows(out)
  <2> HIDE DEF out
  <2>1. 1 \in 1 .. N /\ \A i \in 2 .. N : i \in 1 .. N /\ i - 1 \in 1 .. N
    BY <1>1
  <2> QED BY <2>1, <1>7, <1>10, <1>11 DEF Follows, End
<1>13. \A i \in 1 .. N : \E n \in Nat : out[i] = [shape[i] EXCEPT !.va = n]
  BY <1>8
<1> HIDE DEF out
<1> QED
  BY <1>1, <1>6, <1>11, <1>12, <1>13 DEF IsTable

\* A step that leaves the virtual addresses as they are
SameImage(ss, old) ==
    /\ IsTable(ss) /\ Len(ss) = Len(old)
    /\ \A i \in 1 .. Len(old) :
          /\ ss[i].kind = old[i].kind /\ ss[i].name = old[i].name
          /\ ss[i].at = old[i].at /\ ss[i].used = old[i].used
          /\ ss[i].va = old[i].va /\ ss[i].size = old[i].size

LEMMA SameImageFollows ==
    ASSUME NEW ss, NEW old, IsTable(old), SameImage(ss, old)
    PROVE  /\ Follows(old) => Follows(ss)
           /\ Last(ss).va = Last(old).va /\ End(Last(ss)) = End(Last(old))
<1>1. /\ Len(old) \in Nat \ {0} /\ Len(ss) = Len(old)
      /\ Last(ss) = ss[Len(ss)] /\ Last(old) = old[Len(old)]
  BY TableIs DEF SameImage
<1>2. \A i \in 1 .. Len(old) : ss[i].va = old[i].va /\ End(ss[i]) = End(old[i])
  BY DEF SameImage, End
<1>3. \A i \in 2 .. Len(old) : i \in 1 .. Len(old) /\ i - 1 \in 1 .. Len(old)
  OBVIOUS
<1>4. 1 \in 1 .. Len(old) /\ Len(old) \in 1 .. Len(old)
  BY <1>1
<1> QED
  BY <1>1, <1>2, <1>3, <1>4 DEF Follows

LEMMA SameImageChain ==
    ASSUME NEW a, NEW b, NEW c, SameImage(a, b), SameImage(b, c)
    PROVE  SameImage(a, c)
BY DEF SameImage

LEMMA SameImageSelf ==
    ASSUME NEW a, IsTable(a)
    PROVE  SameImage(a, a)
BY DEF SameImage

\* The recursion of a walk over all sections, from its own definition
AllButLastKept(ss) == \A i \in 1 .. Len(ss) : i < Len(ss) => Kept(ss[i])

\* What is kept of the first n if only the last may go
OfItsStart(x, ss, n) ==
    /\ Len(x) <= n
    /\ \A i \in 1 .. n : Kept(ss[i]) => i <= Len(x)
    /\ \A k \in 1 .. Len(x) : x[k] = ss[k]

LEMMA KeptAre ==
    ASSUME NEW ss, IsTable(ss), Kept(ss[1])
    PROVE  /\ IsTable(WithoutRemoved(ss))
           /\ WithoutRemoved(ss)[1] = ss[1]
           /\ \A k \in 1 .. Len(WithoutRemoved(ss)) :
                 /\ Kept(WithoutRemoved(ss)[k])
                 /\ \E i \in 1 .. Len(ss) : WithoutRemoved(ss)[k] = ss[i] /\ (1 < k => 1 < i)
           /\ AllButLastKept(ss) => OfItsStart(WithoutRemoved(ss), ss, Len(ss))
<1> DEFINE N == Len(ss)
           S == Seq(Section)
           Onward == [p \in S \X (1 .. N) |->
                        IF Kept(ss[p[2]]) THEN Append(p[1], ss[p[2]]) ELSE p[1]]
           F(f) == [n \in 0 .. N |->
                        IF n = 0 THEN <<>>
                        ELSE IF Kept(ss[n]) THEN Append(f[n - 1], ss[n]) ELSE f[n - 1]]
           kept == CHOOSE f : f = F(f)
           Right(x) == /\ x \in S /\ Len(x) \in Nat \ {0} /\ x[1] = ss[1]
                       /\ \A k \in 1 .. Len(x) :
                             Kept(x[k]) /\ \E i \in 1 .. N : x[k] = ss[i] /\ (1 < k => 1 < i)
<1>1. N \in Nat \ {0} /\ \A i \in 1 .. N : ss[i] \in Section
  BY TableIs
<1>2. Onward \in [S \X (1 .. N) -> S]
  <2>1. ASSUME NEW x \in S, NEW n \in 1 .. N PROVE Append(x, ss[n]) \in S
    BY <1>1
  <2> HIDE DEF S, N
  <2> QED BY <2>1
<1>3. <<>> \in S
  OBVIOUS
<1>4. PICK f \in [0 .. N -> S] : Iterates(f, <<>>, Onward, N)
  <2>1. N \in Nat
    BY <1>1
  <2> HIDE DEF Onward, N, S
  <2> QED BY <2>1, <1>2, <1>3, Recursion
<1>5. f = F(f)
  <2> HIDE DEF N, S
  <2>1. ASSUME NEW n \in 0 .. N PROVE f[n] = F(f)[n]
    <3>1. CASE n = 0
      BY <1>4, <3>1 DEF Iterates
    <3>2. CASE n # 0
      <4>1. n - 1 \in 0 .. N /\ n \in 1 .. N
        BY <3>2, <1>1
      <4>2. f[n - 1] \in S
        BY <4>1
      <4>3. f[n] = Onward[<<f[n - 1], n>>]
        BY <1>4, <4>1 DEF Iterates
      <4> QED BY <4>1, <4>2, <4>3, <3>2
    <3> QED BY <3>1, <3>2
  <2> QED BY <1>4, <2>1
<1>6. kept = F(kept)
  <2> HIDE DEF F
  <2> QED BY <1>5, Zenon
<1>7. WithoutRemoved(ss) = kept[N]
  BY DEF WithoutRemoved
<1> HIDE DEF kept
<1>8. /\ kept[0] = <<>>
      /\ \A n \in 1 .. N :
            kept[n] = IF Kept(ss[n]) THEN Append(kept[n - 1], ss[n]) ELSE kept[n - 1]
  <2>1. \A n \in 1 .. N : n \in 0 .. N /\ n # 0
    OBVIOUS
  <2>2. 0 \in 0 .. N
    BY <1>1
  <2> HIDE DEF N
  <2> QED BY <2>1, <2>2, <1>6
<1>9. Right(kept[1])
  <2>1. 1 \in 1 .. N /\ 1 - 1 = 0
    BY <1>1
  <2>2. kept[1] = Append(<<>>, ss[1])
    BY <2>1, <1>8
  <2>3. kept[1] = <<ss[1]>>
    BY <2>2
  <2>4. ss[1] \in Section
    BY <2>1, <1>1
  <2> QED BY <2>1, <2>3, <2>4
<1>10. ASSUME NEW n \in 1 .. N - 1, Right(kept[n]) PROVE Right(kept[n + 1])
  <2>1. n + 1 \in 1 .. N /\ (n + 1) - 1 = n
    BY <1>1
  <2>2. CASE ~Kept(ss[n + 1])
    <3>1. kept[n + 1] = kept[n]
      BY <2>1, <2>2, <1>8
    <3> QED BY <3>1, <1>10
  <2>3. CASE Kept(ss[n + 1])
    <3>1. kept[n + 1] = Append(kept[n], ss[n + 1])
      BY <2>1, <2>3, <1>8
    <3>2. PICK x : x = kept[n]
      OBVIOUS
    <3>3. Right(x) /\ ss[n + 1] \in Section
      BY <3>2, <1>10, <1>1, <2>1
    <3>4. Append(x, ss[n + 1]) \in S /\ Len(Append(x, ss[n + 1])) = Len(x) + 1
      BY <3>3
    <3>5. \A k \in 1 .. Len(x) : Append(x, ss[n + 1])[k] = x[k]
      BY <3>3
    <3>6. Append(x, ss[n + 1])[Len(x) + 1] = ss[n + 1]
      BY <3>3
    <3>7. ASSUME NEW k \in 1 .. Len(x) + 1
          PROVE  /\ Kept(Append(x, ss[n + 1])[k])
                 /\ \E i \in 1 .. N : Append(x, ss[n + 1])[k] = ss[i] /\ (1 < k => 1 < i)
      <4>1. k \in 1 .. Len(x) \/ k = Len(x) + 1
        BY <3>3
      <4>2. CASE k = Len(x) + 1
        BY <4>2, <3>6, <2>3, <2>1
      <4>3. CASE k \in 1 .. Len(x)
        BY <4>3, <3>5, <3>3
      <4> QED BY <4>1, <4>2, <4>3
    <3>8. Append(x, ss[n + 1])[1] = ss[1] /\ Len(x) + 1 \in Nat \ {0}
      BY <3>3, <3>5
    <3>9. Right(Append(x, ss[n + 1]))
      BY <3>4, <3>7, <3>8
    <3> QED BY <3>1, <3>2, <3>9
  <2> QED BY <2>2, <2>3
<1>11. Right(kept[N])
  <2> DEFINE T == {n \in 1 .. N : Right(kept[n])}
  <2> HIDE DEF Right
  <2>1. 1 \in T /\ 1 \in Int /\ N \in Int /\ N \in 1 .. N
    BY <1>1, <1>9
  <2>2. ASSUME NEW n \in 1 .. N - 1, n \in T PROVE n + 1 \in T
    <3>1. n + 1 \in 1 .. N
      BY <1>1
    <3> QED BY <3>1, <2>2, <1>10
  <2> HIDE DEF T, N
  <2>3. \A n \in 1 .. N : n \in T
    BY <2>1, <2>2, UpFrom
  <2> QED BY <2>1, <2>3 DEF T
<1>12. ASSUME AllButLastKept(ss), NEW n \in 1 .. N - 1, Right(kept[n]),
              OfItsStart(kept[n], ss, n)
       PROVE  OfItsStart(kept[n + 1], ss, n + 1)
  <2>1. n + 1 \in 1 .. N /\ (n + 1) - 1 = n /\ n \in 1 .. N /\ n < N
    BY <1>1
  <2>2. PICK x : x = kept[n]
    OBVIOUS
  <2>3. x \in S /\ OfItsStart(x, ss, n) /\ Len(x) \in Nat
    BY <2>2, <1>12
  <2>4. Len(x) = n
    <3>1. Kept(ss[n])
      BY <2>1, <1>12 DEF AllButLastKept
    <3>2. n \in 1 .. n
      BY <2>1
    <3> QED BY <2>1, <2>3, <3>1, <3>2 DEF OfItsStart
  <2>5. CASE ~Kept(ss[n + 1])
    <3>1. kept[n + 1] = x
      BY <2>1, <2>2, <2>5, <1>8
    <3>2. \A i \in 1 .. n + 1 : i \in 1 .. n \/ i = n + 1
      OBVIOUS
    <3>3. OfItsStart(x, ss, n + 1)
      BY <2>3, <2>4, <2>5, <3>2 DEF OfItsStart
    <3> QED BY <3>1, <3>3
  <2>6. CASE Kept(ss[n + 1])
    <3>1. kept[n + 1] = Append(x, ss[n + 1])
      BY <2>1, <2>2, <2>6, <1>8
    <3>2. PICK y : y = Append(x, ss[n + 1])
      OBVIOUS
    <3>3. ss[n + 1] \in Section
      BY <2>1, <1>1
    <3>4. /\ Len(y) = n + 1 /\ y[n + 1] = ss[n + 1]
          /\ \A k \in 1 .. n : y[k] = x[k]
      BY <2>3, <2>4, <3>2, <3>3
    <3>5. \A i \in 1 .. n + 1 : i \in 1 .. n \/ i = n + 1
      OBVIOUS
    <3>6. \A i \in 1 .. n + 1 : y[i] = ss[i]
      BY <2>3, <2>4, <3>4, <3>5 DEF OfItsStart
    <3>7. OfItsStart(y, ss, n + 1)
      BY <3>4, <3>6 DEF OfItsStart
    <3> QED BY <3>1, <3>2, <3>7
  <2> QED BY <2>5, <2>6
<1>13. AllButLastKept(ss) => OfItsStart(kept[N], ss, N)
  <2> SUFFICES ASSUME AllButLastKept(ss) PROVE OfItsStart(kept[N], ss, N)
    OBVIOUS
  <2> DEFINE T == {n \in 1 .. N : Right(kept[n]) /\ OfItsStart(kept[n], ss, n)}
  <2> HIDE DEF Right
  <2>0. OfItsStart(kept[1], ss, 1)
    <3>1. 1 \in 1 .. N /\ 1 - 1 = 0
      BY <1>1
    <3>2. kept[1] = <<ss[1]>>
      <4>1. kept[1] = Append(<<>>, ss[1])
        BY <3>1, <1>8
      <4> QED BY <4>1
    <3>3. PICK x : x = <<ss[1]>>
      OBVIOUS
    <3>4. Len(x) = 1 /\ x[1] = ss[1]
      BY <3>3
    <3>5. OfItsStart(x, ss, 1)
      BY <3>4 DEF OfItsStart
    <3> QED BY <3>2, <3>3, <3>5
  <2>1. 1 \in T /\ 1 \in Int /\ N \in Int /\ N \in 1 .. N
    BY <1>1, <1>9, <2>0
  <2>2. ASSUME NEW n \in 1 .. N - 1, n \in T PROVE n + 1 \in T
    <3>1. n + 1 \in 1 .. N
      BY <1>1
    <3>2. Right(kept[n + 1])
      BY <2>2, <1>10
    <3>3. OfItsStart(kept[n + 1], ss, n + 1)
      BY <2>2, <1>12
    <3> QED BY <3>1, <3>2, <3>3
  <2> HIDE DEF T, N
  <2>3. \A n \in 1 .. N : n \in T
    BY <2>1, <2>2, UpFrom
  <2> QED BY <2>1, <2>3 DEF T
<1> QED
  BY <1>7, <1>11, <1>13 DEF IsTable

LEMMA GreatestOfAll ==
    ASSUME NEW n \in Nat \ {0}, NEW e \in [1 .. n -> Int], NEW E, E = {e[i] : i \in 1 .. n}
    PROVE  /\ Max(E) \in E /\ Max(E) \in Int
           /\ \A i \in 1 .. n : e[i] <= Max(E)
<1> DEFINE T == {k \in 1 .. n : \E hi \in Int : \A i \in 1 .. k : e[i] <= hi}
<1>1. 1 \in T
  <2>1. 1 \in 1 .. n /\ e[1] \in Int /\ \A i \in 1 .. 1 : e[i] <= e[1]
    OBVIOUS
  <2> QED BY <2>1
<1>2. ASSUME NEW k \in 1 .. n - 1, k \in T PROVE k + 1 \in T
  <2>1. PICK hi \in Int : \A i \in 1 .. k : e[i] <= hi
    BY <1>2
  <2>2. k + 1 \in 1 .. n /\ e[k + 1] \in Int /\ \A i \in 1 .. k : i \in 1 .. n /\ e[i] \in Int
    OBVIOUS
  <2>3. PICK top \in Int : hi <= top /\ e[k + 1] <= top
    <3>1. CASE hi <= e[k + 1]
      BY <3>1, <2>2
    <3>2. CASE ~(hi <= e[k + 1])
      BY <3>2, <2>2
    <3> QED BY <3>1, <3>2
  <2>4. ASSUME NEW i \in 1 .. k + 1 PROVE e[i] <= top
    <3>1. CASE i = k + 1
      BY <3>1, <2>3
    <3>2. CASE i \in 1 .. k
      BY <3>2, <2>1, <2>2, <2>3
    <3> QED BY <3>1, <3>2
  <2> QED BY <2>2, <2>3, <2>4
<1>3. n \in T
  <2>1. 1 \in Int /\ n \in Int /\ n \in 1 .. n
    OBVIOUS
  <2> HIDE DEF T
  <2>2. \A k \in 1 .. n : k \in T
    BY <1>1, <1>2, <2>1, UpFrom
  <2> QED BY <2>1, <2>2
<1>4. PICK hi \in Int : \A i \in 1 .. n : e[i] <= hi
  BY <1>3
<1>5. E \in SUBSET Int /\ E # {} /\ \A x \in E : x <= hi
  <2>1. 1 \in 1 .. n
    OBVIOUS
  <2> QED BY <1>4, <2>1
<1>6. Max(E) \in E /\ Max(E) \in Int /\ \A x \in E : x <= Max(E)
  BY <1>5, MaxOf
<1>7. \A i \in 1 .. n : e[i] \in E
  OBVIOUS
<1> QED
  BY <1>6, <1>7

(* create_section_index: what a new section is, and where.                 *)
LEMMA NewSectionIs ==
    ASSUME NEW name \in SecNames, NEW n \in Nat \ {0}, NEW ss, ss = WithSection(name, n),
           IsTable(secs), \A i \in 1 .. Len(secs) : 0 <= RawEnd(secs[i])
    PROVE  \E new \in Section :
              /\ ss = Append(secs, new)
              /\ new.kind = "made" /\ new.name = name /\ new.at = 0
              /\ new.size = n /\ new.rsize = AlignUp(n, FA)
              /\ new.va = AlignUp(End(Last(secs)), SA)
              /\ IsMultiple(new.raw, FA)
              /\ \E i \in 1 .. Len(secs) : new.raw = AlignUp(RawEnd(secs[i]), FA)
              /\ \A i \in 1 .. Len(secs) : RawEnd(secs[i]) <= new.raw
<1> DEFINE ends == {RawEnd(s) : s \in ToSet(secs)}
           new == [kind |-> "made", name |-> name, at |-> 0, used |-> n, size |-> n,
                   va |-> AlignUp(Last(secs).va + Last(secs).size, SA),
                   raw |-> AlignUp(Max(ends), FA), rsize |-> AlignUp(n, FA)]
<1>1. /\ Len(secs) \in Nat \ {0} /\ \A i \in 1 .. Len(secs) : secs[i] \in Section
      /\ Last(secs) \in Section /\ FA \in Nat \ {0} /\ SA \in Nat \ {0} /\ 3 < SA
  BY TableIs, SectionsOfFiles
<1>2. \A i \in 1 .. Len(secs) : RawEnd(secs[i]) \in Nat
  BY <1>1, SectionIs
<1> DEFINE e == [i \in 1 .. Len(secs) |-> RawEnd(secs[i])]
<1>3. ends = {e[i] : i \in 1 .. Len(secs)}
  BY TableIs
<1>4. /\ Max(ends) \in Nat
      /\ \E i \in 1 .. Len(secs) : Max(ends) = RawEnd(secs[i])
      /\ \A i \in 1 .. Len(secs) : RawEnd(secs[i]) <= Max(ends)
  <2>1. e \in [1 .. Len(secs) -> Int]
    BY <1>2
  <2>2. \A i \in 1 .. Len(secs) : e[i] = RawEnd(secs[i])
    OBVIOUS
  <2> HIDE DEF e, ends
  <2>3. Max(ends) \in ends /\ Max(ends) \in Int /\ \A i \in 1 .. Len(secs) : e[i] <= Max(ends)
    BY <1>1, <1>3, <2>1, GreatestOfAll
  <2> QED BY <1>2, <1>3, <2>2, <2>3
<1>5. ss = Append(secs, new)
  BY DEF WithSection
<1> HIDE DEF ends
<1>6. /\ Last(secs).va + Last(secs).size \in Nat
      /\ Last(secs).va + Last(secs).size = End(Last(secs))
  BY <1>1, SectionIs DEF End
<1>7. /\ AlignUp(Last(secs).va + Last(secs).size, SA) \in Nat
      /\ AlignUp(Max(ends), FA) \in Nat /\ Max(ends) <= AlignUp(Max(ends), FA)
      /\ IsMultiple(AlignUp(Max(ends), FA), FA)
      /\ AlignUp(n, FA) \in Nat
  BY <1>1, <1>4, <1>6, AlignUpIs
<1>8. new \in Section
  BY <1>7 DEF Section, SecKinds
<1>9. \A i \in 1 .. Len(secs) : RawEnd(secs[i]) <= AlignUp(Max(ends), FA)
  BY <1>2, <1>4, <1>7
<1> QED
  BY <1>4, <1>5, <1>6, <1>7, <1>8, <1>9

----------------------------------------------------------------------------
(* The image that is dumped *)

Live0 == {"code", "data", "bss", "shell"}
Made == {"pdata", "reloc", "import"}

LEMMA JoinedAre ==
    ASSUME NEW S, NEW x \in Seq(S), NEW y \in Seq(S)
    PROVE  /\ x \o y \in Seq(S) /\ Len(x \o y) = Len(x) + Len(y)
           /\ \A i \in 1 .. Len(x) : (x \o y)[i] = x[i]
           /\ \A i \in 1 .. Len(y) : (x \o y)[Len(x) + i] = y[i]
OBVIOUS

LEMMA InsertedAre ==
    ASSUME NEW S, NEW b \in Seq(S), NEW e \in S, NEW k \in 1 .. Len(b) + 1,
           NEW c, c = InsertAt(b, k, e)
    PROVE  /\ c \in Seq(S) /\ Len(c) = Len(b) + 1
           /\ \A i \in 1 .. Len(b) + 1 :
                 c[i] = IF i < k THEN b[i] ELSE IF i = k THEN e ELSE b[i - 1]
<1>1. PICK x, y, z : x = SubSeq(b, 1, k - 1) /\ y = <<e>> /\ z = SubSeq(b, k, Len(b))
  OBVIOUS
<1>2. x \in Seq(S) /\ Len(x) = k - 1 /\ \A i \in 1 .. k - 1 : x[i] = b[i]
  BY <1>1
<1>3. y \in Seq(S) /\ Len(y) = 1 /\ y[1] = e
  BY <1>1
<1>4. /\ z \in Seq(S) /\ Len(z) = Len(b) - k + 1
      /\ \A i \in 1 .. Len(b) - k + 1 : z[i] = b[k + i - 1]
  BY <1>1
<1>5. InsertAt(b, k, e) = (x \o y) \o z
  BY <1>1 DEF InsertAt
<1> DEFINE w == x \o y
<1>6. w \in Seq(S) /\ Len(w) = k
  <2>1. w \in Seq(S) /\ Len(w) = Len(x) + Len(y)
    BY <1>2, <1>3, JoinedAre
  <2> HIDE DEF w
  <2> QED BY <2>1, <1>2, <1>3
<1>7. \A i \in 1 .. k : w[i] = IF i < k THEN b[i] ELSE e
  <2> SUFFICES ASSUME NEW i \in 1 .. k PROVE w[i] = IF i < k THEN b[i] ELSE e
    OBVIOUS
  <2>1. CASE i < k
    <3>1. i \in 1 .. k - 1 /\ i \in 1 .. Len(x)
      BY <2>1, <1>2
    <3>2. w[i] = x[i]
      BY <3>1, <1>2, <1>3, JoinedAre
    <3> QED BY <3>1, <3>2, <2>1, <1>2
  <2>2. CASE i = k
    <3>1. i = Len(x) + 1 /\ 1 \in 1 .. Len(y)
      BY <2>2, <1>2, <1>3
    <3>2. w[i] = y[1]
      <4>1. (x \o y)[Len(x) + 1] = y[1]
        BY <3>1, <1>2, <1>3, JoinedAre
      <4> QED BY <4>1, <3>1
    <3> QED BY <3>2, <2>2, <1>3
  <2>3. i < k \/ i = k
    OBVIOUS
  <2> QED BY <2>1, <2>2, <2>3
<1> HIDE DEF w
<1>8. w \o z \in Seq(S) /\ Len(w \o z) = Len(b) + 1
  <2>1. w \o z \in Seq(S) /\ Len(w \o z) = Len(w) + Len(z)
    BY <1>4, <1>6, JoinedAre
  <2> QED BY <2>1, <1>4, <1>6
<1>9. ASSUME NEW i \in 1 .. Len(b) + 1
      PROVE  (w \o z)[i] = IF i < k THEN b[i] ELSE IF i = k THEN e ELSE b[i - 1]
  <2>1. CASE i <= k
    <3>1. i \in 1 .. k /\ i \in 1 .. Len(w)
      BY <2>1, <1>6
    <3>2. (w \o z)[i] = w[i]
      BY <3>1, <1>4, <1>6, JoinedAre
    <3> QED BY <3>1, <3>2, <2>1, <1>7
  <2>2. CASE i > k
    <3>1. /\ i - k \in 1 .. Len(b) - k + 1 /\ k + (i - k) - 1 = i - 1
          /\ i - k \in 1 .. Len(z) /\ Len(w) + (i - k) = i
      BY <2>2, <1>4, <1>6
    <3>2. (w \o z)[i] = z[i - k]
      <4>1. (w \o z)[Len(w) + (i - k)] = z[i - k]
        BY <3>1, <1>4, <1>6, JoinedAre
      <4> QED BY <4>1, <3>1
    <3>3. z[i - k] = b[i - 1]
      <4>1. z[i - k] = b[k + (i - k) - 1]
        BY <3>1, <1>4
      <4> QED BY <4>1, <3>1
    <3>4. ~(i < k) /\ i # k
      BY <2>2
    <3> QED BY <3>2, <3>3, <3>4
  <2>3. i <= k \/ i > k
    OBVIOUS
  <2> QED BY <2>1, <2>2, <2>3
<1>10. c = w \o z
  BY <1>5 DEF w
<1> QED
  BY <1>8, <1>9, <1>10

LEMMA ShellOf ==
    ASSUME NEW c \in Section, NEW d, SA \in Nat \ {0},
           d = [c EXCEPT !.kind = "shell", !.name = "themida", !.size = SA, !.used = SA]
    PROVE  /\ d \in Section /\ d.kind = "shell" /\ d.name = "themida" /\ d.raw = c.raw
           /\ d.used = d.size
<1>1. [c EXCEPT !.kind = "shell"] \in Section
  BY DEF Section, SecKinds
<1>2. PICK e \in Section : e = [c EXCEPT !.kind = "shell"]
  BY <1>1
<1>3. e.kind = "shell" /\ e.raw = c.raw
  BY <1>2 DEF Section
<1>4. [e EXCEPT !.name = "themida"] \in Section
  BY DEF Section, SecNames
<1>5. PICK g \in Section : g = [e EXCEPT !.name = "themida"]
  BY <1>4
<1>6. g.kind = "shell" /\ g.name = "themida" /\ g.raw = c.raw
  BY <1>3, <1>5 DEF Section
<1>7. d = [g EXCEPT !.size = SA, !.used = SA]
  BY <1>2, <1>5, Zenon
<1> QED
  BY <1>6, <1>7 DEF Section

LEMMA ShapesAre ==
    /\ Code \in Section /\ Shell \in Section
    /\ \A s \in Shapes : /\ s \in Section /\ s.raw = 0
                          /\ s.kind \in {"data", "bss"} /\ s.name \in {"data", "bss"}
                          /\ s.used <= s.size
<1>1. /\ SA \in Nat \ {0} /\ 3 < SA /\ Sizes \subseteq Nat \ {0} /\ Useds \subseteq Nat
  BY DumpAssumption
<1>2. SA - 1 \in Nat \ {0} /\ SA \in Nat \ {0} /\ SA - 1 \in Nat
  BY <1>1
<1>3. Code \in Section
  BY <1>2 DEF Code, Section, SecKinds, SecNames
<1>5. Shell \in Section
  BY <1>2, <1>3, ShellOf DEF Shell
<1>6. ASSUME NEW s \in Shapes
      PROVE  /\ s \in Section /\ s.raw = 0
             /\ s.kind \in {"data", "bss"} /\ s.name \in {"data", "bss"}
             /\ s.used <= s.size
  <2>1. PICK k \in {"data", "bss"}, c \in {d \in Sizes \X (Useds \union Sizes) : d[2] <= d[1]} :
            s = [kind |-> k, name |-> k, at |-> 0, va |-> 0, size |-> c[1], used |-> c[2],
                 raw |-> 0, rsize |-> 0]
    BY <1>6 DEF Shapes
  <2>2. c[1] \in Nat \ {0} /\ c[2] \in Nat /\ c[2] <= c[1]
    <3>1. c \in {d \in Sizes \X (Useds \union Sizes) : d[2] <= d[1]}
      BY <2>1
    <3> QED BY <1>1, <3>1
  <2> QED BY <2>1, <2>2 DEF Section, SecKinds, SecNames
<1> QED
  BY <1>3, <1>5, <1>6

\* A section as the debuggee has it
Recorded(s) ==
    s.kind \in Live0 /\ s.name \notin Made /\ s.raw = 0 /\ s.used <= s.size

\* Its section table: code first, and nothing that the dump made
OfDebuggee(ss) ==
    /\ IsTable(ss) /\ ss[1].kind = "code" /\ ss[1].size = SA - 1
    /\ \A i \in 1 .. Len(ss) : Recorded(ss[i])
    /\ \A i \in 2 .. Len(ss) : ss[i].kind # "code"
    /\ ShellLast => \A i \in 1 .. Len(ss) : ss[i].kind = "shell" => i = Len(ss)

LEMMA ImageIs ==
    ASSUME NEW ss \in Images
    PROVE  OfDebuggee(ss) /\ Follows(ss) /\ \A i \in 1 .. Len(ss) : ss[i].at = ss[i].va
<1> DEFINE datas == UNION {[1 .. n -> Shapes] : n \in 1 .. DataSections}
           bare == {<<Code>> \o d : d \in datas}
           places(b) == IF ShellLast THEN {Len(b) + 1} ELSE 2 .. Len(b) + 1
           shelled == UNION {{InsertAt(b, i, Shell) : i \in places(b)} : b \in bare}
<1>1. /\ Code.kind = "code" /\ Code.name = "text"
      /\ Shell.kind = "shell" /\ Shell.name = "themida"
      /\ Code.raw = 0 /\ Shell.raw = 0
      /\ Code.size = SA - 1 /\ Code.used = Code.size /\ Shell.used = Shell.size
      /\ Code.used \in Nat /\ Shell.used \in Nat
  <2>1. Code \in Section /\ SA \in Nat \ {0}
    BY ShapesAre, DumpAssumption
  <2>2. /\ Shell.kind = "shell" /\ Shell.name = "themida" /\ Shell.raw = Code.raw
        /\ Shell.used = Shell.size
    BY <2>1, ShellOf DEF Shell
  <2>3. /\ Code.kind = "code" /\ Code.name = "text" /\ Code.raw = 0
        /\ Code.size = SA - 1 /\ Code.used = SA - 1
    BY DEF Code
  <2>4. Code.used \in Nat /\ Shell.used \in Nat
    BY ShapesAre, SectionIs
  <2> QED BY <2>2, <2>3, <2>4
<1>2. ASSUME NEW b \in bare
      PROVE  OfDebuggee(b) /\ \A i \in 1 .. Len(b) : b[i].kind # "shell"
  <2>1. PICK d \in datas : b = <<Code>> \o d
    BY <1>2
  <2>0. PICK n \in 1 .. DataSections : d \in [1 .. n -> Shapes]
    BY <2>1
  <2>2. DataSections \in Nat
    BY DumpAssumption
  <2>3. d \in Seq(Shapes) /\ Len(d) = n /\ n \in Nat
    BY <2>0, <2>2
  <2>4. \A i \in 1 .. n : d[i] \in Shapes
    BY <2>0
  <2>5. /\ d \in Seq(Section)
        /\ \A i \in 1 .. n : /\ d[i].kind \in {"data", "bss"}
                              /\ d[i].name \in {"data", "bss"} /\ d[i].raw = 0
                              /\ d[i].used <= d[i].size
    <3>1. \A i \in 1 .. n : d[i] \in Section
      BY <2>4, ShapesAre
    <3> QED BY <2>3, <2>4, <3>1, ShapesAre
  <2>6. <<Code>> \in Seq(Section) /\ Len(<<Code>>) = 1
    BY ShapesAre
  <2>7. b \in Seq(Section) /\ Len(b) = n + 1
    BY <2>1, <2>3, <2>5, <2>6
  <2>8. b[1] = Code /\ \A i \in 2 .. n + 1 : b[i] = d[i - 1]
    <3>1. \A i \in 1 .. Len(<<Code>>) + Len(d) :
             (<<Code>> \o d)[i] = IF i <= Len(<<Code>>) THEN <<Code>>[i] ELSE d[i - Len(<<Code>>)]
      BY <2>5, <2>6
    <3>2. 1 \in 1 .. n + 1 /\ \A i \in 2 .. n + 1 : i \in 1 .. n + 1 /\ ~(i <= 1)
      BY <2>3
    <3> QED BY <2>1, <2>3, <2>6, <3>1, <3>2
  <2>9. ASSUME NEW i \in 1 .. Len(b)
        PROVE  Recorded(b[i]) /\ b[i].kind # "shell" /\ (1 < i => b[i].kind # "code")
    <3>1. CASE i = 1
      <4>1. b[i] = Code
        BY <3>1, <2>8
      <4>2. Recorded(Code) /\ Code.kind # "shell"
        BY <1>1 DEF Live0, Made, Recorded
      <4> QED BY <3>1, <4>1, <4>2
    <3>2. CASE i # 1
      <4>1. i - 1 \in 1 .. n /\ i \in 2 .. n + 1
        BY <3>2, <2>7, <2>3
      <4> QED BY <4>1, <2>5, <2>8 DEF Live0, Made, Recorded
    <3> QED BY <3>1, <3>2
  <2>10. b[1].kind = "code" /\ b[1].size = SA - 1 /\ Len(b) \in Nat \ {0}
    BY <2>3, <2>7, <2>8, <1>1
  <2>11. \A i \in 2 .. Len(b) : i \in 1 .. Len(b) /\ 1 < i
    BY <2>10
  <2> QED BY <2>7, <2>9, <2>10, <2>11 DEF OfDebuggee, IsTable
<1>3. ASSUME NEW b \in bare, NEW k \in places(b) PROVE OfDebuggee(InsertAt(b, k, Shell))
  <2>1. /\ b \in Seq(Section) /\ Len(b) \in Nat \ {0}
        /\ b[1].kind = "code" /\ b[1].size = SA - 1
        /\ \A i \in 1 .. Len(b) : Recorded(b[i]) /\ b[i].kind # "shell"
        /\ \A i \in 2 .. Len(b) : b[i].kind # "code"
    BY <1>2 DEF OfDebuggee, IsTable
  <2>2. k \in 2 .. Len(b) + 1 /\ (ShellLast => k = Len(b) + 1)
    BY <2>1, DumpAssumption
  <2> HIDE DEF bare, places
  <2> DEFINE c == InsertAt(b, k, Shell)
  <2>3. k \in 1 .. Len(b) + 1 /\ Shell \in Section
    BY <2>2, ShapesAre
  <2>4. /\ c \in Seq(Section) /\ Len(c) = Len(b) + 1
        /\ \A i \in 1 .. Len(b) + 1 :
              c[i] = IF i < k THEN b[i] ELSE IF i = k THEN Shell ELSE b[i - 1]
    <3>1. c = InsertAt(b, k, Shell)
      OBVIOUS
    <3> HIDE DEF c
    <3> QED BY <2>1, <2>3, <3>1, InsertedAre
  <2> HIDE DEF c
  <2>11. ASSUME NEW i \in 1 .. Len(b) + 1
         PROVE  /\ Recorded(c[i])
                /\ i = 1 => c[i].kind = "code" /\ c[i].size = SA - 1
                /\ 1 < i => c[i].kind # "code"
                /\ c[i].kind = "shell" => i = k
    <3>1. CASE i < k
      <4>1. c[i] = b[i] /\ i \in 1 .. Len(b) /\ (1 < i => i \in 2 .. Len(b))
        BY <3>1, <2>1, <2>2, <2>4
      <4> QED BY <4>1, <2>1
    <3>2. CASE i = k
      <4>1. c[i] = Shell /\ i # 1
        BY <3>2, <2>2, <2>4
      <4>2. Recorded(Shell) /\ Shell.kind # "code"
        BY <1>1 DEF Live0, Made, Recorded
      <4> QED BY <3>2, <4>1, <4>2
    <3>3. CASE i > k
      <4>1. i - 1 \in 2 .. Len(b) /\ i - 1 \in 1 .. Len(b) /\ i # 1 /\ ~(i < k) /\ i # k
        BY <3>3, <2>1, <2>2
      <4>2. c[i] = b[i - 1]
        BY <4>1, <2>4
      <4> QED BY <4>1, <4>2, <2>1
    <3> QED BY <3>1, <3>2, <3>3, <2>1, <2>2
  <2>12. 1 \in 1 .. Len(b) + 1 /\ \A i \in 2 .. Len(c) : i \in 1 .. Len(b) + 1 /\ 1 < i
    BY <2>1, <2>4
  <2>14. ShellLast => \A i \in 1 .. Len(c) : c[i].kind = "shell" => i = Len(c)
    BY <2>2, <2>4, <2>11
  <2>13. OfDebuggee(c)
    BY <2>1, <2>4, <2>11, <2>12, <2>14 DEF OfDebuggee, IsTable
  <2> QED BY <2>13 DEF c
<1>4. PICK b \in bare \union shelled :
          ss = [i \in DOMAIN LaidOut(b) |-> [LaidOut(b)[i] EXCEPT !.at = LaidOut(b)[i].va]]
  <2> DEFINE From(t) == [i \in DOMAIN t |-> [t[i] EXCEPT !.at = t[i].va]]
  <2>1. ss \in {From(t) : t \in {LaidOut(b) : b \in bare \union shelled}}
    BY Zenon DEF Images
  <2>2. PICK b \in bare \union shelled : ss = From(LaidOut(b))
    <3> HIDE DEF From, bare, shelled
    <3> QED BY <2>1
  <2> QED BY <2>2, Zenon
<1>5. OfDebuggee(b)
  <2>1. CASE b \in bare
    BY <2>1, <1>2
  <2>2. CASE b \in shelled
    <3>1. PICK c \in bare, k \in Nat : k \in places(c) /\ b = InsertAt(c, k, Shell)
      <4>1. PICK c \in bare : b \in {InsertAt(c, i, Shell) : i \in places(c)}
        <5> HIDE DEF bare, places
        <5> QED BY <2>2
      <4>2. PICK k \in places(c) : b = InsertAt(c, k, Shell)
        <5> HIDE DEF places
        <5> QED BY <4>1
      <4>3. Len(c) \in Nat
        BY <1>2 DEF OfDebuggee, IsTable
      <4>4. k \in Nat
        <5> HIDE DEF bare
        <5> QED BY <4>2, <4>3
      <4> HIDE DEF places
      <4> QED BY <4>2, <4>4
    <3> HIDE DEF places, bare
    <3> QED BY <3>1, <1>3
  <2> HIDE DEF bare, shelled
  <2> QED BY <2>1, <2>2
<1> HIDE DEF bare, shelled
<1>6. PICK out : out = LaidOut(b)
  OBVIOUS
<1>7. /\ IsTable(out) /\ Len(out) = Len(b) /\ Follows(out)
      /\ \A i \in 1 .. Len(b) : \E n \in Nat : out[i] = [b[i] EXCEPT !.va = n]
      /\ \A i \in 1 .. Len(b) : b[i] \in Section
  <2>1. IsTable(b)
    BY <1>5 DEF OfDebuggee
  <2>2. /\ IsTable(LaidOut(b)) /\ Len(LaidOut(b)) = Len(b) /\ Follows(LaidOut(b))
        /\ \A i \in 1 .. Len(b) : \E n \in Nat : LaidOut(b)[i] = [b[i] EXCEPT !.va = n]
    BY <2>1, LaidOutIs
  <2> QED BY <2>1, <2>2, <1>6, TableIs
<1>8. \A i \in 1 .. Len(b) : /\ out[i].kind = b[i].kind /\ out[i].name = b[i].name
                             /\ out[i].raw = b[i].raw /\ out[i] \in Section
                             /\ out[i].used = b[i].used /\ out[i].size = b[i].size
  <2> SUFFICES ASSUME NEW i \in 1 .. Len(b)
               PROVE  /\ out[i].kind = b[i].kind /\ out[i].name = b[i].name
                      /\ out[i].raw = b[i].raw /\ out[i] \in Section
                      /\ out[i].used = b[i].used /\ out[i].size = b[i].size
    OBVIOUS
  <2>1. PICK n \in Nat : out[i] = [b[i] EXCEPT !.va = n]
    BY <1>7
  <2>2. /\ out[i].kind = b[i].kind /\ out[i].name = b[i].name /\ out[i].raw = b[i].raw
        /\ out[i].used = b[i].used /\ out[i].size = b[i].size
    BY <2>1, <1>7 DEF Section
  <2> QED BY <2>2, <1>7, TableIs
<1>9. /\ Len(b) \in Nat \ {0} /\ DOMAIN out = 1 .. Len(b)
      /\ ss = [i \in 1 .. Len(b) |-> [out[i] EXCEPT !.at = out[i].va]]
  BY <1>4, <1>6, <1>7, TableIs
<1>10. \A i \in 1 .. Len(b) :
          /\ ss[i] \in Section /\ ss[i].kind = b[i].kind /\ ss[i].name = b[i].name
          /\ ss[i].raw = b[i].raw /\ ss[i].used = b[i].used /\ ss[i].size = b[i].size
          /\ ss[i].va = out[i].va /\ End(ss[i]) = End(out[i]) /\ ss[i].at = ss[i].va
  BY <1>8, <1>9 DEF Section, End
<1>11. ss \in Seq(Section) /\ Len(ss) = Len(b)
  <2>1. ss \in [1 .. Len(b) -> Section]
    BY <1>9, <1>10
  <2> QED BY <2>1, <1>9
<1>12. Follows(ss)
  <2>1. 1 \in 1 .. Len(b) /\ \A i \in 2 .. Len(b) : i \in 1 .. Len(b) /\ i - 1 \in 1 .. Len(b)
    BY <1>9
  <2> QED BY <2>1, <1>7, <1>10, <1>11 DEF Follows
<1>13. 1 \in 1 .. Len(b) /\ \A i \in 2 .. Len(b) : i \in 1 .. Len(b)
  BY <1>9
<1>14. \A i \in 1 .. Len(b) : Recorded(ss[i])
  BY <1>5, <1>10 DEF OfDebuggee, Recorded
<1> QED
  BY <1>5, <1>9, <1>10, <1>11, <1>12, <1>13, <1>14 DEF OfDebuggee, IsTable

----------------------------------------------------------------------------
(* Trimming *)

LEMMA DataEndIs ==
    ASSUME NEW s \in Section
    PROVE  DataEnd(s) \in 0 .. s.rsize
<1> DEFINE used == {a \in FileRange(s) : DumpBuf(a) # 0}
<1>1. s.raw \in Int /\ s.rsize \in Nat /\ RawEnd(s) = s.raw + s.rsize
  BY SectionIs DEF RawEnd
<1>2. ASSUME used # {} PROVE Max(used) \in s.raw .. s.raw + s.rsize - 1
  <2>1. used \in SUBSET Int /\ \A a \in used : a <= s.raw + s.rsize - 1
    BY <1>1 DEF FileRange
  <2>2. used \subseteq s.raw .. s.raw + s.rsize - 1
    BY <1>1 DEF FileRange
  <2>3. s.raw + s.rsize - 1 \in Int
    BY <1>1
  <2> HIDE DEF used
  <2>4. Max(used) \in used
    BY <1>2, <2>1, <2>3, MaxOf
  <2> QED BY <2>2, <2>4
<1>3. DataEnd(s) = IF used = {} THEN 0 ELSE Max(used) + 1 - s.raw
  BY DEF DataEnd
<1> HIDE DEF used
<1> QED
  BY <1>1, <1>2, <1>3

\* The tables that trimming can make of one
Trimmings(ss) ==
    {x \in Seq(Section) : /\ SameImage(x, ss)
                          /\ \A i \in 1 .. Len(ss) : x[i].rsize <= ss[i].rsize}

\* A section is trimmed
Trims(ss, i) == ss[i].rsize - DataEnd(ss[i]) > Huge

NewSize(ss, i) == AlignUp(DataEnd(ss[i]), FA)
MovedBy(ss, i) == AlignUp(ss[i].rsize, SA) - NewSize(ss, i)

LEMMA TrimmedOneIs ==
    ASSUME NEW ss, IsTable(ss), NEW i \in 1 .. Len(ss)
    PROVE  /\ ~Trims(ss, i) => TrimmedOne(ss, i) = ss
           /\ Trims(ss, i) =>
                /\ NewSize(ss, i) \in Nat /\ NewSize(ss, i) < ss[i].rsize
                /\ MovedBy(ss, i) \in Nat
                /\ MovedBy(ss, i) + NewSize(ss, i) = AlignUp(ss[i].rsize, SA)
                /\ MovedBy(ss, i) + NewSize(ss, i) < ss[i].rsize + SA
                /\ \A k \in 1 .. Len(ss) :
                      TrimmedOne(ss, i)[k] =
                         IF k < i THEN ss[k]
                         ELSE IF k = i THEN [ss[k] EXCEPT !.rsize = NewSize(ss, i)]
                         ELSE [ss[k] EXCEPT !.raw = ss[k].raw - MovedBy(ss, i)]
           /\ TrimmedOne(ss, i) \in Trimmings(ss)
<1>1. /\ Len(ss) \in Nat \ {0} /\ DOMAIN ss = 1 .. Len(ss)
      /\ \A k \in 1 .. Len(ss) : ss[k] \in Section
      /\ FA \in Nat \ {0} /\ SA \in Nat \ {0} /\ Huge \in Nat /\ FA <= Huge
  BY TableIs, DumpAssumption
<1>2. ss[i].rsize \in Nat /\ DataEnd(ss[i]) \in 0 .. ss[i].rsize /\ DataEnd(ss[i]) \in Nat
  <2>1. ss[i] \in Section
    BY <1>1
  <2>2. ss[i].rsize \in Nat
    BY <2>1, SectionIs
  <2>3. DataEnd(ss[i]) \in 0 .. ss[i].rsize
    BY <2>1, DataEndIs
  <2> QED BY <2>2, <2>3
<1>3. /\ NewSize(ss, i) \in Nat /\ NewSize(ss, i) < DataEnd(ss[i]) + FA
  BY <1>1, <1>2, AlignUpIs DEF NewSize
<1>4. /\ AlignUp(ss[i].rsize, SA) \in Nat /\ ss[i].rsize <= AlignUp(ss[i].rsize, SA)
      /\ AlignUp(ss[i].rsize, SA) < ss[i].rsize + SA
  BY <1>1, <1>2, AlignUpIs
<1>5. ss \in Trimmings(ss)
  <2>1. ss \in Seq(Section)
    BY DEF IsTable
  <2>2. \A k \in 1 .. Len(ss) : ss[k].rsize \in Nat
    BY <1>1, SectionIs
  <2> QED BY <2>1, <2>2, SameImageSelf DEF Trimmings
<1>6. CASE ~Trims(ss, i)
  <2>1. TrimmedOne(ss, i) = ss
    BY <1>2, <1>6, <1>1 DEF TrimmedOne, Trims
  <2> QED BY <2>1, <1>5, <1>6
<1>7. CASE Trims(ss, i)
  <2> DEFINE new == NewSize(ss, i)
             moved == MovedBy(ss, i)
             out == TrimmedOne(ss, i)
  <2>1. /\ new < ss[i].rsize
        /\ moved \in Nat /\ moved + new = AlignUp(ss[i].rsize, SA)
        /\ moved + new < ss[i].rsize + SA
    <3>1. PICK new0 \in Nat : new0 = NewSize(ss, i)
      BY <1>3
    <3>2. PICK up \in Nat : up = AlignUp(ss[i].rsize, SA)
      BY <1>4
    <3>3. PICK last \in Nat : last = DataEnd(ss[i])
      BY <1>2
    <3>4. /\ new0 < last + FA /\ last <= ss[i].rsize /\ ss[i].rsize - last > Huge
          /\ ss[i].rsize <= up /\ up < ss[i].rsize + SA
      BY <1>2, <1>3, <1>4, <1>7, <3>1, <3>2, <3>3 DEF Trims
    <3>5. new0 < ss[i].rsize /\ up - new0 \in Nat /\ (up - new0) + new0 = up
      BY <3>4, <1>1, <1>2, SMTT(40)
    <3>6. new = new0 /\ moved = up - new0
      BY <3>1, <3>2 DEF MovedBy
    <3> HIDE DEF new, moved
    <3> QED BY <3>2, <3>4, <3>5, <3>6
  <2>2. out = Shifted(ss, i, new, moved)
    BY <1>1, <1>2, <1>7 DEF TrimmedOne, Trims, NewSize, MovedBy
  <2> HIDE DEF new, moved, out
  <2>3. out = [k \in 1 .. Len(ss) |->
                  IF k < i THEN ss[k]
                  ELSE IF k = i THEN [ss[k] EXCEPT !.rsize = new]
                  ELSE [ss[k] EXCEPT !.raw = ss[k].raw - moved]]
    BY <2>2, <1>1, Zenon DEF Shifted
  <2>4. new \in Nat
    BY <1>3 DEF new
  <2>5. \A k \in 1 .. Len(ss) :
           out[k] = IF k < i THEN ss[k]
                    ELSE IF k = i THEN [ss[k] EXCEPT !.rsize = new]
                    ELSE [ss[k] EXCEPT !.raw = ss[k].raw - moved]
    BY <2>3
  <2>6. ASSUME NEW k \in 1 .. Len(ss)
        PROVE  /\ out[k] \in Section
               /\ out[k].kind = ss[k].kind /\ out[k].name = ss[k].name
               /\ out[k].at = ss[k].at /\ out[k].used = ss[k].used
               /\ out[k].va = ss[k].va /\ out[k].size = ss[k].size
               /\ out[k].rsize <= ss[k].rsize
    <3>1. ss[k] \in Section /\ ss[k].rsize \in Nat /\ ss[k].raw - moved \in Int
      BY <1>1, <2>1, SectionIs
    <3>2. CASE k < i
      <4>1. out[k] = ss[k]
        BY <3>2, <2>5
      <4> QED BY <3>1, <4>1
    <3>3. CASE k = i
      <4>0. ~(k < i)
        BY <3>3
      <4>1. out[k] = [ss[k] EXCEPT !.rsize = new]
        BY <3>3, <4>0, <2>5, Zenon
      <4>2. new <= ss[k].rsize
        BY <3>3, <3>1, <2>1, <2>4
      <4>3. /\ out[k] \in Section
            /\ out[k].kind = ss[k].kind /\ out[k].name = ss[k].name
            /\ out[k].at = ss[k].at /\ out[k].used = ss[k].used
            /\ out[k].va = ss[k].va /\ out[k].size = ss[k].size
            /\ out[k].rsize = new
        BY <3>1, <4>1, <2>4, ResizedIs
      <4> QED BY <4>2, <4>3
    <3>4. CASE k > i
      <4>1. ~(k < i) /\ k # i
        BY <3>4
      <4>2. out[k] = [ss[k] EXCEPT !.raw = ss[k].raw - moved]
        BY <4>1, <2>5, Zenon
      <4>3. /\ out[k] \in Section
            /\ out[k].kind = ss[k].kind /\ out[k].name = ss[k].name
            /\ out[k].at = ss[k].at /\ out[k].used = ss[k].used
            /\ out[k].va = ss[k].va /\ out[k].size = ss[k].size
            /\ out[k].rsize = ss[k].rsize
        BY <3>1, <4>2, MovedIs
      <4> QED BY <3>1, <4>3
    <3> QED BY <3>2, <3>3, <3>4
  <2>7. out \in Seq(Section) /\ Len(out) = Len(ss)
    <3>1. out \in [1 .. Len(ss) -> Section]
      BY <2>3, <2>6
    <3> QED BY <3>1, <1>1
  <2>8. out \in Trimmings(ss)
    BY <2>6, <2>7, <1>1 DEF Trimmings, SameImage, IsTable
  <2> QED BY <2>1, <2>4, <2>5, <2>8, <1>7 DEF new, moved, out
<1> QED
  BY <1>6, <1>7

LEMMA TrimmingsChain ==
    ASSUME NEW ss, IsTable(ss), NEW a \in Trimmings(ss), NEW b \in Trimmings(a)
    PROVE  b \in Trimmings(ss)
<1>1. SameImage(a, ss) /\ SameImage(b, a) /\ b \in Seq(Section)
  BY DEF Trimmings
<1>2. SameImage(b, ss) /\ Len(a) = Len(ss) /\ IsTable(a) /\ IsTable(b) /\ Len(b) = Len(ss)
  BY <1>1, SameImageChain DEF SameImage
<1>3. \A i \in 1 .. Len(ss) :
         ss[i].rsize \in Nat /\ a[i].rsize \in Nat /\ b[i].rsize \in Nat
  BY <1>2, TableIs, SectionIs
<1>4. \A i \in 1 .. Len(ss) : a[i].rsize <= ss[i].rsize /\ b[i].rsize <= a[i].rsize
  BY <1>2 DEF Trimmings
<1>5. \A i \in 1 .. Len(ss) : b[i].rsize <= ss[i].rsize
  BY <1>3, <1>4
<1> QED
  BY <1>1, <1>2, <1>5 DEF Trimmings

\* The walk over the sections, table by table
TrimWalk(t, ss) ==
    /\ t \in [0 .. Len(ss) -> Trimmings(ss)]
    /\ t[0] = ss /\ t[Len(ss)] = TrimmedAll(ss)
    /\ \A n \in 1 .. Len(ss) : t[n] = TrimmedOne(t[n - 1], n)

LEMMA TrimmedAllIs ==
    ASSUME NEW ss, IsTable(ss)
    PROVE  \E t : TrimWalk(t, ss)
<1> DEFINE N == Len(ss)
           S == Trimmings(ss)
           Onward == [p \in S \X (1 .. N) |-> TrimmedOne(p[1], p[2])]
           F(f) == [n \in 0 .. N |-> IF n = 0 THEN ss ELSE TrimmedOne(f[n - 1], n)]
           trimmed == CHOOSE f : f = F(f)
<1>1. N \in Nat \ {0} /\ \A i \in 1 .. N : ss[i] \in Section /\ ss[i].rsize \in Nat
  BY TableIs, SectionIs
<1>2. ASSUME NEW x \in S, NEW n \in 1 .. N PROVE TrimmedOne(x, n) \in S
  <2>1. IsTable(x) /\ Len(x) = Len(ss)
    BY DEF Trimmings, SameImage
  <2>2. TrimmedOne(x, n) \in Trimmings(x)
    BY <2>1, TrimmedOneIs
  <2> QED BY <2>2, TrimmingsChain
<1>3. ss \in S
  <2>1. ss \in Seq(Section)
    BY DEF IsTable
  <2> QED BY <1>1, <2>1, SameImageSelf DEF Trimmings
<1>4. Onward \in [S \X (1 .. N) -> S]
  <2> HIDE DEF S, N
  <2> QED BY <1>2
<1>5. PICK f \in [0 .. N -> S] : Iterates(f, ss, Onward, N)
  <2>1. N \in Nat
    BY <1>1
  <2> HIDE DEF Onward, N, S
  <2> QED BY <2>1, <1>3, <1>4, Recursion
<1>6. f = F(f)
  <2> HIDE DEF N, S
  <2>1. ASSUME NEW n \in 0 .. N PROVE f[n] = F(f)[n]
    <3>1. CASE n = 0
      BY <1>5, <3>1 DEF Iterates
    <3>2. CASE n # 0
      <4>1. n - 1 \in 0 .. N /\ n \in 1 .. N
        BY <3>2, <1>1
      <4>2. f[n - 1] \in S
        BY <4>1
      <4>3. f[n] = Onward[<<f[n - 1], n>>]
        BY <1>5, <4>1 DEF Iterates
      <4> QED BY <4>1, <4>2, <4>3, <3>2
    <3> QED BY <3>1, <3>2
  <2> QED BY <1>5, <2>1
<1>7. trimmed = F(trimmed)
  <2> HIDE DEF F
  <2> QED BY <1>6, Zenon
<1>8. TrimmedAll(ss) = trimmed[N]
  BY DEF TrimmedAll
<1> HIDE DEF trimmed
<1>9. /\ trimmed[0] = ss
      /\ \A n \in 1 .. N : trimmed[n] = TrimmedOne(trimmed[n - 1], n)
  <2>1. \A n \in 1 .. N : n \in 0 .. N /\ n # 0
    OBVIOUS
  <2>2. 0 \in 0 .. N
    BY <1>1
  <2> HIDE DEF N
  <2> QED BY <2>1, <2>2, <1>7
<1>10. \A n \in 0 .. N : trimmed[n] \in S
  <2> DEFINE T == {n \in 0 .. N : trimmed[n] \in S}
  <2> HIDE DEF S
  <2>1. 0 \in T /\ 0 \in Int /\ N \in Int
    BY <1>1, <1>3, <1>9
  <2>2. ASSUME NEW n \in 0 .. N - 1, n \in T PROVE n + 1 \in T
    <3>1. n + 1 \in 1 .. N /\ n + 1 \in 0 .. N /\ (n + 1) - 1 = n /\ trimmed[n] \in S
      BY <1>1, <2>2
    <3>2. trimmed[n + 1] = TrimmedOne(trimmed[n], n + 1)
      BY <3>1, <1>9
    <3> QED BY <3>1, <3>2, <1>2
  <2> HIDE DEF T, N
  <2>3. \A n \in 0 .. N : n \in T
    BY <2>1, <2>2, UpFrom
  <2> QED BY <2>3 DEF T
<1>11. DOMAIN trimmed = 0 .. N /\ trimmed = [n \in 0 .. N |-> trimmed[n]]
  <2> DEFINE G == [n \in 0 .. N |-> IF n = 0 THEN ss ELSE TrimmedOne(trimmed[n - 1], n)]
  <2>1. trimmed = G
    BY <1>7
  <2>2. G = [n \in DOMAIN G |-> G[n]] /\ DOMAIN G = 0 .. N
    BY Zenon
  <2> HIDE DEF G
  <2> QED BY <2>1, <2>2
<1>12. trimmed \in [0 .. N -> S]
  <2> HIDE DEF S, N
  <2> QED BY <1>10, <1>11
<1> QED
  BY <1>8, <1>9, <1>12 DEF TrimWalk

----------------------------------------------------------------------------
(* Packing *)

FileOf(n) == n \in Int /\ file \in [0 .. n - 1 -> Int]

Packings ==
    {x \in [end : Nat, secs : Seq(Section), file : [DOMAIN file -> Int]] :
        /\ SameImage(x.secs, secs)
        /\ \A i \in 1 .. Len(secs) : x.secs[i].rsize = secs[i].rsize}

Packs(x, i) == GapBefore(x, i) /\ FileLength(x, i) > 0

LEMMA FileLengthIs ==
    ASSUME NEW n, FileOf(n), NEW x, NEW i, x.secs[i] \in Section,
           DOMAIN x.file = DOMAIN file, Packs(x, i)
    PROVE  /\ x.secs[i].raw \in 0 .. n - 1
           /\ FileLength(x, i) \in 0 .. x.secs[i].rsize
           /\ x.secs[i].raw + FileLength(x, i) <= n
           /\ RawEnd(x.secs[i]) <= n => FileLength(x, i) = x.secs[i].rsize
<1>1. PICK s \in Section : s = x.secs[i]
  OBVIOUS
<1>2. s.raw \in Int /\ s.rsize \in Nat /\ RawEnd(s) = s.raw + s.rsize
  BY SectionIs DEF RawEnd
<1>3. DOMAIN file = 0 .. n - 1 /\ n \in Int
  BY DEF FileOf
<1>4. s.raw \in 0 .. n - 1
  BY <1>1, <1>3 DEF Packs, GapBefore
<1> DEFINE e == IF RawEnd(s) <= n THEN RawEnd(s) - 1 ELSE n - 1
<1>5. FileRange(s) \intersect DOMAIN x.file = s.raw .. e /\ e \in Int
  <2>1. FileRange(s) = s.raw .. s.raw + s.rsize - 1
    BY <1>2 DEF FileRange
  <2> QED BY <2>1, <1>2, <1>3, <1>4
<1>6. FileLength(x, i) = Cardinality(s.raw .. e)
  BY <1>1, <1>5 DEF FileLength
<1> HIDE DEF e
<1>7. FileLength(x, i) = IF s.raw > e THEN 0 ELSE e - s.raw + 1
  BY <1>2, <1>5, <1>6, FS_Interval
<1> QED
  BY <1>1, <1>2, <1>3, <1>4, <1>7, SMTT(40) DEF e

LEMMA PackingIs ==
    ASSUME NEW x \in Packings
    PROVE  /\ x.end \in Nat /\ x.secs \in Seq(Section) /\ x.file \in [DOMAIN file -> Int]
           /\ DOMAIN x.file = DOMAIN file
           /\ IsTable(x.secs) /\ Len(x.secs) = Len(secs)
           /\ x = [end |-> x.end, secs |-> x.secs, file |-> x.file]
           /\ SameImage(x.secs, secs)
           /\ \A i \in 1 .. Len(secs) : x.secs[i].rsize = secs[i].rsize
<1>1. /\ x \in [end : Nat, secs : Seq(Section), file : [DOMAIN file -> Int]]
      /\ SameImage(x.secs, secs)
      /\ \A i \in 1 .. Len(secs) : x.secs[i].rsize = secs[i].rsize
  BY Zenon DEF Packings
<1>2. IsTable(x.secs) /\ Len(x.secs) = Len(secs)
  BY <1>1 DEF SameImage
<1> HIDE DEF Packings
<1>3. /\ x.end \in Nat /\ x.secs \in Seq(Section) /\ x.file \in [DOMAIN file -> Int]
      /\ x = [end |-> x.end, secs |-> x.secs, file |-> x.file]
  BY <1>1
<1>4. DOMAIN x.file = DOMAIN file
  BY <1>3
<1> QED
  BY <1>1, <1>2, <1>3, <1>4

LEMMA SequenceIs ==
    ASSUME NEW S, NEW q \in Seq(S)
    PROVE  q \in [1 .. Len(q) -> S]
OBVIOUS

LEMMA NotPacked ==
    ASSUME IsTable(secs), NEW x \in Packings, NEW i \in 1 .. Len(secs), ~Packs(x, i)
    PROVE  /\ MovedDown(x, i) \in Packings
           /\ MovedDown(x, i).secs = x.secs
           /\ x.end <= MovedDown(x, i).end /\ RawEnd(x.secs[i]) <= MovedDown(x, i).end
<1>1. /\ x.end \in Nat /\ x.secs \in Seq(Section) /\ x.file \in [DOMAIN file -> Int]
      /\ x = [end |-> x.end, secs |-> x.secs, file |-> x.file]
      /\ IsTable(x.secs) /\ Len(x.secs) = Len(secs) /\ SameImage(x.secs, secs)
      /\ \A k \in 1 .. Len(secs) : x.secs[k].rsize = secs[k].rsize
  BY PackingIs
<1>2. x.secs[i] \in Section /\ RawEnd(x.secs[i]) \in Int
  BY <1>1, TableIs, SectionIs
<1> DEFINE e == IF RawEnd(x.secs[i]) > x.end THEN RawEnd(x.secs[i]) ELSE x.end
<1>3. MovedDown(x, i) = [x EXCEPT !.end = e]
  BY Zenon DEF MovedDown, Packs, Passed
<1>4. e \in Nat /\ x.end <= e /\ RawEnd(x.secs[i]) <= e
  BY <1>1, <1>2
<1> HIDE DEF e
<1>5. [x EXCEPT !.end = e] = [end |-> e, secs |-> x.secs, file |-> x.file]
  <2>1. PICK a, b, c : a = x.end /\ b = x.secs /\ c = x.file
    OBVIOUS
  <2>2. x = [end |-> a, secs |-> b, file |-> c]
    BY <1>1, <2>1
  <2>3. [x EXCEPT !.end = e] = [end |-> e, secs |-> b, file |-> c]
    BY <2>2
  <2> QED BY <2>1, <2>3
<1> DEFINE y == [end |-> e, secs |-> x.secs, file |-> x.file]
<1>6. y \in [end : Nat, secs : Seq(Section), file : [DOMAIN file -> Int]]
  BY <1>1, <1>4
<1>7. y.secs = x.secs /\ y.end = e
  BY Zenon
<1> HIDE DEF y
<1>8. y \in Packings
  BY <1>1, <1>6, <1>7 DEF Packings
<1>9. MovedDown(x, i) = y
  BY <1>3, <1>5 DEF y
<1> QED
  BY <1>4, <1>7, <1>8, <1>9

LEMMA PackedDown ==
    ASSUME IsTable(secs), NEW n, FileOf(n), NEW x \in Packings, NEW i \in 1 .. Len(secs),
           Packs(x, i)
    PROVE  /\ MovedDown(x, i) \in Packings
           /\ \E to \in Nat :
                 /\ x.end <= to /\ to <= x.secs[i].raw
                 /\ MovedDown(x, i).secs[i].raw = to
                 /\ to <= MovedDown(x, i).end
                 /\ RawEnd(x.secs[i]) <= n =>
                        MovedDown(x, i).end = RawEnd(MovedDown(x, i).secs[i])
           /\ \A k \in 1 .. Len(secs) : k # i => MovedDown(x, i).secs[k] = x.secs[k]
<1>1. /\ x.end \in Nat /\ x.secs \in Seq(Section) /\ x.file \in [DOMAIN file -> Int]
      /\ x = [end |-> x.end, secs |-> x.secs, file |-> x.file]
      /\ IsTable(x.secs) /\ Len(x.secs) = Len(secs) /\ SameImage(x.secs, secs)
      /\ \A k \in 1 .. Len(secs) : x.secs[k].rsize = secs[k].rsize
      /\ DOMAIN x.file = DOMAIN file
  BY PackingIs
<1>2. PICK s \in Section : s = x.secs[i]
  BY <1>1, TableIs
<1>3. s.raw \in Int /\ s.rsize \in Nat
  BY SectionIs
<1>4. PICK to \in Nat : to = AlignUp(x.end, FA) /\ x.end <= to /\ to < x.end + FA
  <2>1. FA \in Nat \ {0}
    BY DumpAssumption
  <2> QED BY <1>1, <2>1, AlignUpIs
<1>5. to <= s.raw
  <2>1. s.raw - x.end > Huge
    BY <1>2 DEF Packs, GapBefore
  <2>2. FA \in Nat /\ Huge \in Nat /\ FA <= Huge
    BY DumpAssumption
  <2> QED BY <1>1, <1>3, <1>4, <2>1, <2>2
<1>6. PICK length \in Nat :
          /\ length = FileLength(x, i) /\ length <= s.rsize /\ s.raw + length <= n
          /\ RawEnd(s) <= n => length = s.rsize
          /\ s.raw \in 0 .. n - 1
  <2>1. x.secs[i] \in Section
    BY <1>2
  <2>2. /\ x.secs[i].raw \in 0 .. n - 1
        /\ FileLength(x, i) \in 0 .. x.secs[i].rsize
        /\ x.secs[i].raw + FileLength(x, i) <= n
        /\ RawEnd(x.secs[i]) <= n => FileLength(x, i) = x.secs[i].rsize
    BY <1>1, <2>1, FileLengthIs
  <2> QED BY <1>2, <1>3, <2>2
<1> DEFINE out == [x.secs EXCEPT ![i].raw = to]
           f == [o \in DOMAIN x.file |->
                    IF o \in to .. to + length - 1
                    THEN x.file[x.secs[i].raw + o - to] ELSE x.file[o]]
           y == [end |-> to + length, secs |-> out, file |-> f]
<1>7. MovedDown(x, i) = y
  BY <1>4, <1>6, Zenon DEF MovedDown, Packs, Moved
<1>8. /\ out[i] = [s EXCEPT !.raw = to]
      /\ \A k \in 1 .. Len(secs) : k # i => out[k] = x.secs[k]
      /\ out \in [1 .. Len(secs) -> Section]
  <2>1. x.secs \in [1 .. Len(secs) -> Section]
    <3>1. x.secs \in [1 .. Len(x.secs) -> Section]
      BY <1>1, SequenceIs, Zenon
    <3> QED BY <1>1, <3>1, Zenon
  <2>2. [s EXCEPT !.raw = to] \in Section
    <3>1. to \in Int
      OBVIOUS
    <3> HIDE DEF out, f, y
    <3> QED BY <3>1, MovedIs
  <2>3. PICK new \in Section : new = [s EXCEPT !.raw = to]
    BY <2>2
  <2>4. out = [x.secs EXCEPT ![i] = new]
    BY <1>2, <2>3, Zenon
  <2> HIDE DEF out
  <2>5. out[i] = new /\ \A k \in 1 .. Len(secs) : k # i => out[k] = x.secs[k]
    BY <2>1, <2>4
  <2>6. out \in [1 .. Len(secs) -> Section]
    BY <2>1, <2>4
  <2> QED BY <2>3, <2>5, <2>6
<1>9. f \in [DOMAIN file -> Int]
  <2>1. DOMAIN file = 0 .. n - 1 /\ n \in Int
    BY DEF FileOf
  <2>2. x.file \in [0 .. n - 1 -> Int]
    BY <1>1, <2>1, Zenon
  <2>3. \A o \in to .. to + length - 1 : s.raw + o - to \in 0 .. n - 1
    <3>1. PICK r \in Int : r = s.raw
      BY <1>3
    <3>2. r \in 0 .. n - 1 /\ r + length <= n /\ n \in Int
      BY <1>6, <2>1, <3>1
    <3>3. \A o \in to .. to + length - 1 : r + o - to \in 0 .. n - 1
      BY <3>2
    <3> QED BY <3>1, <3>3
  <2>4. \A o \in 0 .. n - 1 :
           (IF o \in to .. to + length - 1
            THEN x.file[x.secs[i].raw + o - to] ELSE x.file[o]) \in Int
    BY <1>2, <2>2, <2>3
  <2>5. f \in [DOMAIN x.file -> Int]
    BY <1>1, <2>1, <2>4
  <2> HIDE DEF f
  <2> QED BY <1>1, <2>5
<1>10. out \in Seq(Section) /\ Len(out) = Len(secs)
  <2>1. Len(secs) \in Nat
    BY TableIs
  <2> HIDE DEF out
  <2> QED BY <1>8, <2>1
<1> HIDE DEF out, f
<1>11. /\ y \in [end : Nat, secs : Seq(Section), file : [DOMAIN file -> Int]]
       /\ y.secs = out /\ y.end = to + length
  BY <1>9, <1>10
<1> HIDE DEF y
<1>12. \A k \in 1 .. Len(secs) :
          /\ out[k].rsize = x.secs[k].rsize
          /\ out[k].kind = x.secs[k].kind /\ out[k].name = x.secs[k].name
          /\ out[k].at = x.secs[k].at /\ out[k].used = x.secs[k].used
          /\ out[k].va = x.secs[k].va /\ out[k].size = x.secs[k].size
          /\ (k = i => out[k].raw = to)
  <2> SUFFICES ASSUME NEW k \in 1 .. Len(secs)
               PROVE  /\ out[k].rsize = x.secs[k].rsize
                      /\ out[k].kind = x.secs[k].kind /\ out[k].name = x.secs[k].name
                      /\ out[k].at = x.secs[k].at /\ out[k].used = x.secs[k].used
                      /\ out[k].va = x.secs[k].va /\ out[k].size = x.secs[k].size
                      /\ (k = i => out[k].raw = to)
    OBVIOUS
  <2>1. CASE k = i
    <3>1. out[i] = [s EXCEPT !.raw = to] /\ to \in Int
      BY <1>8
    <3> QED BY <2>1, <3>1, <1>2, MovedIs
  <2>2. CASE k # i
    BY <2>2, <1>8
  <2> QED BY <2>1, <2>2
<1>13. SameImage(out, secs) /\ \A k \in 1 .. Len(secs) : out[k].rsize = secs[k].rsize
  <2>1. IsTable(out)
    BY <1>10, TableIs DEF IsTable
  <2>2. SameImage(out, x.secs)
    BY <2>1, <1>1, <1>10, <1>12 DEF SameImage
  <2> QED BY <2>2, <1>1, <1>12, SameImageChain
<1>14. y \in Packings
  BY <1>11, <1>13 DEF Packings
<1>15. RawEnd(out[i]) = to + s.rsize
  BY <1>2, <1>12 DEF RawEnd
<1>16. RawEnd(x.secs[i]) <= n => y.end = RawEnd(y.secs[i])
  BY <1>2, <1>6, <1>11, <1>15
<1>17. to <= y.end
  BY <1>11
<1>18. y.secs[i].raw = to
  BY <1>11, <1>12
<1> QED
  BY <1>2, <1>4, <1>5, <1>7, <1>8, <1>11, <1>14, <1>16, <1>17, <1>18

\* The walk over the sections, place by place
PackWalk(t) ==
    /\ t \in [0 .. Len(secs) -> Packings]
    /\ t[0] = [end |-> 0, secs |-> secs, file |-> file] /\ t[Len(secs)] = PackedAll
    /\ \A k \in 1 .. Len(secs) : t[k] = MovedDown(t[k - 1], k)

LEMMA PackedAllIs ==
    ASSUME IsTable(secs), NEW n, FileOf(n)
    PROVE  \E t : PackWalk(t)
<1> DEFINE N == Len(secs)
           S == Packings
           start == [end |-> 0, secs |-> secs, file |-> file]
           Onward == [p \in S \X (1 .. N) |-> MovedDown(p[1], p[2])]
           F(f) == [k \in 0 .. N |-> IF k = 0 THEN start ELSE MovedDown(f[k - 1], k)]
           packed == CHOOSE f : f = F(f)
<1>1. N \in Nat \ {0}
  BY TableIs
<1>2. ASSUME NEW x \in S, NEW k \in 1 .. N PROVE MovedDown(x, k) \in S
  <2>1. CASE Packs(x, k)
    BY <2>1, PackedDown
  <2>2. CASE ~Packs(x, k)
    BY <2>2, NotPacked
  <2> QED BY <2>1, <2>2
<1>3. start \in S
  <2>1. secs \in Seq(Section) /\ file \in [DOMAIN file -> Int]
    BY DEF IsTable, FileOf
  <2>2. start \in [end : Nat, secs : Seq(Section), file : [DOMAIN file -> Int]]
    BY <2>1
  <2>3. start.secs = secs
    BY Zenon
  <2> HIDE DEF start
  <2> QED BY <2>2, <2>3, SameImageSelf DEF Packings
<1>4. Onward \in [S \X (1 .. N) -> S]
  <2> HIDE DEF S, N
  <2> QED BY <1>2
<1> HIDE DEF start
<1>5. PICK f \in [0 .. N -> S] : Iterates(f, start, Onward, N)
  <2>1. N \in Nat
    BY <1>1
  <2> HIDE DEF Onward, N, S
  <2> QED BY <2>1, <1>3, <1>4, Recursion
<1>6. f = F(f)
  <2> HIDE DEF N, S
  <2>1. ASSUME NEW k \in 0 .. N PROVE f[k] = F(f)[k]
    <3>1. CASE k = 0
      BY <1>5, <3>1 DEF Iterates
    <3>2. CASE k # 0
      <4>1. k - 1 \in 0 .. N /\ k \in 1 .. N
        BY <3>2, <1>1
      <4>2. f[k - 1] \in S
        BY <4>1
      <4>3. f[k] = Onward[<<f[k - 1], k>>]
        BY <1>5, <4>1 DEF Iterates
      <4> QED BY <4>1, <4>2, <4>3, <3>2
    <3> QED BY <3>1, <3>2
  <2> QED BY <1>5, <2>1
<1>7. packed = F(packed)
  <2> HIDE DEF F
  <2> QED BY <1>6, Zenon
<1>8. PackedAll = packed[N]
  BY DEF PackedAll, start
<1> HIDE DEF packed
<1>9. /\ packed[0] = start
      /\ \A k \in 1 .. N : packed[k] = MovedDown(packed[k - 1], k)
  <2>1. \A k \in 1 .. N : k \in 0 .. N /\ k # 0
    OBVIOUS
  <2>2. 0 \in 0 .. N
    BY <1>1
  <2> HIDE DEF N
  <2> QED BY <2>1, <2>2, <1>7
<1>10. \A k \in 0 .. N : packed[k] \in S
  <2> DEFINE T == {k \in 0 .. N : packed[k] \in S}
  <2> HIDE DEF S
  <2>1. 0 \in T /\ 0 \in Int /\ N \in Int
    BY <1>1, <1>3, <1>9
  <2>2. ASSUME NEW k \in 0 .. N - 1, k \in T PROVE k + 1 \in T
    <3>1. k + 1 \in 1 .. N /\ k + 1 \in 0 .. N /\ (k + 1) - 1 = k /\ packed[k] \in S
      BY <1>1, <2>2
    <3>2. packed[k + 1] = MovedDown(packed[k], k + 1)
      BY <3>1, <1>9
    <3> QED BY <3>1, <3>2, <1>2
  <2> HIDE DEF T, N
  <2>3. \A k \in 0 .. N : k \in T
    BY <2>1, <2>2, UpFrom
  <2> QED BY <2>3 DEF T
<1>11. DOMAIN packed = 0 .. N /\ packed = [k \in 0 .. N |-> packed[k]]
  <2> DEFINE G == [k \in 0 .. N |-> IF k = 0 THEN start ELSE MovedDown(packed[k - 1], k)]
  <2>1. packed = G
    BY <1>7
  <2>2. G = [k \in DOMAIN G |-> G[k]] /\ DOMAIN G = 0 .. N
    BY Zenon
  <2> HIDE DEF G
  <2> QED BY <2>1, <2>2
<1>12. packed \in [0 .. N -> S]
  <2> HIDE DEF S, N
  <2> QED BY <1>10, <1>11
<1> QED
  BY <1>8, <1>9, <1>12 DEF PackWalk, start

LEMMA PackedAllTyped ==
    ASSUME IsTable(secs), NEW n, FileOf(n)
    PROVE  PackedAll \in Packings
<1>1. PICK t : PackWalk(t)
  BY PackedAllIs
<1>2. Len(secs) \in 0 .. Len(secs)
  BY TableIs
<1> QED
  BY <1>1, <1>2 DEF PackWalk

----------------------------------------------------------------------------
(* The file *)

LEMMA FileEndIs ==
    ASSUME NEW ss, IsTable(ss)
    PROVE  FileEnd(ss) \in Int /\ \A i \in 1 .. Len(ss) : RawEnd(ss[i]) <= FileEnd(ss)
<1> DEFINE e == [i \in 1 .. Len(ss) |-> RawEnd(ss[i])]
           ends == {RawEnd(s) : s \in ToSet(ss)}
<1>1. Len(ss) \in Nat \ {0} /\ \A i \in 1 .. Len(ss) : RawEnd(ss[i]) \in Int
  BY TableIs, SectionIs
<1>2. ends = {e[i] : i \in 1 .. Len(ss)}
  BY TableIs
<1>3. e \in [1 .. Len(ss) -> Int] /\ \A i \in 1 .. Len(ss) : e[i] = RawEnd(ss[i])
  BY <1>1
<1>4. FileEnd(ss) = Max(ends)
  BY DEF FileEnd
<1> HIDE DEF e, ends
<1>5. Max(ends) \in Int /\ \A i \in 1 .. Len(ss) : e[i] <= Max(ends)
  BY <1>1, <1>2, <1>3, GreatestOfAll
<1> QED
  BY <1>3, <1>4, <1>5

LEMMA DumpBufIs ==
    ASSUME NEW a \in Int
    PROVE  DumpBuf(a) \in Int
BY DEF DumpBuf, Live, Hint

\* What was appended has a payload
MadeAreNamed(ss) == \A i \in 1 .. Len(ss) : ss[i].kind = "made" => ss[i].name \in Made

LEMMA WrittenIs ==
    ASSUME NEW ss, IsTable(ss), MadeAreNamed(ss), NEW o \in Int
    PROVE  Written(ss, o) \in Int
<1> DEFINE over == {i \in DOMAIN ss : o \in FileRange(ss[i])}
<1>1. Len(ss) \in Nat /\ over \subseteq 1 .. Len(ss)
  BY TableIs
<1>2. CASE over = {}
  BY <1>2 DEF Written
<1>3. CASE over # {}
  <2>1. over \in SUBSET Int /\ Len(ss) \in Int /\ \A i \in over : i <= Len(ss)
    BY <1>1
  <2>2. Max(over) \in 1 .. Len(ss)
    <3> HIDE DEF over
    <3> QED BY <2>1, <1>1, <1>3, MaxOf
  <2>3. PICK s : s = ss[Max(over)]
    OBVIOUS
  <2>4. s \in Section /\ (s.kind = "made" => s.name \in Made)
    BY <2>2, <2>3, TableIs DEF MadeAreNamed
  <2>5. Written(ss, o) = IF s.kind = "made" THEN Payload(s.name)
                         ELSE DumpBuf(s.va + o - s.raw)
    BY <1>3, <2>3 DEF Written
  <2>6. s.kind = "made" => Payload(s.name) \in Int
    BY <2>4 DEF Payload, Made
  <2>7. s.va + o - s.raw \in Int
    BY <2>4, SectionIs
  <2> QED BY <2>5, <2>6, <2>7, DumpBufIs
<1> QED
  BY <1>2, <1>3

----------------------------------------------------------------------------
(* Steps of the layout *)

LEMMA AppendedIs ==
    ASSUME NEW ss, NEW new \in Section, NEW out, out = Append(ss, new),
           IsTable(ss), Follows(ss), new.va = AlignUp(End(Last(ss)), SA)
    PROVE  /\ IsTable(out) /\ Follows(out) /\ Len(out) = Len(ss) + 1
           /\ \A i \in 1 .. Len(ss) : out[i] = ss[i]
           /\ out[Len(ss) + 1] = new /\ Last(out) = new
<1>1. /\ ss \in Seq(Section) /\ Len(ss) \in Nat \ {0} /\ Last(ss) = ss[Len(ss)]
  BY TableIs DEF IsTable
<1>2. /\ out \in Seq(Section) /\ Len(out) = Len(ss) + 1
      /\ \A i \in 1 .. Len(ss) : out[i] = ss[i]
      /\ out[Len(ss) + 1] = new
  BY <1>1
<1>3. IsTable(out) /\ Last(out) = new
  <2>1. IsTable(out)
    BY <1>1, <1>2 DEF IsTable
  <2> QED BY <2>1, <1>2, TableIs
<1>4. ASSUME NEW i \in 2 .. Len(out) PROVE out[i].va = AlignUp(End(out[i - 1]), SA)
  <2>1. CASE i \in 2 .. Len(ss)
    <3>1. i \in 1 .. Len(ss) /\ i - 1 \in 1 .. Len(ss)
      BY <2>1
    <3> QED BY <2>1, <3>1, <1>2 DEF Follows
  <2>2. CASE i = Len(ss) + 1
    <3>1. i - 1 = Len(ss) /\ Len(ss) \in 1 .. Len(ss)
      BY <2>2, <1>1
    <3> QED BY <2>2, <3>1, <1>1, <1>2
  <2> QED BY <2>1, <2>2, <1>1, <1>2
<1>5. out[1].va = SA
  <2>1. 1 \in 1 .. Len(ss)
    BY <1>1
  <2> QED BY <2>1, <1>2 DEF Follows
<1> QED
  BY <1>2, <1>3, <1>4, <1>5 DEF Follows

\* The section of the relocations is there, once, and its reservation stands
RelocAt(ss, r) ==
    /\ r \in 1 .. Len(ss) /\ ss[r].name = "reloc" /\ ss[r].kind = "made"
    /\ ss[r].rsize <= ss[r].size /\ IsMultiple(ss[r].size, SA)
    /\ \A i \in 1 .. Len(ss) : ss[i].name = "reloc" => i = r

(* The size that is announced for .reloc leaves no hole behind it.         *)
LEMMA AnnouncedIs ==
    ASSUME IsTable(secs), Follows(secs), NEW r, RelocAt(secs, r),
           input.table \in Nat \ {0}, input.table <= secs[r].rsize
    PROVE  /\ Announced(secs[r]) \in Nat \ {0}
           /\ r < Len(secs) => AlignUp(secs[r].va + Announced(secs[r]), SA) = secs[r + 1].va
           /\ r = Len(secs) => Announced(secs[r]) <= secs[r].size
<1> DEFINE N == Len(secs)
           after == {s.va : s \in {t \in ToSet(secs) : t.va > secs[r].va}}
<1>1. /\ N \in Nat \ {0} /\ r \in 1 .. N /\ SA \in Nat \ {0}
      /\ \A i \in 1 .. N : /\ secs[i] \in Section /\ secs[i] \in ToSet(secs)
                           /\ secs[i].va \in Nat /\ secs[i].size \in Nat \ {0}
      /\ \A s \in ToSet(secs) : \E i \in 1 .. N : s = secs[i]
  BY TableIs, SectionIs, SectionsOfFiles DEF RelocAt
<1>2. PICK va \in Nat, size \in Nat \ {0}, rsize \in Nat, n \in Nat \ {0} :
          /\ va = secs[r].va /\ size = secs[r].size /\ rsize = secs[r].rsize
          /\ n = input.table
  BY <1>1, SectionIs
<1>3. n <= size /\ IsMultiple(size, SA) /\ IsMultiple(va, SA)
  <2>1. n <= rsize /\ rsize <= size /\ IsMultiple(size, SA)
    BY <1>2 DEF RelocAt
  <2>2. IsMultiple(va, SA)
    BY <1>1, <1>2, PlaceOf
  <2> QED BY <2>1, <2>2
<1>4. AlignUp(va + n, SA) \in Nat /\ AlignUp(va + n, SA) <= va + size
  <2>1. IsMultiple(va + size, SA) /\ va + n <= va + size /\ va + n \in Nat
    <3>1. SA \in Nat \ {0} /\ n <= size
      BY <1>1, <1>3
    <3>2. IsMultiple(va + size, SA)
      BY <3>1, <1>3, Multiples
    <3>3. va + n <= va + size /\ va + n \in Nat
      <4> HIDE DEF after
      <4> QED BY <3>1
    <3> QED BY <3>2, <3>3
  <2> QED BY <2>1, <1>1, AlignUpLeast, AlignUpIs
<1>5. Announced(secs[r]) = IF after # {} /\ Min(after) > AlignUp(va + n, SA)
                           THEN Min(after) - va ELSE n
  BY <1>2 DEF Announced
<1>6. CASE r = N
  <2>1. \A i \in 1 .. N : ~(secs[i].va > va)
    <3> SUFFICES ASSUME NEW i \in 1 .. N PROVE ~(secs[i].va > va)
      OBVIOUS
    <3>1. CASE i < r
      <4>1. End(secs[i]) <= secs[r].va
        BY <3>1, <1>1, PlaceOf
      <4> QED BY <4>1, <1>1, <1>2, SMTT(40) DEF End
    <3>2. CASE i = r
      BY <3>2, <1>2
    <3> QED BY <3>1, <3>2, <1>1, <1>6
  <2>2. after = {}
    BY <2>1, <1>1, <1>2
  <2> HIDE DEF after
  <2> QED BY <2>2, <1>2, <1>3, <1>5, <1>6
<1>7. CASE r < N
  <2>1. r + 1 \in 1 .. N /\ r + 1 \in 2 .. N /\ (r + 1) - 1 = r
    BY <1>1, <1>7
  <2>2. PICK next \in Nat : next = secs[r + 1].va /\ next = va + size
    <3>1. secs[r + 1].va = AlignUp(End(secs[r]), SA)
      BY <2>1 DEF Follows
    <3>2. AlignUp(End(secs[r]), SA) = secs[r].va + AlignUp(secs[r].size, SA)
      BY <2>1, <1>1, PlaceOf
    <3>3. AlignUp(size, SA) = size
      BY <1>1, <1>3, AlignUpStays
    <3> QED BY <3>1, <3>2, <3>3, <1>2, <2>1
  <2>3. next \in after
    <3>1. PICK s : s = secs[r + 1]
      OBVIOUS
    <3>2. s \in ToSet(secs) /\ s.va = next
      BY <3>1, <2>1, <2>2, <1>1
    <3>3. next > va
      BY <2>2
    <3> QED BY <3>2, <3>3, <1>2
  <2>4. \A x \in after : x \in Nat /\ next <= x
    <3> SUFFICES ASSUME NEW i \in 1 .. N, secs[i].va > va
                 PROVE  secs[i].va \in Nat /\ next <= secs[i].va
      BY <1>1, <1>2
    <3>1. CASE i <= r
      <4>1. ~(i < r)
        <5>1. i < r => End(secs[i]) <= secs[r].va
          BY <1>1, PlaceOf
        <5> QED BY SMTT(60), <5>1, <1>1, <1>2 DEF End
      <4> QED BY <4>1, <3>1, <1>1, <1>2
    <3>2. CASE i = r + 1
      BY <3>2, <2>2
    <3>3. CASE i > r + 1
      <4>1. End(secs[r + 1]) <= secs[i].va
        BY <3>3, <2>1, PlaceOf
      <4> QED BY <4>1, <2>1, <2>2, <1>1 DEF End
    <3> QED BY <3>1, <3>2, <3>3, <1>1
  <2>5. Min(after) = next
    <3>1. after \in SUBSET Int /\ after # {} /\ 0 \in Int /\ \A x \in after : 0 <= x
      BY <2>3, <2>4
    <3> HIDE DEF after
    <3>2. Min(after) \in after /\ \A x \in after : Min(after) <= x
      BY <3>1, MinOf
    <3>3. Min(after) <= next /\ next <= Min(after) /\ Min(after) \in Nat
      BY <3>2, <2>3, <2>4
    <3> QED BY <3>3
  <2>6. after # {}
    BY <2>3
  <2> HIDE DEF after
  <2>7. CASE next > AlignUp(va + n, SA)
    <3>1. Announced(secs[r]) = next - va
      BY <2>5, <2>6, <2>7, <1>5
    <3>2. IsMultiple(next, SA)
      BY <2>1, <2>2, PlaceOf
    <3>3. va + (next - va) = next /\ next - va \in Nat \ {0}
      BY <2>2
    <3>4. AlignUp(next, SA) = next
      BY <3>2, <1>1, AlignUpStays
    <3> QED BY <3>1, <3>3, <3>4, <1>2, <1>7, <2>2
  <2>8. CASE ~(next > AlignUp(va + n, SA))
    <3>1. Announced(secs[r]) = n
      BY <2>5, <2>8, <1>5
    <3>2. AlignUp(va + n, SA) = next
      BY <2>8, <2>2, <1>4
    <3> QED BY <3>1, <3>2, <1>2, <1>7, <2>2
  <2> QED BY <2>7, <2>8
<1> QED
  BY <1>1, <1>6, <1>7

----------------------------------------------------------------------------
(* The layout between the steps *)

Early == {"patch", "shrink", "read"}
Appending == {"pdata", "reloc", "import", "trim"}
Filed == {"fix", "pack", "table", "save", "done", "failed"}

InputOK ==
    /\ input.shrink \in BOOLEAN
    /\ input.pdata \in PdataSizes /\ input.import \in ImportSizes
    /\ input.estimate \in Estimates /\ input.table \in TableSizes

Absent(ss, names) == \A i \in 1 .. Len(ss) : ss[i].name \notin names

\* What has been appended, and where the walk stands
Stage ==
    /\ pc \in Early \union Appending \union {"write"} \union Filed
    /\ pc \in Early => OfDebuggee(secs)
    /\ pc = "pdata" => Absent(secs, Made)
    /\ pc = "reloc" => Absent(secs, {"reloc", "import"})
    /\ pc \in {"import", "trim", "write", "fix", "pack", "table"} /\ input.shrink =>
          \E r : RelocAt(secs, r)
    /\ pc \in {"pack", "table"} => input.shrink
    /\ pc \in Appending => \A i \in 1 .. Len(secs) : 0 <= secs[i].raw
    /\ pc \in Filed => \E n : FileOf(n)
    /\ pc \notin Filed => file = <<>>

Flags ==
    /\ base \in {"runtime", "file"} /\ dynamic \in BOOLEAN /\ hinted \in BOOLEAN
    /\ dumped \in Nat

LayoutInv ==
    /\ InputOK /\ Stage /\ Flags
    /\ IsTable(secs) /\ Follows(secs) /\ MadeAreNamed(secs)
    /\ secs[1].kind = "code"
    /\ soi \in Nat /\ End(Last(secs)) <= soi

LEMMA OfDebuggeeIs ==
    ASSUME NEW ss, OfDebuggee(ss)
    PROVE  /\ IsTable(ss) /\ MadeAreNamed(ss) /\ ss[1].kind = "code"
           /\ Absent(ss, Made) /\ Kept(ss[1])
           /\ \A i \in 1 .. Len(ss) : ss[i].kind # "made" /\ ss[i].raw = 0
BY DEF OfDebuggee, Recorded, MadeAreNamed, Absent, Live0, Kept

LEMMA EndOfImage ==
    ASSUME NEW ss, IsTable(ss)
    PROVE  ImageEnd(ss) \in Nat /\ End(Last(ss)) <= ImageEnd(ss)
<1>1. End(Last(ss)) \in Nat /\ SA \in Nat \ {0}
  BY TableIs, SectionIs, SectionsOfFiles
<1> QED
  BY <1>1, AlignUpIs DEF ImageEnd

(* shrink_sections: what is left is an image as before, without holes.     *)
LEMMA CompactedIs ==
    ASSUME NEW ss, OfDebuggee(ss)
    PROVE  OfDebuggee(Compacted(WithoutRemoved(ss))) /\ Follows(Compacted(WithoutRemoved(ss)))
<1>1. IsTable(ss) /\ Kept(ss[1])
  BY OfDebuggeeIs
<1>2. PICK kept : kept = WithoutRemoved(ss)
  OBVIOUS
<1>3. /\ IsTable(kept) /\ kept[1] = ss[1]
      /\ \A k \in 1 .. Len(kept) :
            Kept(kept[k]) /\ \E i \in 1 .. Len(ss) : kept[k] = ss[i] /\ (1 < k => 1 < i)
  BY <1>1, <1>2, KeptAre
<1>4. PICK out : out = LaidOut(kept)
  OBVIOUS
<1>5. /\ IsTable(out) /\ Len(out) = Len(kept) /\ Follows(out)
      /\ \A i \in 1 .. Len(kept) : \E n \in Nat : out[i] = [kept[i] EXCEPT !.va = n]
  <2>1. IsTable(kept)
    BY <1>3
  <2>2. /\ IsTable(LaidOut(kept)) /\ Len(LaidOut(kept)) = Len(kept)
        /\ Follows(LaidOut(kept))
        /\ \A i \in 1 .. Len(kept) : \E n \in Nat : LaidOut(kept)[i] = [kept[i] EXCEPT !.va = n]
    BY <2>1, LaidOutIs
  <2> QED BY <2>2, <1>4, Zenon
<1>6. ASSUME NEW i \in 1 .. Len(kept)
      PROVE  /\ out[i].kind = kept[i].kind /\ out[i].name = kept[i].name
             /\ out[i].raw = kept[i].raw /\ out[i].used = kept[i].used
             /\ out[i].size = kept[i].size
  <2>1. PICK n \in Nat : out[i] = [kept[i] EXCEPT !.va = n]
    BY <1>5
  <2>2. kept[i] \in Section
    BY <1>3, TableIs
  <2> QED BY <2>1, <2>2 DEF Section
<1>7. ASSUME NEW i \in 1 .. Len(out)
      PROVE  /\ Recorded(out[i]) /\ (1 < i => out[i].kind # "code")
             /\ out[i].kind # "shell"
  <2>1. PICK k \in 1 .. Len(ss) : Kept(kept[i]) /\ kept[i] = ss[k] /\ (1 < i => 1 < k)
    BY <1>3, <1>5
  <2>2. /\ out[i].kind = ss[k].kind /\ out[i].name = ss[k].name /\ out[i].raw = ss[k].raw
        /\ out[i].used = ss[k].used /\ out[i].size = ss[k].size
    BY <2>1, <1>5, <1>6
  <2>3. Recorded(ss[k]) /\ (1 < k => ss[k].kind # "code")
    <3>1. 1 < k => k \in 2 .. Len(ss)
      BY <1>1, TableIs
    <3> QED BY <3>1 DEF OfDebuggee
  <2>4. out[i].kind # "shell"
    BY <2>1, <2>2 DEF Kept
  <2> QED BY <2>1, <2>2, <2>3, <2>4 DEF Recorded
<1>8. out[1].kind = "code" /\ out[1].size = SA - 1
  <2>1. 1 \in 1 .. Len(kept)
    BY <1>3, TableIs
  <2> QED BY <2>1, <1>3, <1>6 DEF OfDebuggee
<1>9. Compacted(WithoutRemoved(ss)) = out
  BY <1>2, <1>4 DEF Compacted
<1>10. \A i \in 2 .. Len(out) : i \in 1 .. Len(out) /\ 1 < i
  BY <1>5, TableIs
<1> QED
  BY <1>5, <1>7, <1>8, <1>9, <1>10 DEF OfDebuggee

\* What does not depend on the step that is next
Sound ==
    /\ IsTable(secs) /\ Follows(secs) /\ MadeAreNamed(secs)
    /\ secs[1].kind = "code"
    /\ soi \in Nat /\ End(Last(secs)) <= soi

LEMMA SameLayout ==
    ASSUME Sound, NEW ss, SameImage(ss, secs),
           \A i \in 1 .. Len(secs) : ss[i].rsize <= secs[i].rsize
    PROVE  /\ IsTable(ss) /\ Follows(ss) /\ MadeAreNamed(ss) /\ ss[1].kind = "code"
           /\ End(Last(ss)) <= soi
           /\ \A r : RelocAt(secs, r) => RelocAt(ss, r)
           /\ \A names : Absent(secs, names) => Absent(ss, names)
<1>1. /\ IsTable(secs) /\ IsTable(ss) /\ Len(ss) = Len(secs) /\ 1 \in 1 .. Len(secs)
      /\ \A i \in 1 .. Len(secs) :
            /\ ss[i].kind = secs[i].kind /\ ss[i].name = secs[i].name
            /\ ss[i].size = secs[i].size
            /\ ss[i].rsize \in Nat /\ secs[i].rsize \in Nat /\ secs[i].size \in Nat
  <2>1. IsTable(secs) /\ IsTable(ss) /\ Len(ss) = Len(secs)
    BY DEF Sound, SameImage
  <2>2. \A i \in 1 .. Len(secs) : ss[i] \in Section /\ secs[i] \in Section
    BY <2>1, TableIs
  <2>3. \A i \in 1 .. Len(secs) :
           ss[i].rsize \in Nat /\ secs[i].rsize \in Nat /\ secs[i].size \in Nat
    BY <2>2, SectionIs
  <2>4. 1 \in 1 .. Len(secs)
    BY <2>1, TableIs
  <2> QED BY <2>1, <2>3, <2>4 DEF SameImage
<1>2. Follows(ss) /\ End(Last(ss)) <= soi
  BY <1>1, SameImageFollows DEF Sound
<1>3. MadeAreNamed(ss) /\ ss[1].kind = "code"
  BY <1>1 DEF Sound, MadeAreNamed
<1>4. ASSUME NEW r, RelocAt(secs, r) PROVE RelocAt(ss, r)
  <2>1. /\ r \in 1 .. Len(secs) /\ ss[r].name = "reloc" /\ ss[r].kind = "made"
        /\ IsMultiple(ss[r].size, SA)
    BY <1>1, <1>4 DEF RelocAt
  <2>2. ss[r].rsize <= ss[r].size
    BY <2>1, <1>1, <1>4 DEF RelocAt
  <2> QED BY <2>1, <2>2, <1>1, <1>4 DEF RelocAt
<1>5. \A names : Absent(secs, names) => Absent(ss, names)
  BY <1>1 DEF Absent
<1> QED
  BY <1>1, <1>2, <1>3, <1>4, <1>5

LEMMA InputIs ==
    ASSUME InputOK
    PROVE  /\ input.pdata \in Nat /\ input.import \in Nat /\ input.estimate \in Nat
           /\ input.table \in Nat \ {0}
BY DumpAssumption DEF InputOK

LEMMA ReservationIs ==
    ASSUME InputOK
    PROVE  /\ Reservation \in Nat \ {0} /\ IsMultiple(Reservation, SA)
           /\ input.estimate <= Reservation
           /\ Reservation \in {SA, Reserve, AlignUp(input.estimate, SA)}
<1> DEFINE est == AlignUp(input.estimate, SA)
           S == {SA, Reserve, est}
<1>1. /\ SA \in Nat \ {0} /\ Reserve \in Nat /\ IsMultiple(Reserve, SA)
  BY DumpAssumption, NoRemainder
<1>2. input.estimate \in Nat
  BY InputIs
<1>3. est \in Nat /\ input.estimate <= est /\ IsMultiple(est, SA)
  BY <1>1, <1>2, AlignUpIs
<1>4. IsMultiple(SA, SA)
  <2>1. SA = 1 * SA
    BY <1>1
  <2> QED BY <2>1 DEF IsMultiple
<1>5. Reservation = Max(S)
  BY DEF Reservation
<1> HIDE DEF est
<1>6. PICK hi \in Int : SA <= hi /\ Reserve <= hi /\ est <= hi
  <2>1. SA + Reserve + est \in Int /\ SA <= SA + Reserve + est
        /\ Reserve <= SA + Reserve + est /\ est <= SA + Reserve + est
    BY <1>1, <1>3
  <2> QED BY <2>1
<1>7. S \in SUBSET Int /\ S # {} /\ \A x \in S : x <= hi
  BY <1>1, <1>3, <1>6
<1>8. Max(S) \in S /\ \A x \in S : x <= Max(S)
  <2> HIDE DEF S
  <2> QED BY <1>7, MaxOf
<1>9. SA <= Max(S) /\ est <= Max(S) /\ Max(S) \in Nat /\ IsMultiple(Max(S), SA)
  BY <1>1, <1>3, <1>4, <1>8
<1>10. Max(S) \in {SA, Reserve, est}
  BY <1>8
<1> HIDE DEF S
<1>11. Max(S) \in Nat \ {0} /\ input.estimate <= Max(S)
  BY <1>1, <1>2, <1>3, <1>9
<1> QED
  BY <1>5, <1>9, <1>10, <1>11 DEF est

LEMMA LayoutInit ==
    Init => LayoutInv
<1> SUFFICES ASSUME Init PROVE LayoutInv
  OBVIOUS
<1>1. /\ live \in Images /\ secs = live /\ soi = ImageEnd(live) /\ pc = "patch"
      /\ base = "runtime" /\ dynamic = TRUE /\ dumped = 0 /\ hinted = FALSE /\ file = <<>>
  BY DEF Init
<1>2. InputOK
  <2>1. input \in [arch : {"x86", "x64"}, shrink : BOOLEAN,
                   disk : {"unreadable", "same", "other"},
                   pdata : PdataSizes, import : ImportSizes, iat : IatSlots \union {0},
                   estimate : Estimates, table : TableSizes]
    BY DEF Init
  <2> QED BY <2>1 DEF InputOK
<1>3. OfDebuggee(secs) /\ Follows(secs)
  BY <1>1, ImageIs
<1>4. IsTable(secs) /\ MadeAreNamed(secs) /\ secs[1].kind = "code"
  BY <1>3, OfDebuggeeIs
<1>5. soi \in Nat /\ End(Last(secs)) <= soi
  BY <1>1, <1>4, EndOfImage
<1>6. Stage
  BY <1>1, <1>3 DEF Stage, Early, Appending, Filed
<1>7. Flags
  BY <1>1 DEF Flags
<1> QED
  BY <1>2, <1>3, <1>4, <1>5, <1>6, <1>7 DEF LayoutInv

LEMMA LayoutIsSound ==
    ASSUME LayoutInv
    PROVE  Sound /\ InputOK /\ Stage /\ Flags
BY DEF LayoutInv, Sound

LEMMA LayoutFromParts ==
    ASSUME InputOK', Stage', Flags', Sound'
    PROVE  LayoutInv'
BY DEF LayoutInv, Sound

LEMMA LayoutPatch ==
    ASSUME LayoutInv, PatchHeader
    PROVE  LayoutInv'
<1>1. /\ pc = "patch" /\ pc' = "shrink"
      /\ UNCHANGED <<input, live, secs, soi, dumped, hinted, file, table>>
      /\ base' \in {base, "file"} /\ dynamic' \in BOOLEAN
  BY DEF PatchHeader, Step
<1>2. Sound' /\ InputOK'
  BY <1>1, LayoutIsSound DEF Sound, InputOK
<1>3. Stage'
  <2>1. OfDebuggee(secs) /\ file = <<>>
    BY <1>1, LayoutIsSound DEF Stage, Early, Filed
  <2> QED BY <1>1, <2>1 DEF Stage, Early, Appending, Filed
<1>4. Flags'
  BY <1>1, LayoutIsSound DEF Flags
<1> QED
  BY <1>2, <1>3, <1>4, LayoutFromParts

LEMMA LayoutShrink ==
    ASSUME LayoutInv, ShrinkSections
    PROVE  LayoutInv'
<1>1. /\ pc = "shrink" /\ pc' = "read"
      /\ UNCHANGED <<input, live, base, dynamic, dumped, hinted, file, table>>
  BY DEF ShrinkSections, Step
<1>2. OfDebuggee(secs) /\ file = <<>>
  BY <1>1, LayoutIsSound DEF Stage, Early, Filed
<1>3. Sound' /\ OfDebuggee(secs')
  <2>1. CASE UNCHANGED <<secs, soi>>
    BY <2>1, <1>2, LayoutIsSound DEF Sound
  <2>2. CASE secs' = Compacted(WithoutRemoved(secs)) /\ soi' = ImageEnd(secs')
    <3>1. OfDebuggee(secs') /\ Follows(secs')
      BY <2>2, <1>2, CompactedIs
    <3>2. IsTable(secs') /\ MadeAreNamed(secs') /\ secs'[1].kind = "code"
      BY <3>1, OfDebuggeeIs
    <3>3. soi' \in Nat /\ End(Last(secs')) <= soi'
      BY <2>2, <3>2, EndOfImage
    <3> QED BY <3>1, <3>2, <3>3 DEF Sound
  <2> QED BY <2>1, <2>2 DEF ShrinkSections
<1>4. Stage'
  BY <1>1, <1>2, <1>3 DEF Stage, Early, Appending, Filed
<1>5. InputOK' /\ Flags'
  BY <1>1, LayoutIsSound DEF Flags, InputOK
<1> QED
  BY <1>3, <1>4, <1>5, LayoutFromParts

\* The table as it is read: the file mirrors memory
LEMMA ReadIs ==
    ASSUME OfDebuggee(secs), NEW ss, ss = [i \in DOMAIN secs |-> Sanitized(secs[i])]
    PROVE  /\ SameImage(ss, secs)
           /\ \A i \in 1 .. Len(secs) :
                 /\ ss[i].raw = secs[i].va
                 /\ ss[i].rsize = IF Zeroed(secs[i]) THEN 0 ELSE secs[i].size
<1>1. /\ IsTable(secs) /\ Len(secs) \in Nat \ {0} /\ DOMAIN secs = 1 .. Len(secs)
      /\ \A i \in 1 .. Len(secs) : secs[i] \in Section
  BY TableIs DEF OfDebuggee
<1>2. ASSUME NEW s \in Section
      PROVE  /\ Sanitized(s) \in Section
             /\ Sanitized(s).kind = s.kind /\ Sanitized(s).name = s.name
             /\ Sanitized(s).at = s.at /\ Sanitized(s).used = s.used
             /\ Sanitized(s).va = s.va /\ Sanitized(s).size = s.size
             /\ Sanitized(s).raw = s.va
             /\ Sanitized(s).rsize = IF Zeroed(s) THEN 0 ELSE s.size
  <2>1. PICK va \in Nat, size \in Nat : va = s.va /\ size = s.size
    BY SectionIs
  <2>2. PICK n \in Nat : n = IF Zeroed(s) THEN 0 ELSE s.size
    BY <2>1
  <2>3. PICK a : a = [s EXCEPT !.raw = va]
    OBVIOUS
  <2>4. /\ a \in Section /\ a.kind = s.kind /\ a.name = s.name /\ a.at = s.at
        /\ a.used = s.used /\ a.va = s.va /\ a.size = s.size /\ a.raw = va
    <3>1. va \in Int
      OBVIOUS
    <3> QED BY <2>3, <3>1, MovedIs
  <2>5. PICK b : b = [a EXCEPT !.rsize = n]
    OBVIOUS
  <2>6. /\ b \in Section /\ b.kind = a.kind /\ b.name = a.name /\ b.at = a.at
        /\ b.used = a.used /\ b.va = a.va /\ b.size = a.size
        /\ b.raw = a.raw /\ b.rsize = n
    BY <2>4, <2>5, ResizedIs
  <2>7. Sanitized(s) = b
    BY <2>1, <2>2, <2>3, <2>5, Zenon DEF Sanitized
  <2> QED BY <2>1, <2>2, <2>4, <2>6, <2>7
<1>3. \A i \in 1 .. Len(secs) : ss[i] = Sanitized(secs[i])
  BY <1>1
<1>4. ss \in Seq(Section) /\ Len(ss) = Len(secs)
  <2>1. ss \in [1 .. Len(secs) -> Section]
    BY <1>1, <1>2
  <2> QED BY <2>1, <1>1
<1> QED
  BY <1>1, <1>2, <1>3, <1>4 DEF SameImage, IsTable

LEMMA LayoutRead ==
    ASSUME LayoutInv, ReadImage
    PROVE  LayoutInv'
<1>1. /\ pc = "read" /\ pc' = "pdata" /\ dumped' = soi
      /\ secs' = [i \in DOMAIN secs |-> Sanitized(secs[i])]
      /\ UNCHANGED <<input, live, soi, base, dynamic, hinted, file, table>>
  BY DEF ReadImage, Step
<1>2. OfDebuggee(secs) /\ file = <<>> /\ Absent(secs, Made) /\ Sound
  BY <1>1, LayoutIsSound, OfDebuggeeIs DEF Stage, Early, Filed
<1>3. PICK ss : ss = secs'
  OBVIOUS
<1>4. /\ SameImage(ss, secs)
      /\ \A i \in 1 .. Len(secs) : ss[i].raw = secs[i].va
  BY <1>1, <1>2, <1>3, ReadIs
<1>5. IsTable(secs) /\ IsTable(ss) /\ Len(ss) = Len(secs)
  BY <1>2, <1>4 DEF Sound, SameImage
<1>6. Follows(ss) /\ End(Last(ss)) <= soi
  BY <1>2, <1>4, <1>5, SameImageFollows DEF Sound
<1>7. MadeAreNamed(ss) /\ Absent(ss, Made) /\ ss[1].kind = "code"
  <2>1. 1 \in 1 .. Len(secs)
    BY <1>5, TableIs
  <2> QED BY <2>1, <1>2, <1>4, <1>5 DEF Sound, SameImage, MadeAreNamed, Absent
<1>8. \A i \in 1 .. Len(ss) : 0 <= ss[i].raw
  <2>1. \A i \in 1 .. Len(secs) : secs[i] \in Section
    BY <1>5, TableIs
  <2>2. \A i \in 1 .. Len(secs) : secs[i].va \in Nat
    BY <2>1, SectionIs
  <2> QED BY <2>2, <1>4, <1>5
<1>9. Sound'
  BY <1>1, <1>2, <1>3, <1>5, <1>6, <1>7 DEF Sound
<1>10. Stage'
  BY <1>1, <1>2, <1>3, <1>7, <1>8 DEF Stage, Early, Appending, Filed
<1>11. InputOK' /\ Flags'
  BY <1>1, <1>2, LayoutIsSound DEF Flags, InputOK, Sound
<1> QED
  BY <1>9, <1>10, <1>11, LayoutFromParts

LEMMA AppendLayout ==
    ASSUME NEW name \in Made, NEW n \in Nat \ {0}, NEW ss, ss = WithSection(name, n),
           Sound, \A i \in 1 .. Len(secs) : 0 <= secs[i].raw
    PROVE  /\ IsTable(ss) /\ Follows(ss) /\ MadeAreNamed(ss) /\ ss[1].kind = "code"
           /\ Len(ss) = Len(secs) + 1
           /\ \A i \in 1 .. Len(secs) : ss[i] = secs[i]
           /\ \A i \in 1 .. Len(ss) : 0 <= ss[i].raw
           /\ ss[Len(ss)].name = name /\ ss[Len(ss)].kind = "made"
           /\ ss[Len(ss)].size = n /\ ss[Len(ss)].rsize = AlignUp(n, FA)
           /\ \A i \in 1 .. Len(secs) : RawEnd(secs[i]) <= ss[Len(ss)].raw
<1>1. /\ IsTable(secs) /\ Follows(secs) /\ Len(secs) \in Nat \ {0}
      /\ \A i \in 1 .. Len(secs) : secs[i] \in Section
  BY TableIs DEF Sound
<1>2. \A i \in 1 .. Len(secs) : 0 <= RawEnd(secs[i])
  <2>1. \A i \in 1 .. Len(secs) : secs[i].raw \in Int /\ secs[i].rsize \in Nat
    BY <1>1, SectionIs
  <2> QED BY <2>1 DEF RawEnd
<1>3. name \in SecNames
  BY DEF Made, SecNames
<1>4. PICK new \in Section :
          /\ ss = Append(secs, new)
          /\ new.kind = "made" /\ new.name = name /\ new.at = 0
          /\ new.size = n /\ new.rsize = AlignUp(n, FA)
          /\ new.va = AlignUp(End(Last(secs)), SA)
          /\ IsMultiple(new.raw, FA)
          /\ \E i \in 1 .. Len(secs) : new.raw = AlignUp(RawEnd(secs[i]), FA)
          /\ \A i \in 1 .. Len(secs) : RawEnd(secs[i]) <= new.raw
  <2>1. IsTable(secs) /\ \A i \in 1 .. Len(secs) : 0 <= RawEnd(secs[i])
    BY <1>1, <1>2
  <2> QED BY <2>1, <1>3, NewSectionIs, SMTT(40)
<1>5. /\ IsTable(ss) /\ Follows(ss) /\ Len(ss) = Len(secs) + 1
      /\ \A i \in 1 .. Len(secs) : ss[i] = secs[i]
      /\ ss[Len(ss)] = new /\ Last(ss) = new
  <2>1. /\ IsTable(secs) /\ Follows(secs) /\ ss = Append(secs, new)
        /\ new.va = AlignUp(End(Last(secs)), SA)
    BY <1>1, <1>4
  <2>2. /\ IsTable(ss) /\ Follows(ss) /\ Len(ss) = Len(secs) + 1
        /\ \A i \in 1 .. Len(secs) : ss[i] = secs[i]
        /\ ss[Len(secs) + 1] = new /\ Last(ss) = new
    BY <2>1, AppendedIs
  <2> QED BY <2>2
<1>6. new.raw \in Nat /\ 0 <= new.raw
  <2>1. FA \in Nat \ {0}
    BY SectionsOfFiles
  <2>2. new.raw \in Nat
    BY <2>1, <1>4, Multiples
  <2> QED BY <2>2
<1>7. ASSUME NEW i \in 1 .. Len(ss) PROVE ss[i] = new \/ (i \in 1 .. Len(secs) /\ ss[i] = secs[i])
  <2>1. i = Len(ss) \/ i \in 1 .. Len(secs)
    BY <1>1, <1>5
  <2> QED BY <2>1, <1>5
<1>8. MadeAreNamed(ss) /\ \A i \in 1 .. Len(ss) : 0 <= ss[i].raw
  BY <1>4, <1>6, <1>7 DEF Sound, MadeAreNamed
<1>9. ss[1].kind = "code"
  <2>1. 1 \in 1 .. Len(secs)
    BY <1>1
  <2> QED BY <2>1, <1>5 DEF Sound
<1>11. /\ ss[Len(ss)].name = name /\ ss[Len(ss)].kind = "made"
       /\ ss[Len(ss)].size = n /\ ss[Len(ss)].rsize = AlignUp(n, FA)
       /\ \A i \in 1 .. Len(secs) : RawEnd(secs[i]) <= ss[Len(ss)].raw
  BY <1>4, <1>5
<1> QED
  BY <1>5, <1>8, <1>9, <1>11

LEMMA GrownIs ==
    ASSUME NEW ss, IsTable(ss), NEW provisional \in Nat, soi \in Nat
    PROVE  Grown(ss, provisional) \in Nat /\ End(Last(ss)) <= Grown(ss, provisional)
<1>1. End(Last(ss)) \in Nat
  BY TableIs, SectionIs
<1>2. AlignUp(provisional, SA) \in Nat
  BY SectionsOfFiles, AlignUpIs
<1> QED
  BY <1>1, <1>2 DEF Grown

LEMMA LayoutPdata ==
    ASSUME LayoutInv, CreatePdata
    PROVE  LayoutInv'
<1>1. /\ pc = "pdata" /\ pc' = "reloc"
      /\ UNCHANGED <<input, live, base, dynamic, dumped, hinted, file, table>>
  BY DEF CreatePdata, Step
<1>2. /\ Absent(secs, Made) /\ file = <<>> /\ Sound
      /\ \A i \in 1 .. Len(secs) : 0 <= secs[i].raw
  BY <1>1, LayoutIsSound DEF Stage, Appending, Filed
<1>3. /\ Sound' /\ Absent(secs', {"reloc", "import"})
      /\ \A i \in 1 .. Len(secs') : 0 <= secs'[i].raw
  <2>1. CASE UNCHANGED <<secs, soi>>
    BY <2>1, <1>2 DEF Sound, Absent, Made
  <2>2. CASE /\ input.pdata > 0
             /\ secs' = WithSection("pdata", input.pdata) /\ soi' = Grown(secs', input.pdata)
    <3>1. input.pdata \in Nat \ {0} /\ input.pdata \in Nat /\ "pdata" \in Made
      BY <2>2, LayoutIsSound, InputIs DEF Made
    <3>2. PICK ss : ss = secs'
      OBVIOUS
    <3>3. /\ IsTable(ss) /\ Follows(ss) /\ MadeAreNamed(ss) /\ ss[1].kind = "code"
          /\ soi' \in Nat /\ End(Last(ss)) <= soi'
          /\ Len(ss) = Len(secs) + 1
          /\ \A i \in 1 .. Len(secs) : ss[i] = secs[i]
          /\ \A i \in 1 .. Len(ss) : 0 <= ss[i].raw
          /\ ss[Len(ss)].name = "pdata" /\ ss[Len(ss)].kind = "made"
          /\ ss[Len(ss)].size = input.pdata /\ ss[Len(ss)].rsize = AlignUp(input.pdata, FA)
          /\ \A i \in 1 .. Len(secs) : RawEnd(secs[i]) <= ss[Len(ss)].raw
      <4>1. ss = WithSection("pdata", input.pdata) /\ soi' = Grown(ss, input.pdata)
        BY <2>2, <3>2
      <4>2. /\ IsTable(ss) /\ Follows(ss) /\ MadeAreNamed(ss) /\ ss[1].kind = "code"
            /\ Len(ss) = Len(secs) + 1
            /\ \A i \in 1 .. Len(secs) : ss[i] = secs[i]
            /\ \A i \in 1 .. Len(ss) : 0 <= ss[i].raw
            /\ ss[Len(ss)].name = "pdata" /\ ss[Len(ss)].kind = "made"
            /\ ss[Len(ss)].size = input.pdata /\ ss[Len(ss)].rsize = AlignUp(input.pdata, FA)
            /\ \A i \in 1 .. Len(secs) : RawEnd(secs[i]) <= ss[Len(ss)].raw
        <5>1. /\ Sound /\ \A i \in 1 .. Len(secs) : 0 <= secs[i].raw
              /\ "pdata" \in Made /\ input.pdata \in Nat \ {0} /\ input.pdata \in Nat
              /\ ss = WithSection("pdata", input.pdata)
          BY <4>1, <3>1, <1>2
        <5> QED BY <5>1, AppendLayout
      <4>3. Grown(ss, input.pdata) \in Nat /\ End(Last(ss)) <= Grown(ss, input.pdata)
        BY <4>2, <3>1, <1>2, GrownIs DEF Sound
      <4> QED BY <4>1, <4>2, <4>3
    <3>4. Absent(ss, {"reloc", "import"})
      <4>1. Len(secs) \in Nat
        BY <1>2, TableIs DEF Sound
      <4>2. \A i \in 1 .. Len(ss) : i \in 1 .. Len(secs) \/ i = Len(ss)
        BY <3>3, <4>1
      <4> QED BY <3>3, <4>2, <1>2 DEF Absent, Made
    <3> QED BY <3>2, <3>3, <3>4 DEF Sound
  <2> QED BY <2>1, <2>2 DEF CreatePdata
<1>4. Stage'
  BY <1>1, <1>2, <1>3 DEF Stage, Early, Appending, Filed
<1>5. InputOK' /\ Flags'
  BY <1>1, LayoutIsSound DEF Flags, InputOK
<1> QED
  BY <1>3, <1>4, <1>5, LayoutFromParts

LEMMA LayoutReloc ==
    ASSUME LayoutInv, CreateReloc
    PROVE  LayoutInv'
<1>1. /\ pc = "reloc" /\ pc' = "import"
      /\ UNCHANGED <<input, live, base, dynamic, dumped, hinted, file, table>>
  BY DEF CreateReloc, Step
<1>2. /\ Absent(secs, {"reloc", "import"}) /\ file = <<>> /\ Sound /\ InputOK
      /\ \A i \in 1 .. Len(secs) : 0 <= secs[i].raw
  BY <1>1, LayoutIsSound DEF Stage, Appending, Filed
<1>3. /\ Sound' /\ \A i \in 1 .. Len(secs') : 0 <= secs'[i].raw
      /\ input.shrink => \E r : RelocAt(secs', r)
  <2>1. CASE ~input.shrink /\ UNCHANGED <<secs, soi>>
    BY <2>1, <1>2 DEF Sound
  <2>2. CASE /\ secs' = WithSection("reloc", Reservation)
             /\ soi' = Grown(secs', Reservation)
    <3>1. /\ Reservation \in Nat \ {0} /\ Reservation \in Nat /\ IsMultiple(Reservation, SA)
          /\ "reloc" \in Made
      BY <1>2, ReservationIs DEF Made
    <3>2. PICK ss : ss = secs'
      OBVIOUS
    <3>3. /\ IsTable(ss) /\ Follows(ss) /\ MadeAreNamed(ss) /\ ss[1].kind = "code"
          /\ soi' \in Nat /\ End(Last(ss)) <= soi'
          /\ Len(ss) = Len(secs) + 1
          /\ \A i \in 1 .. Len(secs) : ss[i] = secs[i]
          /\ \A i \in 1 .. Len(ss) : 0 <= ss[i].raw
          /\ ss[Len(ss)].name = "reloc" /\ ss[Len(ss)].kind = "made"
          /\ ss[Len(ss)].size = Reservation /\ ss[Len(ss)].rsize = AlignUp(Reservation, FA)
          /\ \A i \in 1 .. Len(secs) : RawEnd(secs[i]) <= ss[Len(ss)].raw
      <4>1. ss = WithSection("reloc", Reservation) /\ soi' = Grown(ss, Reservation)
        BY <2>2, <3>2
      <4>2. /\ IsTable(ss) /\ Follows(ss) /\ MadeAreNamed(ss) /\ ss[1].kind = "code"
            /\ Len(ss) = Len(secs) + 1
            /\ \A i \in 1 .. Len(secs) : ss[i] = secs[i]
            /\ \A i \in 1 .. Len(ss) : 0 <= ss[i].raw
            /\ ss[Len(ss)].name = "reloc" /\ ss[Len(ss)].kind = "made"
            /\ ss[Len(ss)].size = Reservation /\ ss[Len(ss)].rsize = AlignUp(Reservation, FA)
            /\ \A i \in 1 .. Len(secs) : RawEnd(secs[i]) <= ss[Len(ss)].raw
        <5>1. /\ Sound /\ \A i \in 1 .. Len(secs) : 0 <= secs[i].raw
              /\ "reloc" \in Made /\ Reservation \in Nat \ {0} /\ Reservation \in Nat
              /\ ss = WithSection("reloc", Reservation)
          BY <4>1, <3>1, <1>2
        <5> QED BY <5>1, AppendLayout
      <4>3. Grown(ss, Reservation) \in Nat /\ End(Last(ss)) <= Grown(ss, Reservation)
        BY <4>2, <3>1, <1>2, GrownIs DEF Sound
      <4> QED BY <4>1, <4>2, <4>3
    <3>4. AlignUp(Reservation, FA) = Reservation
      BY <3>1, SectionsOfFiles, AlignUpStays
    <3>5. RelocAt(ss, Len(ss))
      <4>1. Len(secs) \in Nat \ {0}
        BY <1>2, TableIs DEF Sound
      <4>2. \A i \in 1 .. Len(ss) : i \in 1 .. Len(secs) \/ i = Len(ss)
        BY <3>3, <4>1
      <4>3. \A i \in 1 .. Len(ss) : ss[i].name = "reloc" => i = Len(ss)
        BY <3>3, <4>2, <1>2 DEF Absent
      <4>4. Len(ss) \in 1 .. Len(ss)
        BY <3>3, <4>1
      <4>5. ss[Len(ss)].rsize <= ss[Len(ss)].size
        BY <3>1, <3>3, <3>4
      <4> QED BY <3>1, <3>3, <4>3, <4>4, <4>5 DEF RelocAt
    <3> QED BY <3>2, <3>3, <3>5 DEF Sound
  <2> QED BY <2>1, <2>2 DEF CreateReloc
<1>4. Stage'
  BY <1>1, <1>2, <1>3 DEF Stage, Early, Appending, Filed
<1>5. InputOK' /\ Flags'
  BY <1>1, LayoutIsSound DEF Flags, InputOK
<1> QED
  BY <1>3, <1>4, <1>5, LayoutFromParts

\* The size of the section that create_import_section makes
ImportSize ==
    IF AlignUp(input.import, FA) < ImportMin THEN ImportMin ELSE AlignUp(input.import, FA)

LEMMA LayoutImport ==
    ASSUME LayoutInv, CreateImport
    PROVE  LayoutInv'
<1>1. /\ pc = "import" /\ pc' = "trim"
      /\ UNCHANGED <<input, live, base, dynamic, dumped, file, table>>
  BY DEF CreateImport, Step
<1>2. /\ file = <<>> /\ Sound /\ InputOK
      /\ \A i \in 1 .. Len(secs) : 0 <= secs[i].raw
      /\ input.shrink => \E r : RelocAt(secs, r)
  BY <1>1, LayoutIsSound DEF Stage, Appending, Filed
<1>3. /\ Sound' /\ \A i \in 1 .. Len(secs') : 0 <= secs'[i].raw
      /\ input.shrink => \E r : RelocAt(secs', r)
      /\ hinted' \in {hinted, TRUE}
  <2>1. CASE UNCHANGED <<secs, soi, hinted>>
    BY <2>1, <1>2 DEF Sound
  <2>2. CASE /\ secs' = WithSection("import", ImportSize)
             /\ soi' = Grown(secs', ImportInit) /\ hinted' = TRUE
    <3>1. /\ ImportSize \in Nat \ {0} /\ ImportInit \in Nat /\ "import" \in Made
      <4>1. AlignUp(input.import, FA) \in Nat
        BY <1>2, InputIs, SectionsOfFiles, AlignUpIs
      <4>2. ImportMin \in Nat \ {0} /\ ImportInit \in Nat
        BY DumpAssumption
      <4> QED BY <4>1, <4>2 DEF ImportSize, Made
    <3>2. PICK ss : ss = secs'
      OBVIOUS
    <3>3. /\ IsTable(ss) /\ Follows(ss) /\ MadeAreNamed(ss) /\ ss[1].kind = "code"
          /\ soi' \in Nat /\ End(Last(ss)) <= soi'
          /\ Len(ss) = Len(secs) + 1
          /\ \A i \in 1 .. Len(secs) : ss[i] = secs[i]
          /\ \A i \in 1 .. Len(ss) : 0 <= ss[i].raw
          /\ ss[Len(ss)].name = "import" /\ ss[Len(ss)].kind = "made"
          /\ ss[Len(ss)].size = ImportSize /\ ss[Len(ss)].rsize = AlignUp(ImportSize, FA)
          /\ \A i \in 1 .. Len(secs) : RawEnd(secs[i]) <= ss[Len(ss)].raw
      <4>1. ss = WithSection("import", ImportSize) /\ soi' = Grown(ss, ImportInit)
        BY <2>2, <3>2
      <4>2. /\ IsTable(ss) /\ Follows(ss) /\ MadeAreNamed(ss) /\ ss[1].kind = "code"
            /\ Len(ss) = Len(secs) + 1
            /\ \A i \in 1 .. Len(secs) : ss[i] = secs[i]
            /\ \A i \in 1 .. Len(ss) : 0 <= ss[i].raw
            /\ ss[Len(ss)].name = "import" /\ ss[Len(ss)].kind = "made"
            /\ ss[Len(ss)].size = ImportSize /\ ss[Len(ss)].rsize = AlignUp(ImportSize, FA)
            /\ \A i \in 1 .. Len(secs) : RawEnd(secs[i]) <= ss[Len(ss)].raw
        <5>1. /\ Sound /\ \A i \in 1 .. Len(secs) : 0 <= secs[i].raw
              /\ "import" \in Made /\ ImportSize \in Nat \ {0} /\ ImportInit \in Nat
              /\ ss = WithSection("import", ImportSize)
          BY <4>1, <3>1, <1>2
        <5> QED BY <5>1, AppendLayout
      <4>3. Grown(ss, ImportInit) \in Nat /\ End(Last(ss)) <= Grown(ss, ImportInit)
        BY <4>2, <3>1, <1>2, GrownIs DEF Sound
      <4> QED BY <4>1, <4>2, <4>3
    <3>4. ASSUME NEW r, RelocAt(secs, r) PROVE RelocAt(ss, r)
      <4>1. Len(secs) \in Nat \ {0}
        BY <1>2, TableIs DEF Sound
      <4>2. \A i \in 1 .. Len(ss) : i \in 1 .. Len(secs) \/ i = Len(ss)
        BY <3>3, <4>1
      <4>3. r \in 1 .. Len(secs) /\ r \in 1 .. Len(ss) /\ ss[r] = secs[r]
        BY <3>3, <3>4, <4>1 DEF RelocAt
      <4>4. \A i \in 1 .. Len(ss) : ss[i].name = "reloc" => i = r
        BY <3>3, <3>4, <4>2 DEF RelocAt
      <4> QED BY <3>4, <4>3, <4>4 DEF RelocAt
    <3> QED BY <3>2, <3>3, <3>4, <2>2, <1>2 DEF Sound
  <2> QED BY <2>1, <2>2 DEF CreateImport, ImportSize
<1>4. Stage'
  BY <1>1, <1>2, <1>3 DEF Stage, Early, Appending, Filed
<1>5. InputOK' /\ Flags'
  BY <1>1, <1>3, LayoutIsSound DEF Flags, InputOK
<1> QED
  BY <1>3, <1>4, <1>5, LayoutFromParts

LEMMA TrimmedIs ==
    ASSUME NEW ss, IsTable(ss)
    PROVE  TrimmedAll(ss) \in Trimmings(ss)
<1>1. PICK t : TrimWalk(t, ss)
  BY TrimmedAllIs
<1>2. Len(ss) \in 0 .. Len(ss)
  BY TableIs
<1> QED
  BY <1>1, <1>2 DEF TrimWalk

LEMMA LayoutTrim ==
    ASSUME LayoutInv, TrimSections
    PROVE  LayoutInv'
<1>1. /\ pc = "trim" /\ pc' = "write" /\ secs' = TrimmedAll(secs)
      /\ UNCHANGED <<input, live, soi, base, dynamic, dumped, hinted, file, table>>
  BY DEF TrimSections, Step
<1>2. /\ file = <<>> /\ Sound /\ IsTable(secs)
      /\ input.shrink => \E r : RelocAt(secs, r)
  BY <1>1, LayoutIsSound DEF Stage, Appending, Filed, Sound
<1>3. PICK ss : ss = secs'
  OBVIOUS
<1>4. SameImage(ss, secs) /\ \A i \in 1 .. Len(secs) : ss[i].rsize <= secs[i].rsize
  <2>1. ss \in Trimmings(secs)
    BY <1>1, <1>2, <1>3, TrimmedIs
  <2> QED BY <2>1 DEF Trimmings
<1>5. /\ IsTable(ss) /\ Follows(ss) /\ MadeAreNamed(ss) /\ ss[1].kind = "code"
      /\ End(Last(ss)) <= soi
      /\ \A r : RelocAt(secs, r) => RelocAt(ss, r)
  BY <1>2, <1>4, SameLayout
<1>6. Sound'
  BY <1>1, <1>2, <1>3, <1>5 DEF Sound
<1>7. Stage'
  BY <1>1, <1>2, <1>3, <1>5 DEF Stage, Early, Appending, Filed
<1>8. InputOK' /\ Flags'
  BY <1>1, LayoutIsSound DEF Flags, InputOK
<1> QED
  BY <1>6, <1>7, <1>8, LayoutFromParts

\* The sections as they are written: none before the end of the headers
Clamped(s) == IF s.rsize > 0 /\ s.raw < MinRaw THEN [s EXCEPT !.raw = MinRaw] ELSE s

LEMMA ClampedAre ==
    ASSUME NEW ss, ss = [i \in DOMAIN secs |-> Clamped(secs[i])], IsTable(secs)
    PROVE  /\ SameImage(ss, secs)
           /\ \A i \in 1 .. Len(secs) :
                 /\ ss[i].rsize = secs[i].rsize
                 /\ ss[i].raw = IF secs[i].rsize > 0 /\ secs[i].raw < MinRaw
                                THEN MinRaw ELSE secs[i].raw
<1>1. /\ Len(secs) \in Nat \ {0} /\ DOMAIN secs = 1 .. Len(secs)
      /\ \A i \in 1 .. Len(secs) : secs[i] \in Section
  BY TableIs
<1>2. ASSUME NEW s \in Section
      PROVE  /\ Clamped(s) \in Section
             /\ Clamped(s).kind = s.kind /\ Clamped(s).name = s.name
             /\ Clamped(s).at = s.at /\ Clamped(s).used = s.used
             /\ Clamped(s).va = s.va /\ Clamped(s).size = s.size
             /\ Clamped(s).rsize = s.rsize
             /\ Clamped(s).raw = IF s.rsize > 0 /\ s.raw < MinRaw THEN MinRaw ELSE s.raw
  <2>1. PICK a : a = [s EXCEPT !.raw = MinRaw]
    OBVIOUS
  <2>2. MinRaw \in Int
    BY DumpAssumption
  <2>3. /\ a \in Section /\ a.kind = s.kind /\ a.name = s.name /\ a.at = s.at
        /\ a.used = s.used /\ a.va = s.va /\ a.size = s.size /\ a.raw = MinRaw
        /\ a.rsize = s.rsize
    BY <2>1, <2>2, MovedIs
  <2>4. CASE s.rsize > 0 /\ s.raw < MinRaw
    <3>1. Clamped(s) = a
      BY <2>1, <2>4, Zenon DEF Clamped
    <3> QED BY <3>1, <2>3, <2>4
  <2>5. CASE ~(s.rsize > 0 /\ s.raw < MinRaw)
    <3>1. Clamped(s) = s
      BY <2>5, Zenon DEF Clamped
    <3> QED BY <3>1, <2>5
  <2> QED BY <2>4, <2>5
<1>3. \A i \in 1 .. Len(secs) : ss[i] = Clamped(secs[i])
  BY <1>1
<1>4. ss \in Seq(Section) /\ Len(ss) = Len(secs)
  <2>1. ss \in [1 .. Len(secs) -> Section]
    BY <1>1, <1>2
  <2> QED BY <2>1, <1>1
<1> QED
  BY <1>1, <1>2, <1>3, <1>4 DEF SameImage, IsTable

\* What write_output_file makes of one place of the file
Filled(ss, o) ==
    IF input.import > 0 /\ o = FileOffset(ss, input.iat) THEN Hint ELSE Written(ss, o)

LEMMA WriteIs ==
    ASSUME LayoutInv, WriteOutput
    PROVE  /\ pc = "write" /\ pc' = "fix" /\ dynamic' = FALSE
           /\ UNCHANGED <<input, live, soi, base, dumped, hinted, table>>
           /\ secs' = [i \in DOMAIN secs |-> Clamped(secs[i])]
           /\ file' = [o \in 0 .. FileEnd(secs') - 1 |-> Filled(secs', o)]
BY Zenon DEF WriteOutput, Step, Clamped, Filled

LEMMA LayoutWrite ==
    ASSUME LayoutInv, WriteOutput
    PROVE  LayoutInv'
<1>1. /\ pc = "write" /\ pc' = "fix" /\ dynamic' = FALSE
      /\ UNCHANGED <<input, live, soi, base, dumped, hinted, table>>
      /\ secs' = [i \in DOMAIN secs |-> Clamped(secs[i])]
      /\ file' = [o \in 0 .. FileEnd(secs') - 1 |-> Filled(secs', o)]
  BY WriteIs
<1>2. /\ Sound /\ IsTable(secs)
      /\ input.shrink => \E r : RelocAt(secs, r)
  BY <1>1, LayoutIsSound DEF Stage, Sound
<1>3. PICK ss : ss = secs'
  OBVIOUS
<1>4. SameImage(ss, secs) /\ \A i \in 1 .. Len(secs) : ss[i].rsize <= secs[i].rsize
  <2>1. SameImage(ss, secs) /\ \A i \in 1 .. Len(secs) : ss[i].rsize = secs[i].rsize
    <3>1. ss = [i \in DOMAIN secs |-> Clamped(secs[i])] /\ IsTable(secs)
      BY <1>1, <1>2, <1>3
    <3> QED BY <3>1, ClampedAre
  <2>2. \A i \in 1 .. Len(secs) : secs[i].rsize \in Nat
    BY <1>2, TableIs, SectionIs
  <2> QED BY <2>1, <2>2
<1>5. /\ IsTable(ss) /\ Follows(ss) /\ MadeAreNamed(ss) /\ ss[1].kind = "code"
      /\ End(Last(ss)) <= soi
      /\ \A r : RelocAt(secs, r) => RelocAt(ss, r)
  BY <1>2, <1>4, SameLayout
<1>6. Sound'
  BY <1>1, <1>2, <1>3, <1>5 DEF Sound
<1>7. \E n : FileOf(n)'
  <2>1. FileEnd(ss) \in Int
    BY <1>5, FileEndIs
  <2>2. \A o \in 0 .. FileEnd(ss) - 1 : Filled(ss, o) \in Int
    <3> SUFFICES ASSUME NEW o \in 0 .. FileEnd(ss) - 1 PROVE Filled(ss, o) \in Int
      OBVIOUS
    <3>1. Written(ss, o) \in Int
      BY <2>1, <1>5, WrittenIs
    <3>2. Hint \in Int
      BY DEF Hint
    <3> QED BY <3>1, <3>2 DEF Filled
  <2>3. file' \in [0 .. FileEnd(ss) - 1 -> Int]
    BY <2>2, <1>1, <1>3
  <2> QED BY <2>1, <2>3 DEF FileOf
<1>8. Stage'
  BY <1>1, <1>2, <1>3, <1>5, <1>7 DEF Stage, Early, Appending, Filed
<1>9. InputOK' /\ Flags'
  BY <1>1, LayoutIsSound DEF Flags, InputOK
<1> QED
  BY <1>6, <1>8, <1>9, LayoutFromParts

LEMMA FixIs ==
    ASSUME FixAddresses
    PROVE  /\ pc = "fix" /\ pc' = AfterWriting
           /\ UNCHANGED <<input, live, secs, soi, base, dynamic, dumped, hinted, table>>
           /\ \E R : file' = [o \in DOMAIN file |-> IF o \in R THEN -file[o] ELSE file[o]]
<1> DEFINE rebased(o) == /\ base = "file" /\ input.arch = "x64"
                         /\ file[o] \in Pointers
                         /\ \E s \in ToSet(secs) : Scanned(s) /\ o \in FileRange(s)
           R == {o \in DOMAIN file : rebased(o)}
<1>1. /\ pc = "fix" /\ pc' = AfterWriting
      /\ UNCHANGED <<input, live, secs, soi, base, dynamic, dumped, hinted, table>>
      /\ file' = [o \in DOMAIN file |-> IF rebased(o) THEN -file[o] ELSE file[o]]
  BY Zenon DEF FixAddresses, Step
<1> HIDE DEF rebased
<1>2. file' = [o \in DOMAIN file |-> IF o \in R THEN -file[o] ELSE file[o]]
  BY <1>1
<1> HIDE DEF R
<1> QED
  BY <1>1, <1>2

LEMMA LayoutFix ==
    ASSUME LayoutInv, FixAddresses
    PROVE  LayoutInv'
<1>1. /\ pc = "fix" /\ pc' = AfterWriting
      /\ UNCHANGED <<input, live, secs, soi, base, dynamic, dumped, hinted, table>>
  BY FixIs
<1>2. PICK R : file' = [o \in DOMAIN file |-> IF o \in R THEN -file[o] ELSE file[o]]
  BY FixIs
<1>3. /\ Sound /\ InputOK
      /\ input.shrink => \E r : RelocAt(secs, r)
  BY <1>1, LayoutIsSound DEF Stage
<1>4. PICK n : FileOf(n)
  BY <1>1, LayoutIsSound DEF Stage, Filed
<1>5. FileOf(n)'
  <2>1. n \in Int /\ DOMAIN file = 0 .. n - 1 /\ \A o \in 0 .. n - 1 : file[o] \in Int
    BY <1>4 DEF FileOf
  <2>2. \A o \in 0 .. n - 1 : (IF o \in R THEN -file[o] ELSE file[o]) \in Int
    BY <2>1
  <2>3. file' \in [0 .. n - 1 -> Int]
    BY <2>1, <2>2, <1>2
  <2> QED BY <2>1, <2>3 DEF FileOf
<1>6. /\ pc' \in {"pack", "save"} /\ input.shrink \in BOOLEAN
      /\ pc' = "pack" => input.shrink
  BY <1>1, <1>3 DEF AfterWriting, InputOK
<1>7. Stage'
  BY <1>1, <1>3, <1>5, <1>6 DEF Stage, Early, Appending, Filed
<1>8. Sound' /\ InputOK' /\ Flags'
  BY <1>1, LayoutIsSound DEF Flags, InputOK, Sound
<1> QED
  BY <1>7, <1>8, LayoutFromParts

LEMMA PackIs ==
    ASSUME PackLayout
    PROVE  /\ pc = "pack" /\ pc' = "table" /\ secs' = PackedAll.secs
           /\ file' = [o \in {p \in DOMAIN file : p < FileEnd(secs')} |-> PackedAll.file[o]]
           /\ UNCHANGED <<input, live, soi, base, dynamic, dumped, hinted, table>>
BY Zenon DEF PackLayout, Step

LEMMA LayoutPack ==
    ASSUME LayoutInv, PackLayout
    PROVE  LayoutInv'
<1>1. /\ pc = "pack" /\ pc' = "table" /\ secs' = PackedAll.secs
      /\ file' = [o \in {p \in DOMAIN file : p < FileEnd(secs')} |-> PackedAll.file[o]]
      /\ UNCHANGED <<input, live, soi, base, dynamic, dumped, hinted, table>>
  BY PackIs
<1>2. /\ Sound /\ IsTable(secs) /\ input.shrink
      /\ input.shrink => \E r : RelocAt(secs, r)
  BY <1>1, LayoutIsSound DEF Stage, Sound
<1>3. PICK n : FileOf(n)
  BY <1>1, LayoutIsSound DEF Stage, Filed
<1>4. PICK ss : ss = secs'
  OBVIOUS
<1>5. PICK f : f = PackedAll.file
  OBVIOUS
<1>6. /\ SameImage(ss, secs) /\ f \in [DOMAIN file -> Int]
      /\ \A i \in 1 .. Len(secs) : ss[i].rsize = secs[i].rsize
  <2>1. PackedAll \in Packings
    BY <1>2, <1>3, PackedAllTyped
  <2> QED BY <2>1, <1>1, <1>4, <1>5, PackingIs
<1>7. /\ IsTable(ss) /\ Follows(ss) /\ MadeAreNamed(ss) /\ ss[1].kind = "code"
      /\ End(Last(ss)) <= soi
      /\ \A r : RelocAt(secs, r) => RelocAt(ss, r)
  <2>1. \A i \in 1 .. Len(secs) : secs[i].rsize \in Nat
    BY <1>2, TableIs, SectionIs
  <2>2. \A i \in 1 .. Len(secs) : ss[i].rsize <= secs[i].rsize
    BY <2>1, <1>6
  <2> QED BY <2>2, <1>2, <1>6, SameLayout
<1>8. Sound'
  BY <1>1, <1>2, <1>4, <1>7 DEF Sound
<1>9. \E m : FileOf(m)'
  <2>1. PICK e \in Int : e = FileEnd(ss)
    BY <1>7, FileEndIs
  <2>2. n \in Int /\ DOMAIN file = 0 .. n - 1
    BY <1>3 DEF FileOf
  <2>3. PICK m \in Int : m = IF e < n THEN e ELSE n
    BY <2>2
  <2>4. {p \in DOMAIN file : p < e} = 0 .. m - 1
    BY <2>2, <2>3
  <2>5. file' = [o \in 0 .. m - 1 |-> f[o]]
    BY <2>1, <2>4, <1>1, <1>4, <1>5
  <2>6. \A o \in 0 .. m - 1 : f[o] \in Int
    BY <2>2, <2>3, <1>6
  <2>7. file' \in [0 .. m - 1 -> Int]
    BY <2>5, <2>6
  <2> QED BY <2>3, <2>7 DEF FileOf
<1>10. Stage'
  BY <1>1, <1>2, <1>4, <1>7, <1>9 DEF Stage, Early, Appending, Filed
<1>11. InputOK' /\ Flags'
  BY <1>1, LayoutIsSound DEF Flags, InputOK
<1> QED
  BY <1>8, <1>10, <1>11, LayoutFromParts

LEMMA LayoutSave ==
    ASSUME LayoutInv, Save
    PROVE  LayoutInv'
<1>1. /\ pc = "save" /\ pc' = "done"
      /\ UNCHANGED <<input, live, secs, soi, base, dynamic, dumped, hinted, file, table>>
  BY DEF Save, Step
<1>2. \E n : FileOf(n)
  BY <1>1, LayoutIsSound DEF Stage, Filed
<1>3. (\E n : FileOf(n))'
  BY <1>1, <1>2 DEF FileOf
<1>4. Stage'
  BY <1>1, <1>3 DEF Stage, Early, Appending, Filed
<1>5. Sound' /\ InputOK' /\ Flags'
  BY <1>1, LayoutIsSound DEF Flags, InputOK, Sound
<1> QED
  BY <1>4, <1>5, LayoutFromParts

LEMMA FunctionIsSequence ==
    ASSUME NEW S, NEW m \in Nat, NEW f \in [1 .. m -> S]
    PROVE  f \in Seq(S) /\ Len(f) = m
OBVIOUS

\* The table with the final sizes of .reloc
Rebuilt(r, n, k) == [secs EXCEPT ![r].size = n, ![r].rsize = k]

LEMMA RebuiltIs ==
    ASSUME NEW r, NEW n \in Nat \ {0}, NEW k \in Nat,
           NEW out, out = Rebuilt(r, n, k),
           IsTable(secs), r \in 1 .. Len(secs)
    PROVE  /\ IsTable(out) /\ Len(out) = Len(secs)
           /\ \A i \in 1 .. Len(secs) : i # r => out[i] = secs[i]
           /\ \A i \in 1 .. Len(secs) :
                 /\ out[i].kind = secs[i].kind /\ out[i].name = secs[i].name
                 /\ out[i].va = secs[i].va /\ out[i].raw = secs[i].raw
           /\ out[r].size = n /\ out[r].rsize = k
<1>1. /\ Len(secs) \in Nat \ {0} /\ DOMAIN secs = 1 .. Len(secs)
      /\ \A i \in 1 .. Len(secs) : secs[i] \in Section
      /\ secs \in [1 .. Len(secs) -> Section]
  <2>1. secs \in Seq(Section)
    BY DEF IsTable
  <2> QED BY <2>1, TableIs, SequenceIs
<1>2. PICK s \in Section : s = secs[r]
  BY <1>1
<1>3. PICK c : c = [s EXCEPT !.size = n, !.rsize = k]
  OBVIOUS
<1>4. /\ c \in Section /\ c.kind = s.kind /\ c.name = s.name
      /\ c.va = s.va /\ c.raw = s.raw /\ c.size = n /\ c.rsize = k
  BY <1>2, <1>3 DEF Section
<1>5. out = [secs EXCEPT ![r] = c]
  <2>1. out = [i \in DOMAIN secs |-> IF i = r THEN c ELSE secs[i]]
    BY <1>1, <1>2, <1>3 DEF Rebuilt
  <2> QED BY <2>1, <1>1
<1>6. /\ DOMAIN out = 1 .. Len(secs) /\ out \in [1 .. Len(secs) -> Section]
      /\ \A i \in 1 .. Len(secs) : i # r => out[i] = secs[i]
      /\ out[r] = c
  BY <1>1, <1>4, <1>5
<1>7. out \in Seq(Section) /\ Len(out) = Len(secs)
  <2>1. PICK m \in Nat : m = Len(secs)
    BY <1>1
  <2>2. out \in [1 .. m -> Section] /\ DOMAIN out = 1 .. m
    BY <2>1, <1>6
  <2>3. out \in Seq(Section) /\ Len(out) = m
    BY <2>2, FunctionIsSequence, Zenon
  <2> QED BY <2>1, <2>3
<1>8. ASSUME NEW i \in 1 .. Len(secs)
      PROVE  /\ out[i].kind = secs[i].kind /\ out[i].name = secs[i].name
             /\ out[i].va = secs[i].va /\ out[i].raw = secs[i].raw
  <2>1. CASE i = r
    BY <2>1, <1>2, <1>4, <1>6
  <2>2. CASE i # r
    BY <2>2, <1>6
  <2> QED BY <2>1, <2>2
<1> QED
  BY <1>1, <1>4, <1>6, <1>7, <1>8 DEF IsTable

LEMMA BuildIs ==
    ASSUME BuildTable, IsTable(secs), NEW r, RelocAt(secs, r)
    PROVE  /\ pc = "table" /\ pc' \in {"save", "failed"}
           /\ UNCHANGED <<input, live, soi, base, dumped, hinted, file>>
           /\ pc' = "failed" => ~(input.table <= secs[r].rsize)
           /\ \/ UNCHANGED <<table, secs, dynamic>>
              \/ /\ input.table <= secs[r].rsize
                 /\ table' = Relocations /\ dynamic' = TRUE
                 /\ secs' = [secs EXCEPT ![r].size = Announced(secs[r]),
                                         ![r].rsize = AlignUp(input.table, FA)]
<1> DEFINE R == CHOOSE i \in DOMAIN secs : secs[i].name = "reloc"
<1>1. R = r
  <2>1. r \in DOMAIN secs /\ secs[r].name = "reloc"
    BY TableIs DEF RelocAt
  <2>2. \A i \in DOMAIN secs : secs[i].name = "reloc" => i = r
    BY TableIs DEF RelocAt
  <2> QED BY <2>1, <2>2
<1>2. /\ pc = "table"
      /\ pc' = IF Relocations = {} \/ input.table <= secs[R].rsize THEN "save" ELSE "failed"
      /\ IF Relocations # {} /\ input.table <= secs[R].rsize
         THEN /\ table' = Relocations
              /\ secs' = [secs EXCEPT ![R].size = Announced(secs[R]),
                                      ![R].rsize = AlignUp(input.table, FA)]
              /\ dynamic' = TRUE
         ELSE UNCHANGED <<table, secs, dynamic>>
      /\ UNCHANGED <<input, live, soi, base, dumped, hinted, file>>
  BY Zenon DEF BuildTable
<1> HIDE DEF R
<1>3. CASE Relocations # {} /\ input.table <= secs[r].rsize
  <2>1. /\ table' = Relocations /\ dynamic' = TRUE /\ pc' = "save"
        /\ secs' = [secs EXCEPT ![r].size = Announced(secs[r]),
                                ![r].rsize = AlignUp(input.table, FA)]
    BY <1>1, <1>2, <1>3, Zenon
  <2>2. pc' # "failed"
    BY <2>1
  <2> QED BY <1>2, <1>3, <2>1, <2>2, Zenon
<1>4. CASE ~(Relocations # {} /\ input.table <= secs[r].rsize)
  <2>1. /\ pc' = IF Relocations = {} \/ input.table <= secs[r].rsize THEN "save" ELSE "failed"
        /\ UNCHANGED <<table, secs, dynamic>>
    BY <1>1, <1>2, <1>4, Zenon
  <2>2. pc' \in {"save", "failed"} /\ (pc' = "failed" => ~(input.table <= secs[r].rsize))
    BY <2>1
  <2> QED BY <1>2, <2>1, <2>2, Zenon
<1> QED
  BY <1>3, <1>4

LEMMA LayoutTable ==
    ASSUME LayoutInv, BuildTable
    PROVE  LayoutInv'
<1>1. pc = "table"
  BY DEF BuildTable
<1>2. PICK r : RelocAt(secs, r)
  BY <1>1, LayoutIsSound DEF Stage
<1>3. Sound /\ IsTable(secs) /\ Follows(secs) /\ InputOK
  BY LayoutIsSound DEF Sound
<1>4. /\ pc' \in {"save", "failed"}
      /\ UNCHANGED <<input, live, soi, base, dumped, hinted, file>>
      /\ \/ UNCHANGED <<table, secs, dynamic>>
         \/ /\ input.table <= secs[r].rsize
            /\ table' = Relocations /\ dynamic' = TRUE
            /\ secs' = [secs EXCEPT ![r].size = Announced(secs[r]),
                                    ![r].rsize = AlignUp(input.table, FA)]
  BY <1>2, <1>3, BuildIs
<1>5. Sound'
  <2>1. CASE UNCHANGED <<table, secs, dynamic>>
    BY <2>1, <1>3, <1>4 DEF Sound
  <2>2. CASE /\ input.table <= secs[r].rsize
             /\ secs' = [secs EXCEPT ![r].size = Announced(secs[r]),
                                     ![r].rsize = AlignUp(input.table, FA)]
    <3>1. r \in 1 .. Len(secs) /\ secs[r].kind = "made"
      BY <1>2 DEF RelocAt
    <3>2. input.table \in Nat \ {0}
      BY <1>3, InputIs
    <3>3. /\ Announced(secs[r]) \in Nat \ {0}
          /\ r < Len(secs) => AlignUp(secs[r].va + Announced(secs[r]), SA) = secs[r + 1].va
          /\ r = Len(secs) => Announced(secs[r]) <= secs[r].size
      BY <1>2, <1>3, <2>2, <3>2, AnnouncedIs
    <3>4. PICK n \in Nat \ {0} : n = Announced(secs[r])
      BY <3>3
    <3>5. PICK k \in Nat : k = AlignUp(input.table, FA)
      BY <3>2, SectionsOfFiles, AlignUpIs
    <3>6. PICK ss : ss = secs'
      OBVIOUS
    <3>7. /\ IsTable(ss) /\ Len(ss) = Len(secs)
          /\ \A i \in 1 .. Len(secs) : i # r => ss[i] = secs[i]
          /\ \A i \in 1 .. Len(secs) :
                /\ ss[i].kind = secs[i].kind /\ ss[i].name = secs[i].name
                /\ ss[i].va = secs[i].va
          /\ ss[r].size = n
      <4>1. ss = Rebuilt(r, n, k) /\ IsTable(secs) /\ r \in 1 .. Len(secs)
        BY <2>2, <3>1, <3>4, <3>5, <3>6, <1>3, Zenon DEF Rebuilt
      <4>2. /\ IsTable(ss) /\ Len(ss) = Len(secs)
            /\ \A i \in 1 .. Len(secs) : i # r => ss[i] = secs[i]
            /\ \A i \in 1 .. Len(secs) :
                  /\ ss[i].kind = secs[i].kind /\ ss[i].name = secs[i].name
                  /\ ss[i].va = secs[i].va /\ ss[i].raw = secs[i].raw
            /\ ss[r].size = n /\ ss[r].rsize = k
        BY <4>1, RebuiltIs
      <4> QED BY <4>2
    <3>8. Len(secs) \in Nat \ {0}
      BY <1>3, TableIs
    <3>9. ASSUME NEW i \in 2 .. Len(ss) PROVE ss[i].va = AlignUp(End(ss[i - 1]), SA)
      <4>1. i \in 2 .. Len(secs) /\ i - 1 \in 1 .. Len(secs) /\ i \in 1 .. Len(secs)
        BY <3>7, <3>8
      <4>2. ss[i].va = secs[i].va /\ secs[i].va = AlignUp(End(secs[i - 1]), SA)
        BY <4>1, <3>7, <1>3 DEF Follows
      <4>3. CASE i - 1 = r
        <5>1. r < Len(secs) /\ i = r + 1
          BY <4>1, <4>3, <3>8
        <5>2. ss[i - 1].va = secs[r].va /\ ss[i - 1].size = n
          BY <4>1, <4>3, <3>7
        <5> QED BY <5>1, <5>2, <4>2, <3>3, <3>4 DEF End
      <4>4. CASE i - 1 # r
        BY <4>1, <4>2, <4>4, <3>7
      <4> QED BY <4>3, <4>4
    <3>10. Follows(ss) /\ MadeAreNamed(ss) /\ ss[1].kind = "code"
      <4>1. 1 \in 1 .. Len(secs)
        BY <3>8
      <4> QED BY <4>1, <3>7, <3>9, <1>3 DEF Follows, MadeAreNamed, Sound
    <3>11. End(Last(ss)) <= soi
      <4>1. /\ Last(ss) = ss[Len(secs)] /\ Last(secs) = secs[Len(secs)]
            /\ Len(secs) \in 1 .. Len(secs)
        BY <3>7, <3>8, <1>3, TableIs
      <4>2. End(secs[Len(secs)]) <= soi /\ soi \in Nat
        BY <4>1, <1>3 DEF Sound
      <4>3. CASE Len(secs) = r
        <5>1. secs[r].va \in Nat /\ secs[r].size \in Nat /\ n <= secs[r].size
          BY <4>1, <4>3, <3>3, <3>4, <1>3, TableIs, SectionIs
        <5>2. End(ss[r]) = secs[r].va + n /\ End(secs[r]) = secs[r].va + secs[r].size
          BY <4>1, <4>3, <3>7 DEF End
        <5> QED BY <4>1, <4>2, <4>3, <5>1, <5>2
      <4>4. CASE Len(secs) # r
        BY <4>1, <4>2, <4>4, <3>7
      <4> QED BY <4>3, <4>4
    <3> QED BY <1>3, <1>4, <3>6, <3>7, <3>10, <3>11 DEF Sound
  <2> QED BY <2>1, <2>2, <1>4
<1>6. (\E n : FileOf(n))'
  <2>1. \E n : FileOf(n)
    BY <1>1, LayoutIsSound DEF Stage, Filed
  <2> QED BY <2>1, <1>4 DEF FileOf
<1>7. Stage'
  BY <1>4, <1>6 DEF Stage, Early, Appending, Filed
<1>8. InputOK' /\ Flags'
  BY <1>4, LayoutIsSound DEF Flags, InputOK
<1> QED
  BY <1>5, <1>7, <1>8, LayoutFromParts

LEMMA LayoutIsInductive ==
    LayoutInv /\ [Next]_vars => LayoutInv'
<1> SUFFICES ASSUME LayoutInv, [Next]_vars PROVE LayoutInv'
  OBVIOUS
<1>1. CASE UNCHANGED vars
  <2>1. /\ UNCHANGED <<pc, input, live, secs, soi, base, dynamic>>
        /\ UNCHANGED <<dumped, hinted, file, table>>
    BY <1>1 DEF vars
  <2>2. (pc \in Filed => \E n : FileOf(n))' <=> (pc \in Filed => \E n : FileOf(n))
    BY <2>1 DEF FileOf, Filed
  <2>3. Stage'
    BY <2>1, <2>2, LayoutIsSound DEF Stage, Early, Appending, Filed
  <2>4. Sound' /\ InputOK' /\ Flags'
    BY <2>1, LayoutIsSound DEF Flags, InputOK, Sound
  <2> QED BY <2>3, <2>4, LayoutFromParts
<1>2. CASE Next
  BY <1>2, LayoutPatch, LayoutShrink, LayoutRead, LayoutPdata, LayoutReloc, LayoutImport,
     LayoutTrim, LayoutWrite, LayoutFix, LayoutPack, LayoutTable, LayoutSave DEF Next
<1> QED
  BY <1>1, <1>2

(* Between any two steps of dump_process the section table is one that     *)
(* describes an image: it starts with the code, and SizeOfImage covers it. *)
THEOREM LayoutStands == Spec => []LayoutInv
<1>1. Init => LayoutInv
  BY LayoutInit
<1>2. LayoutInv /\ [Next]_vars => LayoutInv'
  BY LayoutIsInductive
<1> QED
  BY <1>1, <1>2, PTL DEF Spec

(* The product has no hole between two sections and none is beyond its     *)
(* SizeOfImage, whatever was removed, appended, trimmed, packed and        *)
(* announced: dump_process.                                                *)
THEOREM TheImageIsContiguous == Spec => []ImageIsContiguous
<1>1. LayoutInv => ImageIsContiguous
  BY DEF LayoutInv, ImageIsContiguous, Follows
<1> QED
  BY <1>1, LayoutStands, PTL

----------------------------------------------------------------------------
(* Room in the file *)

\* Nothing that is appended is as large as what trimming looks for
NothingAppendedIsHuge ==
    \A n \in PdataSizes \union ImportSizes \union Estimates \union {SA, Reserve, ImportMin} :
        AlignUp(n, SA) <= Huge

IsMade(s) == s.kind = "made"

\* A last live section that ends within a unit of alignment: what is appended
\* behind it is placed closer than trimming will take it to be
Loose(ss, i) ==
    /\ ~IsMade(ss[i]) /\ i < Len(ss) /\ IsMade(ss[i + 1])
    /\ ss[i].size % SA # 0

Well(ss) == \A i \in 1 .. Len(ss) : ~(Trimmed(ss[i]) /\ Loose(ss, i))

LiveFirst(ss) == \A i, j \in 1 .. Len(ss) : i < j /\ IsMade(ss[i]) => IsMade(ss[j])

Ordered(ss) == \A i, j \in 1 .. Len(ss) : i < j => RawEnd(ss[i]) <= ss[j].raw

\* The sections from "from" on leave the room that trimming takes from them
Roomy(ss, from) ==
    \A i, j \in 1 .. Len(ss) :
        from <= i /\ i < j /\ ~IsMade(ss[i]) /\ ~Loose(ss, i) =>
            ss[i].raw + AlignUp(ss[i].rsize, SA) <= ss[j].raw

\* What a section of memory takes of the file before it is trimmed
Whole(s) == IF Zeroed(s) THEN 0 ELSE s.size

\* Before trimming
Spread(ss) ==
    /\ Ordered(ss) /\ Roomy(ss, 1)
    /\ \A i \in 1 .. Len(ss) :
          /\ SA <= ss[i].raw
          /\ IsMade(ss[i]) => ss[i].rsize <= Huge
          /\ ~IsMade(ss[i]) => ss[i].rsize = Whole(ss[i])

\* After trimming
Standing(ss) ==
    /\ \A i \in 1 .. Len(ss) : 1 <= ss[i].raw
    /\ SA <= ss[1].raw

AllInFile == \E n : FileOf(n) /\ \A i \in 1 .. Len(secs) : RawEnd(secs[i]) <= n

ReservationStands ==
    \A i \in 1 .. Len(secs) :
        secs[i].name = "reloc" /\ IsMade(secs[i]) => secs[i].rsize = Reservation

Reserved == {"import", "trim", "write", "fix", "pack", "table"}

RoomInv ==
    /\ LiveFirst(secs)
    /\ pc \in Appending => Spread(secs)
    /\ pc = "write" => Standing(secs)
    /\ pc \in Filed => \A i \in 1 .. Len(secs) : 0 <= secs[i].raw
    /\ pc \in {"write"} \union Filed => (Well(secs) => Ordered(secs))
    /\ pc \in {"fix", "pack"} => AllInFile
    /\ pc \in Reserved => ReservationStands
    /\ ReservationHolds
    /\ \A rva \in table : rva \in Nat

\* A table that differs in its places only is as well off
LEMMA SameWell ==
    ASSUME NEW ss, NEW old, Len(ss) = Len(old),
           \A i \in 1 .. Len(old) : /\ ss[i].kind = old[i].kind
                                    /\ ~IsMade(old[i]) => /\ ss[i].size = old[i].size
                                                          /\ ss[i].rsize = old[i].rsize,
           Len(old) \in Nat
    PROVE  /\ Well(ss) => Well(old)
           /\ LiveFirst(old) => LiveFirst(ss)
<1>1. \A i \in 1 .. Len(old) : IsMade(ss[i]) <=> IsMade(old[i])
  BY DEF IsMade
<1>2. ASSUME NEW i \in 1 .. Len(old), Loose(old, i) PROVE Loose(ss, i)
  <2>1. i + 1 \in 1 .. Len(old) /\ ~IsMade(old[i])
    BY <1>2 DEF Loose
  <2>2. ss[i].size = old[i].size /\ (IsMade(ss[i + 1]) <=> IsMade(old[i + 1]))
    BY <2>1, <1>1
  <2> QED BY <1>1, <1>2, <2>2 DEF Loose
<1>3. ASSUME NEW i \in 1 .. Len(old), Trimmed(old[i]) PROVE Trimmed(ss[i])
  <2>1. ~IsMade(old[i])
    BY <1>3 DEF Trimmed, IsMade
  <2> QED BY <2>1, <1>3 DEF Trimmed, Zeroed
<1>4. Well(ss) => Well(old)
  BY <1>2, <1>3 DEF Well
<1>5. LiveFirst(old) => LiveFirst(ss)
  BY <1>1 DEF LiveFirst
<1> QED
  BY <1>4, <1>5

LEMMA RoomInit ==
    ASSUME Init, LayoutInv
    PROVE  RoomInv
<1>1. pc = "patch" /\ table = {}
  BY DEF Init
<1>2. LiveFirst(secs)
  <2>1. OfDebuggee(secs)
    BY <1>1, LayoutIsSound DEF Stage, Early
  <2> QED BY <2>1, OfDebuggeeIs DEF LiveFirst, IsMade
<1> QED
  BY <1>1, <1>2 DEF RoomInv, Appending, Filed, Reserved, ReservationHolds

\* The steps before the image is read
LEMMA RoomEarly ==
    ASSUME LayoutInv', pc' \in Early, table' = table, RoomInv
    PROVE  RoomInv'
<1>1. OfDebuggee(secs')
  BY DEF LayoutInv, Stage
<1>2. LiveFirst(secs')
  BY <1>1, OfDebuggeeIs DEF LiveFirst, IsMade
<1>3. \A rva \in table' : rva \in Nat
  BY DEF RoomInv
<1> QED
  BY <1>2, <1>3 DEF RoomInv, Early, Appending, Filed, Reserved, ReservationHolds

LEMMA ReadSpreads ==
    ASSUME OfDebuggee(secs), Follows(secs), NEW ss,
           ss = [i \in DOMAIN secs |-> Sanitized(secs[i])]
    PROVE  Spread(ss) /\ LiveFirst(ss)
<1> DEFINE N == Len(secs)
<1>1. /\ SameImage(ss, secs)
      /\ \A i \in 1 .. N :
            /\ ss[i].raw = secs[i].va
            /\ ss[i].rsize = IF Zeroed(secs[i]) THEN 0 ELSE secs[i].size
  BY ReadIs
<1>2. /\ IsTable(secs) /\ \A i \in 1 .. N : secs[i].kind # "made"
  BY OfDebuggeeIs
<1>3. Len(ss) = N /\ \A i \in 1 .. N : ~IsMade(ss[i])
  BY <1>1, <1>2 DEF SameImage, IsMade
<1>4. /\ N \in Nat /\ SA \in Nat \ {0}
      /\ \A i \in 1 .. N : secs[i].va \in Nat /\ secs[i].size \in Nat \ {0}
  BY <1>2, TableIs, SectionIs, SectionsOfFiles
<1>5. /\ \A i \in 1 .. N : SA <= secs[i].va
      /\ \A i, j \in 1 .. N : i < j =>
            /\ AlignUp(End(secs[i]), SA) <= secs[j].va
            /\ AlignUp(End(secs[i]), SA) = secs[i].va + AlignUp(secs[i].size, SA)
            /\ End(secs[i]) <= secs[j].va
  BY <1>2, PlaceOf
<1>6. ASSUME NEW i \in 1 .. N
      PROVE  /\ ss[i].rsize \in Nat /\ ss[i].rsize <= secs[i].size
             /\ ss[i].rsize = Whole(ss[i])
  <2>1. Zeroed(ss[i]) <=> Zeroed(secs[i])
    BY <1>1 DEF Zeroed, SameImage
  <2>2. ss[i].size = secs[i].size
    BY <1>1 DEF SameImage
  <2> QED BY <2>1, <2>2, <1>1, <1>4 DEF Whole
<1>7. ASSUME NEW i \in 1 .. N, NEW j \in 1 .. N, i < j
      PROVE  /\ RawEnd(ss[i]) <= ss[j].raw
             /\ ss[i].raw + AlignUp(ss[i].rsize, SA) <= ss[j].raw
  <2>1. RawEnd(ss[i]) <= ss[j].raw
    <3>1. /\ End(secs[i]) <= secs[j].va
          /\ secs[i].va \in Nat /\ secs[j].va \in Nat /\ secs[i].size \in Nat
      BY <1>4, <1>5, <1>7
    <3>2. /\ ss[i].raw = secs[i].va /\ ss[j].raw = secs[j].va
          /\ ss[i].rsize \in Nat /\ ss[i].rsize <= secs[i].size
      BY <1>1, <1>6
    <3> QED BY <3>1, <3>2 DEF RawEnd, End
  <2>2. /\ AlignUp(ss[i].rsize, SA) <= AlignUp(secs[i].size, SA)
        /\ AlignUp(ss[i].rsize, SA) \in Nat /\ AlignUp(secs[i].size, SA) \in Nat
    <3>1. /\ ss[i].rsize \in Nat /\ secs[i].size \in Nat /\ ss[i].rsize <= secs[i].size
          /\ SA \in Nat \ {0}
      BY <1>4, <1>6
    <3> QED BY <3>1, AlignUpGrows, AlignUpIs
  <2>3. ss[i].raw = secs[i].va /\ ss[j].raw = secs[j].va
    BY <1>1
  <2>4. secs[i].va + AlignUp(secs[i].size, SA) <= secs[j].va
    BY <1>5, <1>7
  <2>5. secs[i].va \in Nat /\ secs[j].va \in Nat
    BY <1>4
  <2> QED BY <2>1, <2>2, <2>3, <2>4, <2>5
<1>8. Ordered(ss) /\ Roomy(ss, 1)
  BY <1>3, <1>7 DEF Ordered, Roomy
<1>9. LiveFirst(ss)
  BY <1>3 DEF LiveFirst
<1> QED
  BY <1>1, <1>3, <1>5, <1>6, <1>8, <1>9 DEF Spread

LEMMA SpreadStays ==
    ASSUME NEW ss, Spread(ss), secs' = ss, input' = input
    PROVE  Spread(secs)'
BY DEF Spread, Ordered, Roomy, Loose, IsMade, Whole, Zeroed

LEMMA RoomRead ==
    ASSUME LayoutInv, RoomInv, ReadImage
    PROVE  RoomInv'
<1>1. /\ pc = "read" /\ pc' = "pdata"
      /\ secs' = [i \in DOMAIN secs |-> Sanitized(secs[i])]
      /\ UNCHANGED <<input, table>>
  BY DEF ReadImage, Step
<1>2. OfDebuggee(secs) /\ Follows(secs)
  BY <1>1, LayoutIsSound DEF Stage, Early, Sound
<1>3. PICK ss : ss = secs'
  OBVIOUS
<1>4. Spread(ss) /\ LiveFirst(ss)
  BY <1>1, <1>2, <1>3, ReadSpreads
<1>5. Spread(secs)'
  BY <1>1, <1>3, <1>4, SpreadStays
<1>6. LiveFirst(secs)'
  BY <1>3, <1>4 DEF LiveFirst, IsMade
<1>7. \A rva \in table' : rva \in Nat
  BY <1>1 DEF RoomInv
<1> QED
  BY <1>1, <1>5, <1>6, <1>7 DEF RoomInv, Appending, Filed, Reserved, ReservationHolds

LEMMA AppendSpreads ==
    ASSUME NEW name \in Made, NEW n \in Nat \ {0}, NEW ss, ss = WithSection(name, n),
           Sound, LiveFirst(secs), Spread(secs), AlignUp(n, FA) <= Huge
    PROVE  Spread(ss) /\ LiveFirst(ss)
<1> DEFINE N == Len(secs)
           M == Len(ss)
<1>1. /\ N \in Nat \ {0} /\ SA \in Nat \ {0}
      /\ \A i \in 1 .. N : /\ secs[i].raw \in Int /\ secs[i].rsize \in Nat
                           /\ secs[i].size \in Nat \ {0}
                           /\ RawEnd(secs[i]) = secs[i].raw + secs[i].rsize
  <2>1. N \in Nat \ {0} /\ \A i \in 1 .. N : secs[i] \in Section
    BY TableIs DEF Sound
  <2> QED BY <2>1, SectionIs, SectionsOfFiles DEF RawEnd
<1>2. \A i \in 1 .. N : SA <= secs[i].raw /\ 0 <= secs[i].raw
  <2>1. \A i \in 1 .. N : SA <= secs[i].raw
    BY DEF Spread
  <2> QED BY <2>1, <1>1
<1>3. /\ IsTable(ss) /\ M = N + 1
      /\ \A i \in 1 .. N : ss[i] = secs[i]
      /\ ss[M].kind = "made" /\ ss[M].rsize = AlignUp(n, FA)
      /\ \A i \in 1 .. N : RawEnd(secs[i]) <= ss[M].raw
  <2>1. Sound /\ \A i \in 1 .. Len(secs) : 0 <= secs[i].raw
    BY <1>2
  <2> QED BY <2>1, AppendLayout
<1>4. PICK raw \in Int : raw = ss[M].raw
  <2>1. M \in 1 .. M
    BY <1>1, <1>3
  <2> QED BY <2>1, <1>3, TableIs, SectionIs
<1>5. \A i \in 1 .. M : i \in 1 .. N \/ i = M
  BY <1>1, <1>3
<1>6. \A i \in 1 .. N : IsMade(ss[i]) <=> IsMade(secs[i])
  BY <1>3
<1>7. IsMade(ss[M])
  BY <1>3 DEF IsMade
<1>8. LiveFirst(ss)
  <2> SUFFICES ASSUME NEW i \in 1 .. M, NEW j \in 1 .. M, i < j, IsMade(ss[i])
               PROVE  IsMade(ss[j])
    BY DEF LiveFirst
  <2>1. CASE j \in 1 .. N
    <3>1. i \in 1 .. N
      BY <2>1, <1>1
    <3> QED BY <2>1, <3>1, <1>6 DEF LiveFirst
  <2> QED BY <2>1, <1>5, <1>7
<1>9. ASSUME NEW i \in 1 .. N - 1, ~Loose(ss, i) PROVE ~Loose(secs, i)
  <2>1. i \in 1 .. N /\ i + 1 \in 1 .. N /\ i < M
    BY <1>1, <1>3
  <2>2. ss[i] = secs[i] /\ ss[i + 1] = secs[i + 1]
    BY <2>1, <1>3
  <2> QED BY <2>1, <2>2, <1>9 DEF Loose
<1>10. Ordered(ss)
  <2> SUFFICES ASSUME NEW i \in 1 .. M, NEW j \in 1 .. M, i < j
               PROVE  RawEnd(ss[i]) <= ss[j].raw
    BY DEF Ordered
  <2>1. i \in 1 .. N /\ ss[i] = secs[i]
    BY <1>1, <1>3
  <2>2. CASE j \in 1 .. N
    BY <2>1, <2>2, <1>3 DEF Spread, Ordered
  <2>3. CASE j = M
    BY <2>1, <2>3, <1>3
  <2> QED BY <2>2, <2>3, <1>5
<1>11. Roomy(ss, 1)
  <2> SUFFICES ASSUME NEW i \in 1 .. M, NEW j \in 1 .. M, i < j,
                      ~IsMade(ss[i]), ~Loose(ss, i)
               PROVE  ss[i].raw + AlignUp(ss[i].rsize, SA) <= ss[j].raw
    BY DEF Roomy
  <2>1. i \in 1 .. N /\ ss[i] = secs[i] /\ ~IsMade(secs[i])
    BY <1>1, <1>3
  <2>2. CASE i = N
    <3>1. j = M /\ i + 1 = M /\ i < M
      BY <2>1, <2>2, <1>1, <1>3
    <3>2. secs[i].size % SA = 0
      BY <2>1, <3>1, <1>7 DEF Loose
    <3>3. secs[i].rsize \in {0, secs[i].size}
      BY <2>1 DEF Spread, Whole
    <3>4. IsMultiple(secs[i].rsize, SA)
      <4>1. IsMultiple(secs[i].size, SA)
        <5>1. secs[i].size \in Nat /\ secs[i].size % SA = 0 /\ SA \in Nat \ {0}
          BY <2>1, <3>2, <1>1
        <5> QED BY <5>1, NoRemainder
      <4>2. IsMultiple(0, SA)
        <5>1. 0 = 0 * SA
          BY <1>1
        <5> QED BY <5>1 DEF IsMultiple
      <4> QED BY <4>1, <4>2, <3>3
    <3>5. AlignUp(secs[i].rsize, SA) = secs[i].rsize
      BY <3>4, <1>1, AlignUpStays
    <3> QED BY <2>1, <3>1, <3>5, <1>1, <1>3
  <2>3. CASE i # N
    <3>1. i \in 1 .. N - 1 /\ ~Loose(secs, i) /\ 1 <= i
      <4>1. i \in 1 .. N - 1 /\ 1 <= i
        BY <2>1, <2>3, <1>1
      <4> QED BY <4>1, <1>9
    <3>2. \A k \in 1 .. N : i < k => secs[i].raw + AlignUp(secs[i].rsize, SA) <= secs[k].raw
      BY <2>1, <3>1 DEF Spread, Roomy
    <3>3. CASE j \in 1 .. N
      BY <2>1, <3>2, <3>3, <1>3
    <3>4. CASE j = M
      <4>1. N \in 1 .. N /\ i < N
        BY <3>1, <1>1
      <4>2. secs[i].raw + AlignUp(secs[i].rsize, SA) <= secs[N].raw
        BY <4>1, <3>2
      <4>3. RawEnd(secs[N]) <= raw /\ RawEnd(secs[N]) = secs[N].raw + secs[N].rsize
        BY <4>1, <1>1, <1>3, <1>4
      <4>4. /\ secs[i].raw \in Int /\ AlignUp(secs[i].rsize, SA) \in Nat
            /\ secs[N].raw \in Int /\ secs[N].rsize \in Nat
        BY <2>1, <4>1, <1>1, AlignUpIs
      <4>5. secs[i].raw + AlignUp(secs[i].rsize, SA) <= raw
        BY <4>2, <4>3, <4>4, SMTT(40)
      <4> QED BY <2>1, <3>4, <4>5, <1>4
    <3> QED BY <3>3, <3>4, <1>5
  <2> QED BY <2>2, <2>3
<1>12. ASSUME NEW i \in 1 .. M
       PROVE  /\ SA <= ss[i].raw
              /\ IsMade(ss[i]) => ss[i].rsize <= Huge
              /\ ~IsMade(ss[i]) => ss[i].rsize = Whole(ss[i])
  <2>1. CASE i \in 1 .. N
    BY <2>1, <1>3 DEF Spread
  <2>2. CASE i = M
    <3>1. 1 \in 1 .. N
      BY <1>1
    <3>2. RawEnd(secs[1]) <= raw
      BY <3>1, <1>3, <1>4
    <3>3. /\ SA <= secs[1].raw /\ RawEnd(secs[1]) = secs[1].raw + secs[1].rsize
          /\ secs[1].raw \in Int /\ secs[1].rsize \in Nat
      BY <3>1, <1>1, <1>2
    <3>4. SA <= raw
      BY <3>2, <3>3, <1>1
    <3> QED BY <2>2, <3>4, <1>3, <1>4, <1>7
  <2> QED BY <2>1, <2>2, <1>5
<1> QED
  BY <1>8, <1>10, <1>11, <1>12 DEF Spread

\* What is appended has the size it was asked for
LEMMA HugeIs ==
    ASSUME NothingAppendedIsHuge, InputOK
    PROVE  /\ AlignUp(input.pdata, FA) <= Huge
           /\ AlignUp(Reservation, FA) = Reservation /\ Reservation <= Huge
           /\ AlignUp(ImportSize, FA) <= Huge
<1>1. /\ FA \in Nat \ {0} /\ SA \in Nat \ {0} /\ Huge \in Nat
      /\ \A n \in Nat : AlignUp(n, FA) <= AlignUp(n, SA)
  BY SectionsOfFiles, DumpAssumption
<1>2. /\ input.pdata \in Nat /\ input.import \in Nat /\ input.estimate \in Nat
      /\ Reserve \in Nat /\ ImportMin \in Nat
  BY InputIs, DumpAssumption
<1>3. ASSUME NEW n \in Nat, AlignUp(n, SA) <= Huge PROVE AlignUp(n, FA) <= Huge
  <2>1. AlignUp(n, FA) \in Nat /\ AlignUp(n, SA) \in Nat /\ AlignUp(n, FA) <= AlignUp(n, SA)
    BY <1>1, AlignUpIs
  <2> QED BY <2>1, <1>1, <1>3
<1>4. /\ AlignUp(input.pdata, SA) <= Huge /\ AlignUp(input.import, SA) <= Huge
      /\ AlignUp(input.estimate, SA) <= Huge /\ AlignUp(SA, SA) <= Huge
      /\ AlignUp(Reserve, SA) <= Huge /\ AlignUp(ImportMin, SA) <= Huge
  BY DEF NothingAppendedIsHuge, InputOK
<1>5. /\ Reservation \in Nat /\ IsMultiple(Reservation, SA)
      /\ Reservation \in {SA, Reserve, AlignUp(input.estimate, SA)}
  BY ReservationIs
<1>6. AlignUp(Reservation, FA) = Reservation
  <2>1. IsMultiple(Reservation, FA)
    BY <1>5, SectionsOfFiles
  <2> QED BY <2>1, <1>1, AlignUpStays
<1>7. Reservation <= Huge
  <2>1. AlignUp(Reservation, SA) = Reservation
    BY <1>1, <1>5, AlignUpStays
  <2>2. CASE Reservation \in {SA, Reserve}
    BY <2>1, <2>2, <1>4
  <2>3. CASE Reservation = AlignUp(input.estimate, SA)
    BY <2>3, <1>4
  <2> QED BY <2>2, <2>3, <1>5
<1>8. AlignUp(ImportSize, FA) <= Huge
  <2>1. CASE ImportSize = ImportMin
    BY <2>1, <1>2, <1>3, <1>4
  <2>2. CASE ImportSize = AlignUp(input.import, FA)
    <3>1. IsMultiple(AlignUp(input.import, FA), FA) /\ AlignUp(input.import, FA) <= Huge
      BY <1>1, <1>2, <1>3, <1>4, AlignUpIs
    <3>2. AlignUp(AlignUp(input.import, FA), FA) = AlignUp(input.import, FA)
      BY <3>1, <1>1, AlignUpStays
    <3> QED BY <2>2, <3>1, <3>2
  <2> QED BY <2>1, <2>2 DEF ImportSize
<1> QED
  BY <1>2, <1>3, <1>4, <1>6, <1>7, <1>8

LEMMA RoomPdata ==
    ASSUME NothingAppendedIsHuge, LayoutInv, RoomInv, CreatePdata
    PROVE  RoomInv'
<1>1. /\ pc = "pdata" /\ pc' = "reloc"
      /\ UNCHANGED <<input, table>>
  BY DEF CreatePdata, Step
<1>2. Sound /\ InputOK /\ LiveFirst(secs) /\ Spread(secs)
  BY <1>1, LayoutIsSound DEF RoomInv, Appending
<1>3. PICK ss : ss = secs'
  OBVIOUS
<1>4. Spread(ss) /\ LiveFirst(ss)
  <2>1. CASE UNCHANGED <<secs, soi>>
    BY <2>1, <1>2, <1>3
  <2>2. CASE input.pdata > 0 /\ secs' = WithSection("pdata", input.pdata)
    <3>1. /\ "pdata" \in Made /\ input.pdata \in Nat \ {0}
          /\ ss = WithSection("pdata", input.pdata) /\ AlignUp(input.pdata, FA) <= Huge
      BY <2>2, <1>2, <1>3, InputIs, HugeIs DEF Made
    <3> QED BY <3>1, <1>2, AppendSpreads
  <2> QED BY <2>1, <2>2 DEF CreatePdata
<1>5. Spread(secs)'
  BY <1>1, <1>3, <1>4, SpreadStays
<1>6. LiveFirst(secs)'
  BY <1>3, <1>4 DEF LiveFirst, IsMade
<1>7. \A rva \in table' : rva \in Nat
  BY <1>1 DEF RoomInv
<1> QED
  BY <1>1, <1>5, <1>6, <1>7 DEF RoomInv, Appending, Filed, Reserved, ReservationHolds

LEMMA RoomReloc ==
    ASSUME NothingAppendedIsHuge, LayoutInv, RoomInv, CreateReloc
    PROVE  RoomInv'
<1>1. /\ pc = "reloc" /\ pc' = "import"
      /\ UNCHANGED <<input, table>>
  BY DEF CreateReloc, Step
<1>2. /\ Sound /\ InputOK /\ LiveFirst(secs) /\ Spread(secs)
      /\ Absent(secs, {"reloc", "import"}) /\ \A i \in 1 .. Len(secs) : 0 <= secs[i].raw
  BY <1>1, LayoutIsSound DEF RoomInv, Appending, Stage
<1>3. PICK ss : ss = secs'
  OBVIOUS
<1>4. /\ Spread(ss) /\ LiveFirst(ss)
      /\ \A i \in 1 .. Len(ss) : ss[i].name = "reloc" => ss[i].rsize = Reservation
  <2>1. CASE UNCHANGED <<secs, soi>>
    BY <2>1, <1>2, <1>3 DEF Absent
  <2>2. CASE secs' = WithSection("reloc", Reservation)
    <3>1. /\ "reloc" \in Made /\ Reservation \in Nat \ {0}
          /\ ss = WithSection("reloc", Reservation)
          /\ AlignUp(Reservation, FA) = Reservation /\ AlignUp(Reservation, FA) <= Huge
      BY <2>2, <1>2, <1>3, ReservationIs, HugeIs DEF Made
    <3>2. Spread(ss) /\ LiveFirst(ss)
      BY <3>1, <1>2, AppendSpreads
    <3>3. /\ Len(ss) = Len(secs) + 1
          /\ \A i \in 1 .. Len(secs) : ss[i] = secs[i]
          /\ ss[Len(ss)].rsize = AlignUp(Reservation, FA)
      BY <3>1, <1>2, AppendLayout
    <3>4. \A i \in 1 .. Len(ss) : i \in 1 .. Len(secs) \/ i = Len(ss)
      <4>1. Len(secs) \in Nat
        BY <1>2, TableIs DEF Sound
      <4> QED BY <4>1, <3>3
    <3> QED BY <3>1, <3>2, <3>3, <3>4, <1>2 DEF Absent
  <2> QED BY <2>1, <2>2 DEF CreateReloc
<1>5. Spread(secs)'
  BY <1>1, <1>3, <1>4, SpreadStays
<1>6. LiveFirst(secs)'
  BY <1>3, <1>4 DEF LiveFirst, IsMade
<1>7. ReservationStands'
  BY <1>1, <1>3, <1>4 DEF ReservationStands, Reservation
<1>8. \A rva \in table' : rva \in Nat
  BY <1>1 DEF RoomInv
<1> QED
  BY <1>1, <1>5, <1>6, <1>7, <1>8 DEF RoomInv, Appending, Filed, ReservationHolds

LEMMA RoomImport ==
    ASSUME NothingAppendedIsHuge, LayoutInv, RoomInv, CreateImport
    PROVE  RoomInv'
<1>1. /\ pc = "import" /\ pc' = "trim"
      /\ UNCHANGED <<input, table>>
  BY DEF CreateImport, Step
<1>2. /\ Sound /\ InputOK /\ LiveFirst(secs) /\ Spread(secs) /\ ReservationStands
      /\ \A i \in 1 .. Len(secs) : 0 <= secs[i].raw
  BY <1>1, LayoutIsSound DEF RoomInv, Appending, Stage, Reserved
<1>3. PICK ss : ss = secs'
  OBVIOUS
<1>4. /\ Spread(ss) /\ LiveFirst(ss)
      /\ \A i \in 1 .. Len(ss) :
            ss[i].name = "reloc" /\ IsMade(ss[i]) => ss[i].rsize = Reservation
  <2>1. CASE UNCHANGED <<secs, soi, hinted>>
    BY <2>1, <1>2, <1>3 DEF ReservationStands
  <2>2. CASE secs' = WithSection("import", ImportSize)
    <3>1. /\ "import" \in Made /\ ImportSize \in Nat \ {0}
          /\ ss = WithSection("import", ImportSize) /\ AlignUp(ImportSize, FA) <= Huge
      <4>1. AlignUp(input.import, FA) \in Nat
        BY <1>2, InputIs, SectionsOfFiles, AlignUpIs
      <4>2. ImportMin \in Nat \ {0}
        BY DumpAssumption
      <4>3. ImportSize \in Nat \ {0}
        BY <4>1, <4>2 DEF ImportSize
      <4> QED BY <4>3, <2>2, <1>2, <1>3, HugeIs DEF Made
    <3>2. Spread(ss) /\ LiveFirst(ss)
      BY <3>1, <1>2, AppendSpreads
    <3>3. /\ Len(ss) = Len(secs) + 1
          /\ \A i \in 1 .. Len(secs) : ss[i] = secs[i]
          /\ ss[Len(ss)].name = "import"
      BY <3>1, <1>2, AppendLayout
    <3>4. \A i \in 1 .. Len(ss) : i \in 1 .. Len(secs) \/ i = Len(ss)
      <4>1. Len(secs) \in Nat
        BY <1>2, TableIs DEF Sound
      <4> QED BY <4>1, <3>3
    <3> QED BY <3>2, <3>3, <3>4, <1>2 DEF ReservationStands
  <2> QED BY <2>1, <2>2 DEF CreateImport, ImportSize
<1>5. Spread(secs)'
  BY <1>1, <1>3, <1>4, SpreadStays
<1>6. LiveFirst(secs)'
  BY <1>3, <1>4 DEF LiveFirst, IsMade
<1>7. ReservationStands'
  BY <1>1, <1>3, <1>4 DEF ReservationStands, Reservation, IsMade
<1>8. \A rva \in table' : rva \in Nat
  BY <1>1 DEF RoomInv
<1> QED
  BY <1>1, <1>5, <1>6, <1>7, <1>8 DEF RoomInv, Appending, Filed, ReservationHolds

\* What one trimmed section does to the others
LEMMA TrimFields ==
    ASSUME NEW ss, NEW i \in 1 .. Len(ss), NEW x, x = TrimmedOne(ss, i),
           IsTable(ss), Trims(ss, i)
    PROVE  /\ SameImage(x, ss)
           /\ MovedBy(ss, i) \in Nat /\ NewSize(ss, i) \in Nat
           /\ NewSize(ss, i) < ss[i].rsize
           /\ MovedBy(ss, i) + NewSize(ss, i) = AlignUp(ss[i].rsize, SA)
           /\ MovedBy(ss, i) + NewSize(ss, i) < ss[i].rsize + SA
           /\ x[i].raw = ss[i].raw /\ x[i].rsize = NewSize(ss, i)
           /\ \A k \in 1 .. Len(ss) : k < i => x[k] = ss[k]
           /\ \A k \in 1 .. Len(ss) :
                 k > i => /\ x[k].raw = ss[k].raw - MovedBy(ss, i)
                          /\ x[k].rsize = ss[k].rsize
<1>1. PICK m \in Nat, z \in Nat : m = MovedBy(ss, i) /\ z = NewSize(ss, i)
  BY TrimmedOneIs
<1>2. /\ z < ss[i].rsize
      /\ m + z = AlignUp(ss[i].rsize, SA) /\ m + z < ss[i].rsize + SA
      /\ \A k \in 1 .. Len(ss) :
            x[k] = IF k < i THEN ss[k]
                   ELSE IF k = i THEN [ss[k] EXCEPT !.rsize = z]
                   ELSE [ss[k] EXCEPT !.raw = ss[k].raw - m]
      /\ x \in Trimmings(ss)
  <2>1. /\ NewSize(ss, i) < ss[i].rsize
        /\ MovedBy(ss, i) + NewSize(ss, i) = AlignUp(ss[i].rsize, SA)
        /\ MovedBy(ss, i) + NewSize(ss, i) < ss[i].rsize + SA
        /\ TrimmedOne(ss, i) \in Trimmings(ss)
    BY TrimmedOneIs
  <2>2. \A k \in 1 .. Len(ss) :
           TrimmedOne(ss, i)[k] =
              IF k < i THEN ss[k]
              ELSE IF k = i THEN [ss[k] EXCEPT !.rsize = NewSize(ss, i)]
              ELSE [ss[k] EXCEPT !.raw = ss[k].raw - MovedBy(ss, i)]
    BY TrimmedOneIs, Zenon
  <2>3. \A k \in 1 .. Len(ss) :
           x[k] = IF k < i THEN ss[k]
                  ELSE IF k = i THEN [ss[k] EXCEPT !.rsize = z]
                  ELSE [ss[k] EXCEPT !.raw = ss[k].raw - m]
    BY <2>2, <1>1, Zenon
  <2>4. /\ z < ss[i].rsize /\ x \in Trimmings(ss)
        /\ m + z = AlignUp(ss[i].rsize, SA) /\ m + z < ss[i].rsize + SA
    BY <2>1, <1>1
  <2> QED BY <2>3, <2>4, Zenon
<1>3. /\ Len(ss) \in Nat /\ \A k \in 1 .. Len(ss) : ss[k] \in Section /\ ss[k].raw \in Int
  BY TableIs, SectionIs
<1>4. x[i].raw = ss[i].raw /\ x[i].rsize = z
  <2>1. x[i] = [ss[i] EXCEPT !.rsize = z]
    <3>1. ~(i < i)
      OBVIOUS
    <3> QED BY <3>1, <1>2, Zenon
  <2>2. PICK c : c = [ss[i] EXCEPT !.rsize = z]
    OBVIOUS
  <2>3. c.raw = ss[i].raw /\ c.rsize = z
    BY <2>2, <1>3, ResizedIs
  <2>4. x[i] = c
    BY <2>1, <2>2, Zenon
  <2> QED BY <2>3, <2>4, Zenon
<1>5. \A k \in 1 .. Len(ss) : k < i => x[k] = ss[k]
  BY <1>2, Zenon
<1>6. ASSUME NEW k \in 1 .. Len(ss), k > i
      PROVE  x[k].raw = ss[k].raw - m /\ x[k].rsize = ss[k].rsize
  <2>1. ~(k < i) /\ k # i
    BY <1>6, <1>3
  <2>2. x[k] = [ss[k] EXCEPT !.raw = ss[k].raw - m]
    BY <2>1, <1>2, Zenon
  <2>3. PICK c : c = [ss[k] EXCEPT !.raw = ss[k].raw - m]
    OBVIOUS
  <2>4. ss[k].raw - m \in Int
    BY <1>3
  <2>5. c.raw = ss[k].raw - m /\ c.rsize = ss[k].rsize
    BY <2>3, <2>4, <1>3, MovedIs
  <2>6. x[k] = c
    BY <2>2, <2>3, Zenon
  <2> QED BY <2>5, <2>6, Zenon
<1>7. SameImage(x, ss)
  BY <1>2 DEF Trimmings
<1> QED
  BY <1>1, <1>2, <1>4, <1>5, <1>6, <1>7

\* Where the trimming of a table stands before section "from"
TrimmedSo(ss, old, from) ==
    /\ SameImage(ss, old)
    /\ \A i \in 1 .. Len(old) :
          /\ from <= i \/ IsMade(old[i]) => ss[i].rsize = old[i].rsize
          /\ 1 <= ss[i].raw
          /\ ~IsMade(old[i]) => SA <= ss[i].raw
    /\ Well(ss) => Ordered(ss) /\ Roomy(ss, from)

LEMMA SameKinds ==
    ASSUME NEW ss, NEW old, SameImage(ss, old), Len(old) \in Nat
    PROVE  /\ Len(ss) = Len(old)
           /\ \A i \in 1 .. Len(old) : IsMade(ss[i]) <=> IsMade(old[i])
           /\ \A i \in 1 .. Len(old) : Zeroed(ss[i]) <=> Zeroed(old[i])
           /\ \A i \in 1 .. Len(old) : Loose(ss, i) <=> Loose(old, i)
<1>1. /\ Len(ss) = Len(old)
      /\ \A i \in 1 .. Len(old) : ss[i].kind = old[i].kind /\ ss[i].size = old[i].size
  BY DEF SameImage
<1>2. \A i \in 1 .. Len(old) : i < Len(old) => i + 1 \in 1 .. Len(old)
  OBVIOUS
<1>3. /\ \A i \in 1 .. Len(old) : IsMade(ss[i]) <=> IsMade(old[i])
      /\ \A i \in 1 .. Len(old) : Zeroed(ss[i]) <=> Zeroed(old[i])
  BY <1>1 DEF IsMade, Zeroed
<1>4. \A i \in 1 .. Len(old) : Loose(ss, i) <=> Loose(old, i)
  BY <1>1, <1>2, <1>3 DEF Loose
<1> QED
  BY <1>1, <1>3, <1>4

\* A section that is trimmed is one of memory, and those before it stand well
LEMMA TrimmedIsLive ==
    ASSUME NEW old, IsTable(old), LiveFirst(old), Spread(old),
           NEW i \in 1 .. Len(old), NEW s, TrimmedSo(s, old, i), Trims(s, i)
    PROVE  /\ ~IsMade(old[i]) /\ ~Zeroed(old[i])
           /\ s[i].rsize = old[i].size
           /\ Ordered(s) /\ Roomy(s, i)
<1> DEFINE N == Len(old)
<1>1. /\ N \in Nat /\ SameImage(s, old) /\ IsTable(s) /\ Len(s) = N
      /\ Huge \in Nat /\ FA \in Nat \ {0} /\ FA <= Huge
  BY TableIs, DumpAssumption DEF TrimmedSo, SameImage
<1>2. PICK size \in Nat, rsize \in Nat, e \in Nat :
         size = old[i].size /\ rsize = s[i].rsize /\ e = DataEnd(s[i])
  <2>1. old[i] \in Section /\ s[i] \in Section
    BY <1>1, TableIs
  <2>2. old[i].size \in Nat /\ s[i].rsize \in Nat /\ DataEnd(s[i]) \in 0 .. s[i].rsize
    BY <2>1, SectionIs, DataEndIs
  <2> QED BY <2>2
<1>3. rsize - e > Huge
  BY <1>2 DEF Trims
<1>4. s[i].rsize = old[i].rsize
  <2>1. i <= i
    OBVIOUS
  <2> QED BY <2>1 DEF TrimmedSo
<1>5. ~IsMade(old[i])
  <2>1. IsMade(old[i]) => old[i].rsize <= Huge
    BY DEF Spread
  <2> QED BY <2>1, <1>1, <1>2, <1>3, <1>4
<1>6. ~Zeroed(old[i]) /\ rsize = size
  <2>1. old[i].rsize = IF Zeroed(old[i]) THEN 0 ELSE old[i].size
    BY <1>5 DEF Spread, Whole
  <2>2. rsize = IF Zeroed(old[i]) THEN 0 ELSE size
    BY <2>1, <1>2, <1>4
  <2> QED BY <2>2, <1>1, <1>3, <1>2
<1>7. ASSUME NEW k \in 1 .. N, Trimmed(s[k]), Loose(s, k) PROVE FALSE
  <2>1. k < N /\ IsMade(old[k + 1]) /\ ~IsMade(old[k]) /\ k + 1 \in 1 .. N
    <3>1. k < N /\ IsMade(s[k + 1]) /\ ~IsMade(s[k])
      BY <1>1, <1>7 DEF Loose
    <3>2. k + 1 \in 1 .. N
      BY <3>1, <1>1
    <3> QED BY <3>1, <3>2, <1>1, SameKinds
  <2>2. i <= k
    <3> SUFFICES ASSUME ~(i <= k) PROVE FALSE
      OBVIOUS
    <3>1. CASE k + 1 = i
      BY <2>1, <3>1, <1>5
    <3>2. CASE k + 1 # i
      <4>1. k + 1 < i
        BY <3>2, <1>1
      <4> QED BY <4>1, <2>1, <1>5 DEF LiveFirst
    <3> QED BY <3>1, <3>2
  <2>3. s[k].rsize = old[k].rsize /\ old[k].rsize = Whole(old[k])
    BY <2>1, <2>2 DEF TrimmedSo, Spread
  <2>4. ~Zeroed(old[k]) /\ s[k].rsize < s[k].size /\ s[k].size = old[k].size
    <3>1. ~Zeroed(s[k]) /\ s[k].rsize < s[k].size
      BY <1>7 DEF Trimmed
    <3>2. s[k].size = old[k].size
      BY <1>1 DEF SameImage
    <3> QED BY <3>1, <3>2, <1>1, SameKinds
  <2>5. old[k].size \in Nat
    BY TableIs, SectionIs
  <2>6. s[k].rsize = old[k].size
    BY <2>3, <2>4 DEF Whole
  <2> QED BY <2>4, <2>5, <2>6
<1>8. Ordered(s) /\ Roomy(s, i)
  <2>1. Well(s)
    BY <1>1, <1>7 DEF Well
  <2> QED BY <2>1 DEF TrimmedSo
<1> QED
  BY <1>2, <1>5, <1>6, <1>8

LEMMA ShiftAfter ==
    ASSUME NEW a \in Int, NEW b \in Int, NEW m \in Nat, NEW z \in Nat, a + (m + z) <= b
    PROVE  a + z <= b - m
OBVIOUS

LEMMA ShiftBefore ==
    ASSUME NEW a \in Int, NEW b \in Int, NEW c \in Int, NEW n \in Nat, NEW m \in Nat,
           NEW z \in Nat, a + n <= c, c + z <= b - m
    PROVE  a + n <= b - m
OBVIOUS

LEMMA ShiftBoth ==
    ASSUME NEW a \in Int, NEW b \in Int, NEW n \in Nat, NEW m \in Nat, a + n <= b
    PROVE  (a - m) + n <= b - m
OBVIOUS

LEMMA ShiftLoose ==
    ASSUME NEW a \in Int, NEW b \in Int, NEW n \in Nat, NEW m \in Nat, NEW z \in Nat,
           NEW d \in Nat, a + n <= b, m + z < n + d, d <= a
    PROVE  1 <= b - m
OBVIOUS

LEMMA TrimsNext ==
    ASSUME NEW old, IsTable(old), LiveFirst(old), Spread(old),
           NEW i \in 1 .. Len(old), NEW s, TrimmedSo(s, old, i), Trims(s, i),
           NEW x, x = TrimmedOne(s, i)
    PROVE  TrimmedSo(x, old, i + 1)
<1> DEFINE N == Len(old)
<1>1. /\ N \in Nat /\ SameImage(s, old) /\ IsTable(s) /\ Len(s) = N /\ i \in 1 .. Len(s)
      /\ SA \in Nat \ {0}
  BY TableIs, SectionsOfFiles DEF TrimmedSo, SameImage
<1>2. /\ ~IsMade(old[i]) /\ ~Zeroed(old[i]) /\ s[i].rsize = old[i].size
      /\ Ordered(s) /\ Roomy(s, i)
  BY TrimmedIsLive
<1>3. SameImage(x, s)
  BY <1>1, TrimFields
<1>4. PICK m \in Nat, z \in Nat :
          /\ z < s[i].rsize
          /\ m + z = AlignUp(s[i].rsize, SA) /\ m + z < s[i].rsize + SA
          /\ x[i].raw = s[i].raw /\ x[i].rsize = z
          /\ \A k \in 1 .. N : k < i => x[k] = s[k]
          /\ \A k \in 1 .. N : k > i => x[k].raw = s[k].raw - m /\ x[k].rsize = s[k].rsize
  <2>1. /\ MovedBy(s, i) \in Nat /\ NewSize(s, i) \in Nat
        /\ NewSize(s, i) < s[i].rsize
        /\ MovedBy(s, i) + NewSize(s, i) = AlignUp(s[i].rsize, SA)
        /\ MovedBy(s, i) + NewSize(s, i) < s[i].rsize + SA
        /\ x[i].raw = s[i].raw /\ x[i].rsize = NewSize(s, i)
        /\ \A k \in 1 .. Len(s) : k < i => x[k] = s[k]
        /\ \A k \in 1 .. Len(s) :
              k > i => /\ x[k].raw = s[k].raw - MovedBy(s, i)
                       /\ x[k].rsize = s[k].rsize
    <3>1. IsTable(s) /\ i \in 1 .. Len(s) /\ x = TrimmedOne(s, i) /\ Trims(s, i)
      BY <1>1
    <3> QED BY <3>1, TrimFields
  <2> QED BY <2>1, <1>1
<1>5. SameImage(x, old) /\ Len(x) = N
  BY <1>1, <1>3, SameImageChain DEF SameImage
<1>6. \A k \in 1 .. N : /\ s[k].raw \in Int /\ s[k].rsize \in Nat
                        /\ RawEnd(s[k]) = s[k].raw + s[k].rsize
                        /\ x[k].raw \in Int /\ x[k].rsize \in Nat
                        /\ RawEnd(x[k]) = x[k].raw + x[k].rsize
  <2>1. \A k \in 1 .. N : s[k] \in Section /\ x[k] \in Section
    BY <1>1, <1>5, TableIs DEF SameImage
  <2> QED BY <2>1, SectionIs DEF RawEnd
<1>7. PICK raw \in Int, rsize \in Nat : raw = s[i].raw /\ rsize = s[i].rsize
  BY <1>1, <1>6
<1>8. SA <= raw
  BY <1>1, <1>2, <1>7 DEF TrimmedSo
<1>9. ASSUME NEW k \in 1 .. N, k > i, ~Loose(old, i)
      PROVE  raw + z <= s[k].raw - m
  <2>1. s[i].raw + AlignUp(s[i].rsize, SA) <= s[k].raw
    <3>1. ~IsMade(s[i]) /\ ~Loose(s, i)
      BY <1>1, <1>2, <1>9, SameKinds
    <3>2. i < k /\ i <= i
      BY <1>9, <1>1
    <3> QED BY <3>1, <3>2, <1>1, <1>2 DEF Roomy
  <2>2. raw + (m + z) <= s[k].raw
    BY <2>1, <1>4, <1>7
  <2>3. s[k].raw \in Int
    BY <1>6
  <2> QED BY <2>2, <2>3, ShiftAfter
<1>10. ASSUME NEW k \in 1 .. N, k > i, Loose(old, i) PROVE IsMade(old[k])
  <2>1. IsMade(old[i + 1]) /\ i + 1 \in 1 .. N
    BY <1>1, <1>10 DEF Loose
  <2>2. CASE k = i + 1
    BY <2>1, <2>2
  <2>3. CASE k # i + 1
    <3>1. i + 1 < k
      BY <2>3, <1>1, <1>10
    <3> QED BY <3>1, <2>1 DEF LiveFirst
  <2> QED BY <2>2, <2>3
<1>11. ASSUME NEW k \in 1 .. N
       PROVE  /\ i + 1 <= k \/ IsMade(old[k]) => x[k].rsize = old[k].rsize
              /\ 1 <= x[k].raw
              /\ ~IsMade(old[k]) => SA <= x[k].raw
  <2>1. /\ i <= k \/ IsMade(old[k]) => s[k].rsize = old[k].rsize
        /\ 1 <= s[k].raw /\ (~IsMade(old[k]) => SA <= s[k].raw)
    BY DEF TrimmedSo
  <2>2. CASE k < i
    <3>1. x[k] = s[k] /\ ~(i + 1 <= k)
      BY <2>2, <1>1, <1>4
    <3> QED BY <3>1, <2>1
  <2>3. CASE k = i
    <3>1. x[k].raw = s[k].raw /\ ~(i + 1 <= k) /\ ~IsMade(old[k])
      BY <2>3, <1>1, <1>2, <1>4
    <3> QED BY <3>1, <2>1
  <2>4. CASE k > i
    <3>1. x[k].raw = s[k].raw - m /\ x[k].rsize = s[k].rsize /\ i <= k
      BY <2>4, <1>1, <1>4
    <3>2. CASE ~Loose(old, i)
      <4>1. raw + z <= s[k].raw - m
        BY <2>4, <3>2, <1>9
      <4>2. SA <= s[k].raw - m /\ 1 <= s[k].raw - m
        BY <4>1, <1>1, <1>6, <1>7, <1>8, SMTT(40)
      <4> QED BY <4>2, <3>1, <2>1
    <3>3. CASE Loose(old, i)
      <4>1. IsMade(old[k])
        BY <2>4, <3>3, <1>10
      <4>2. raw + rsize <= s[k].raw
        <5>1. RawEnd(s[i]) <= s[k].raw
          BY <2>4, <1>1, <1>2 DEF Ordered
        <5> QED BY <5>1, <1>1, <1>6, <1>7
      <4>3. m + z < rsize + SA
        BY <1>4, <1>7
      <4>4. 1 <= s[k].raw - m
        <5>1. s[k].raw \in Int
          BY <1>6
        <5> QED BY <5>1, <4>2, <4>3, <1>1, <1>8, ShiftLoose
      <4> QED BY <4>1, <4>4, <3>1, <2>1
    <3> QED BY <3>2, <3>3
  <2> QED BY <2>2, <2>3, <2>4, <1>1
<1>12. ASSUME Well(x) PROVE Ordered(x) /\ Roomy(x, i + 1)
  <2>1. ~Loose(old, i)
    <3>1. SUFFICES ASSUME Loose(old, i) PROVE FALSE
      OBVIOUS
    <3>2. Loose(x, i) /\ ~Zeroed(x[i]) /\ ~IsMade(x[i])
      BY <3>1, <1>1, <1>2, <1>5, SameKinds
    <3>3. x[i].rsize < x[i].size
      <4>1. x[i].size = old[i].size
        BY <1>1, <1>5 DEF SameImage
      <4> QED BY <4>1, <1>2, <1>4
    <3>4. Trimmed(x[i])
      BY <3>2, <3>3 DEF Trimmed, IsMade
    <3> QED BY <3>2, <3>4, <1>12, <1>1, <1>5 DEF Well
  <2>2. ASSUME NEW a \in 1 .. N, NEW b \in 1 .. N, a < b
        PROVE  RawEnd(x[a]) <= x[b].raw
    <3>1. s[a].raw + s[a].rsize <= s[b].raw
      <4>1. RawEnd(s[a]) <= s[b].raw
        BY <2>2, <1>1, <1>2 DEF Ordered
      <4> QED BY <4>1, <1>6
    <3>2. RawEnd(x[a]) = x[a].raw + x[a].rsize
      BY <1>6
    <3>3. CASE b < i
      <4>1. x[a] = s[a] /\ x[b] = s[b]
        BY <2>2, <3>3, <1>1, <1>4
      <4> QED BY <4>1, <3>1, <3>2
    <3>4. CASE b = i
      <4>1. x[a] = s[a] /\ x[b].raw = s[b].raw
        BY <2>2, <3>4, <1>1, <1>4
      <4> QED BY <4>1, <3>1, <3>2
    <3>5. CASE b > i
      <4>1. x[b].raw = s[b].raw - m /\ raw + z <= s[b].raw - m
        BY <2>1, <3>5, <1>4, <1>9
      <4>2. CASE a < i
        <5>1. x[a] = s[a]
          BY <4>2, <1>4
        <5>2. s[a].raw + s[a].rsize <= raw
          <6>1. RawEnd(s[a]) <= s[i].raw
            BY <4>2, <1>1, <1>2 DEF Ordered
          <6> QED BY <6>1, <1>6, <1>7
        <5>4. s[a].raw \in Int /\ s[a].rsize \in Nat /\ s[b].raw \in Int
          BY <1>6
        <5>5. s[a].raw + s[a].rsize <= s[b].raw - m
          <6>1. raw + z <= s[b].raw - m
            BY <4>1
          <6> QED BY <5>2, <5>4, <6>1, ShiftBefore
        <5> QED BY <4>1, <5>1, <5>5, <3>2
      <4>3. CASE a = i
        <5>1. RawEnd(x[a]) = raw + z
          BY <4>3, <3>2, <1>4, <1>7
        <5> QED BY <5>1, <4>1
      <4>4. CASE a > i
        <5>1. x[a].raw = s[a].raw - m /\ x[a].rsize = s[a].rsize
          BY <4>4, <1>4
        <5>2. s[a].raw \in Int /\ s[a].rsize \in Nat /\ s[b].raw \in Int
          BY <1>6
        <5>3. (s[a].raw - m) + s[a].rsize <= s[b].raw - m
          BY <5>2, <3>1, ShiftBoth
        <5> QED BY <5>1, <5>3, <4>1, <3>2
      <4> QED BY <4>2, <4>3, <4>4, <1>1
    <3> QED BY <3>3, <3>4, <3>5, <1>1
  <2>3. ASSUME NEW a \in 1 .. N, NEW b \in 1 .. N, i + 1 <= a, a < b,
               ~IsMade(x[a]), ~Loose(x, a)
        PROVE  x[a].raw + AlignUp(x[a].rsize, SA) <= x[b].raw
    <3>1. a > i /\ b > i /\ i <= a
      BY <2>3, <1>1
    <3>2. ~IsMade(s[a]) /\ ~Loose(s, a)
      <4>1. ~IsMade(old[a]) /\ ~Loose(old, a)
        BY <2>3, <1>1, <1>5, SameKinds
      <4> QED BY <4>1, <1>1, SameKinds
    <3>3. s[a].raw + AlignUp(s[a].rsize, SA) <= s[b].raw
      BY <2>3, <3>1, <3>2, <1>1, <1>2 DEF Roomy
    <3>4. /\ x[a].raw = s[a].raw - m /\ x[a].rsize = s[a].rsize
          /\ x[b].raw = s[b].raw - m
      BY <3>1, <1>4
    <3>5. /\ s[a].raw \in Int /\ AlignUp(s[a].rsize, SA) \in Nat /\ s[b].raw \in Int
      BY <1>1, <1>6, AlignUpIs
    <3> QED BY <3>3, <3>4, <3>5, SMTT(40)
  <2> QED BY <2>2, <2>3, <1>5 DEF Ordered, Roomy
<1> QED
  BY <1>5, <1>11, <1>12 DEF TrimmedSo

\* Each of the tables of the walk
TrimsSo(t, old) == \A n \in 0 .. Len(old) : TrimmedSo(t[n], old, n + 1)

LEMMA TrimRoom ==
    ASSUME NEW old, IsTable(old), LiveFirst(old), Spread(old), NEW t, TrimWalk(t, old)
    PROVE  TrimsSo(t, old) /\ TrimmedSo(TrimmedAll(old), old, Len(old) + 1)
<1> DEFINE N == Len(old)
<1>1. TrimWalk(t, old)
  OBVIOUS
<1>2. /\ t \in [0 .. N -> Trimmings(old)]
      /\ t[0] = old /\ t[N] = TrimmedAll(old)
      /\ \A n \in 1 .. N : t[n] = TrimmedOne(t[n - 1], n)
  BY <1>1 DEF TrimWalk
<1>3. /\ N \in Nat \ {0} /\ SA \in Nat \ {0}
      /\ \A i \in 1 .. N : old[i].raw \in Int
  BY TableIs, SectionIs, SectionsOfFiles
<1> DEFINE T == {n \in 0 .. N : TrimmedSo(t[n], old, n + 1)}
<1>4. 0 \in T
  <2>1. SameImage(old, old)
    BY SameImageSelf
  <2>2. \A i \in 1 .. N : 1 <= old[i].raw /\ SA <= old[i].raw
    <3>1. \A i \in 1 .. N : SA <= old[i].raw
      BY DEF Spread
    <3> QED BY <3>1, <1>3
  <2>3. Ordered(old) /\ Roomy(old, 1)
    BY DEF Spread
  <2>4. TrimmedSo(old, old, 1)
    BY <2>1, <2>2, <2>3 DEF TrimmedSo
  <2>5. 0 + 1 = 1 /\ 0 \in 0 .. N
    BY <1>3
  <2> QED BY <2>4, <2>5, <1>2
<1>5. ASSUME NEW n \in 0 .. N - 1, n \in T PROVE n + 1 \in T
  <2>1. PICK i \in 1 .. N : i = n + 1
    BY <1>3
  <2>2. PICK s : s = t[n]
    OBVIOUS
  <2>3. TrimmedSo(s, old, i)
    BY <1>5, <2>1, <2>2
  <2>4. t[i] = TrimmedOne(s, i)
    <3>1. i - 1 = n
      BY <2>1
    <3> QED BY <3>1, <2>2, <1>2
  <2>5. TrimmedSo(t[i], old, i + 1)
    <3>1. CASE Trims(s, i)
      BY <2>3, <2>4, <3>1, TrimsNext
    <3>2. CASE ~Trims(s, i)
      <4>1. IsTable(s) /\ Len(s) = N
        BY <2>3 DEF TrimmedSo, SameImage
      <4>2. t[i] = s
        BY <4>1, <2>4, <3>2, TrimmedOneIs
      <4>3. TrimmedSo(s, old, i + 1)
        <5>1. \A k \in 1 .. N : i + 1 <= k => i <= k
          BY <2>1
        <5>2. Roomy(s, i) => Roomy(s, i + 1)
          <6>1. \A k \in 1 .. Len(s) : i + 1 <= k => i <= k
            BY <5>1, <4>1
          <6> QED BY <6>1 DEF Roomy
        <5> QED BY <2>3, <5>1, <5>2 DEF TrimmedSo
      <4> QED BY <4>2, <4>3
    <3> QED BY <3>1, <3>2
  <2> QED BY <2>1, <2>5, <1>5
<1> HIDE DEF T
<1>6. \A n \in 0 .. N : n \in T
  <2>1. 0 \in Int /\ N \in Int
    BY <1>3
  <2> QED BY <1>4, <1>5, <2>1, UpFrom
<1>7. N \in T
  <2>1. N \in 0 .. N
    BY <1>3
  <2> QED BY <2>1, <1>6
<1>8. TrimsSo(t, old)
  BY <1>6 DEF T, TrimsSo
<1> QED
  BY <1>7, <1>8, <1>2 DEF T

LEMMA RoomTrim ==
    ASSUME LayoutInv, RoomInv, TrimSections
    PROVE  RoomInv'
<1>1. /\ pc = "trim" /\ pc' = "write" /\ secs' = TrimmedAll(secs)
      /\ UNCHANGED <<input, table>>
  BY DEF TrimSections, Step
<1>2. /\ IsTable(secs) /\ secs[1].kind = "code"
      /\ LiveFirst(secs) /\ Spread(secs) /\ ReservationStands
  BY <1>1, LayoutIsSound DEF RoomInv, Appending, Reserved, Sound
<1>3. PICK ss : ss = secs'
  OBVIOUS
<1>4. TrimmedSo(ss, secs, Len(secs) + 1)
  <2>1. IsTable(secs) /\ LiveFirst(secs) /\ Spread(secs)
    BY <1>2
  <2>2. PICK t : TrimWalk(t, secs)
    BY <2>1, TrimmedAllIs
  <2>3. TrimmedSo(TrimmedAll(secs), secs, Len(secs) + 1)
    BY <2>1, <2>2, TrimRoom
  <2> QED BY <2>3, <1>1, <1>3
<1>5. /\ Len(ss) = Len(secs) /\ SameImage(ss, secs) /\ Len(secs) \in Nat \ {0}
      /\ \A i \in 1 .. Len(secs) : IsMade(ss[i]) <=> IsMade(secs[i])
  BY <1>2, <1>4, TableIs, SameKinds DEF TrimmedSo
<1>6. Standing(ss)
  <2>1. 1 \in 1 .. Len(secs) /\ ~IsMade(secs[1])
    BY <1>2, <1>5 DEF IsMade
  <2> QED BY <2>1, <1>4, <1>5 DEF TrimmedSo, Standing
<1>7. Well(ss) => Ordered(ss)
  BY <1>4 DEF TrimmedSo
<1>8. LiveFirst(ss)
  BY <1>2, <1>5 DEF LiveFirst
<1>9. \A i \in 1 .. Len(ss) :
         ss[i].name = "reloc" /\ IsMade(ss[i]) => ss[i].rsize = Reservation
  <2>1. \A i \in 1 .. Len(secs) : ss[i].name = secs[i].name
    BY <1>5 DEF SameImage
  <2>2. \A i \in 1 .. Len(secs) : IsMade(secs[i]) => ss[i].rsize = secs[i].rsize
    BY <1>4 DEF TrimmedSo
  <2> QED BY <2>1, <2>2, <1>2, <1>5 DEF ReservationStands
<1>10. Standing(secs)' /\ LiveFirst(secs)'
  BY <1>3, <1>6, <1>8 DEF Standing, LiveFirst, IsMade
<1>11. (Well(secs) => Ordered(secs))'
  BY <1>1, <1>3, <1>7 DEF Well, Ordered, Trimmed, Zeroed, Loose, IsMade
<1>12. ReservationStands'
  BY <1>1, <1>3, <1>9 DEF ReservationStands, Reservation, IsMade
<1>13. \A rva \in table' : rva \in Nat
  BY <1>1 DEF RoomInv
<1> QED
  BY <1>1, <1>10, <1>11, <1>12, <1>13 DEF RoomInv, Appending, Filed, ReservationHolds

LEMMA FileOfDomain ==
    ASSUME NEW f, NEW m \in Int, f \in [0 .. m - 1 -> Int], NEW n \in Int,
           DOMAIN f = 0 .. n - 1
    PROVE  f \in [0 .. n - 1 -> Int]
OBVIOUS

\* Nothing moves a section that is where it was before
LEMMA RoomWrite ==
    ASSUME LayoutInv, LayoutInv', RoomInv, WriteOutput
    PROVE  RoomInv'
<1>1. /\ pc = "write" /\ pc' = "fix"
      /\ UNCHANGED <<input, table>>
      /\ secs' = [i \in DOMAIN secs |-> Clamped(secs[i])]
      /\ file' = [o \in 0 .. FileEnd(secs') - 1 |-> Filled(secs', o)]
  BY WriteIs
<1>2. /\ IsTable(secs) /\ secs[1].kind = "code" /\ LiveFirst(secs) /\ Standing(secs)
      /\ Well(secs) => Ordered(secs)
      /\ ReservationStands
  BY <1>1, LayoutIsSound DEF RoomInv, Reserved, Sound
<1>3. PICK ss : ss = secs'
  OBVIOUS
<1>4. /\ SameImage(ss, secs)
      /\ \A i \in 1 .. Len(secs) :
            /\ ss[i].rsize = secs[i].rsize
            /\ ss[i].raw = IF secs[i].rsize > 0 /\ secs[i].raw < MinRaw
                           THEN MinRaw ELSE secs[i].raw
  <2>1. ss = [i \in DOMAIN secs |-> Clamped(secs[i])] /\ IsTable(secs)
    BY <1>1, <1>2, <1>3
  <2> QED BY <2>1, ClampedAre
<1>5. /\ Len(ss) = Len(secs) /\ IsTable(ss) /\ Len(secs) \in Nat \ {0}
      /\ \A i \in 1 .. Len(secs) : /\ ss[i].kind = secs[i].kind
                                   /\ ss[i].size = secs[i].size
                                   /\ ss[i].name = secs[i].name
      /\ \A i \in 1 .. Len(secs) :
            /\ secs[i].raw \in Int /\ secs[i].rsize \in Nat
            /\ RawEnd(secs[i]) = secs[i].raw + secs[i].rsize
      /\ MinRaw \in Nat /\ SA \in Nat /\ MinRaw <= SA
  <2>1. \A i \in 1 .. Len(secs) : secs[i] \in Section
    BY <1>2, TableIs
  <2>2. MinRaw \in Nat /\ SA \in Nat /\ MinRaw <= SA
    BY DumpAssumption
  <2>3. Len(secs) \in Nat \ {0}
    BY <1>2, TableIs
  <2>4. \A i \in 1 .. Len(secs) :
            /\ secs[i].raw \in Int /\ secs[i].rsize \in Nat
            /\ RawEnd(secs[i]) = secs[i].raw + secs[i].rsize
    BY <2>1, SectionIs DEF RawEnd
  <2> QED BY <2>2, <2>3, <2>4, <1>4 DEF SameImage
<1>6. /\ Well(ss) => Well(secs)
      /\ LiveFirst(ss)
  <2>1. /\ Len(ss) = Len(secs) /\ Len(secs) \in Nat
        /\ \A i \in 1 .. Len(secs) : /\ ss[i].kind = secs[i].kind
                                     /\ ~IsMade(secs[i]) => /\ ss[i].size = secs[i].size
                                                            /\ ss[i].rsize = secs[i].rsize
    BY <1>4, <1>5
  <2> QED BY <2>1, <1>2, SameWell
<1>7. ASSUME Well(ss) PROVE Ordered(ss)
  <2>1. Ordered(secs)
    BY <1>2, <1>6, <1>7
  <2>2. ASSUME NEW i \in 1 .. Len(secs) PROVE SA <= secs[i].raw
    <3>1. SA <= secs[1].raw /\ 1 \in 1 .. Len(secs)
      BY <1>2, <1>5 DEF Standing
    <3>2. CASE i # 1
      <4>1. RawEnd(secs[1]) <= secs[i].raw
        BY <2>1, <3>1, <3>2 DEF Ordered
      <4>2. /\ secs[1].raw \in Int /\ secs[1].rsize \in Nat /\ secs[i].raw \in Int
            /\ RawEnd(secs[1]) = secs[1].raw + secs[1].rsize
        BY <3>1, <1>5
      <4>3. SA \in Nat
        BY <1>5
      <4> QED BY <3>1, <4>1, <4>2, <4>3
    <3> QED BY <3>1, <3>2
  <2>3. ASSUME NEW i \in 1 .. Len(secs) PROVE ss[i].raw = secs[i].raw /\ RawEnd(ss[i]) = RawEnd(secs[i])
    <3>1. ~(secs[i].raw < MinRaw)
      <4>1. SA <= secs[i].raw /\ secs[i].raw \in Int /\ MinRaw \in Nat /\ SA \in Nat /\ MinRaw <= SA
        BY <2>2, <1>5
      <4> QED BY <4>1
    <3>2. ss[i].raw = secs[i].raw /\ ss[i].rsize = secs[i].rsize
      BY <3>1, <1>4
    <3> QED BY <3>2 DEF RawEnd
  <2> QED BY <2>1, <2>3, <1>5 DEF Ordered
<1>8. \A i \in 1 .. Len(ss) : 0 <= ss[i].raw
  <2> SUFFICES ASSUME NEW i \in 1 .. Len(secs) PROVE 0 <= ss[i].raw
    BY <1>5
  <2>1. 1 <= secs[i].raw /\ secs[i].raw \in Int /\ MinRaw \in Nat
    BY <1>2, <1>5 DEF Standing
  <2>2. ss[i].raw \in {MinRaw, secs[i].raw}
    BY <1>4
  <2> QED BY <2>1, <2>2
<1>9. AllInFile'
  <2>1. PICK e \in Int : e = FileEnd(ss) /\ \A i \in 1 .. Len(ss) : RawEnd(ss[i]) <= e
    BY <1>5, FileEndIs
  <2>2. PICK m : FileOf(m)'
    BY <1>1 DEF LayoutInv, Stage, Filed
  <2>3. m \in Int /\ file' \in [0 .. m - 1 -> Int]
    BY <2>2 DEF FileOf
  <2>4. DOMAIN file' = 0 .. e - 1
    BY <1>1, <1>3, <2>1
  <2>5. file' \in [0 .. e - 1 -> Int]
    BY <2>3, <2>4, FileOfDomain
  <2> QED BY <1>3, <2>1, <2>5 DEF AllInFile, FileOf, RawEnd
<1>10. LiveFirst(secs)' /\ (\A i \in 1 .. Len(secs) : 0 <= secs[i].raw)'
  BY <1>3, <1>6, <1>8 DEF LiveFirst, IsMade
<1>11. (Well(secs) => Ordered(secs))'
  BY <1>1, <1>3, <1>7 DEF Well, Ordered, Trimmed, Zeroed, Loose, IsMade
<1>12. ReservationStands'
  <2>1. \A i \in 1 .. Len(ss) :
           ss[i].name = "reloc" /\ IsMade(ss[i]) => ss[i].rsize = Reservation
    BY <1>2, <1>4, <1>5, SMTT(40) DEF ReservationStands, IsMade
  <2> QED BY <1>1, <1>3, <2>1 DEF ReservationStands, Reservation, IsMade
<1>13. \A rva \in table' : rva \in Nat
  BY <1>1 DEF RoomInv
<1> QED
  BY <1>1, <1>9, <1>10, <1>11, <1>12, <1>13 DEF RoomInv, Appending, Filed, ReservationHolds

LEMMA RoomFix ==
    ASSUME LayoutInv, LayoutInv', RoomInv, FixAddresses
    PROVE  RoomInv'
<1>1. /\ pc = "fix" /\ pc' = AfterWriting
      /\ UNCHANGED <<input, secs, table>>
  BY FixIs
<1>2. PICK R : file' = [o \in DOMAIN file |-> IF o \in R THEN -file[o] ELSE file[o]]
  BY FixIs
<1>3. pc' \in {"pack", "save"}
  BY <1>1 DEF AfterWriting
<1>4. AllInFile'
  <2>1. PICK n : FileOf(n) /\ \A i \in 1 .. Len(secs) : RawEnd(secs[i]) <= n
    BY <1>1 DEF RoomInv, AllInFile
  <2>2. n \in Int /\ DOMAIN file' = 0 .. n - 1
    BY <2>1, <1>2 DEF FileOf
  <2>3. PICK m : FileOf(m)'
    BY <1>3 DEF LayoutInv, Stage, Filed
  <2>4. m \in Int /\ file' \in [0 .. m - 1 -> Int]
    BY <2>3 DEF FileOf
  <2>5. file' \in [0 .. n - 1 -> Int]
    BY <2>2, <2>4, FileOfDomain
  <2> QED BY <1>1, <2>1, <2>2, <2>5 DEF AllInFile, FileOf, RawEnd
<1>5. /\ LiveFirst(secs) /\ (Well(secs) => Ordered(secs)) /\ ReservationStands
      /\ \A i \in 1 .. Len(secs) : 0 <= secs[i].raw
      /\ \A rva \in table : rva \in Nat
  BY <1>1 DEF RoomInv, Filed, Reserved
<1>6. LiveFirst(secs)' /\ (\A i \in 1 .. Len(secs) : 0 <= secs[i].raw)'
  BY <1>1, <1>5 DEF LiveFirst, IsMade
<1>7. (Well(secs) => Ordered(secs))'
  BY <1>1, <1>5 DEF Well, Ordered, Trimmed, Zeroed, Loose, IsMade
<1>8. ReservationStands' /\ (\A rva \in table : rva \in Nat)'
  BY <1>1, <1>5 DEF ReservationStands, Reservation, IsMade
<1> QED
  BY <1>3, <1>4, <1>6, <1>7, <1>8 DEF RoomInv, Appending, Filed, ReservationHolds

LEMMA RoomSave ==
    ASSUME RoomInv, Save
    PROVE  RoomInv'
<1>1. /\ pc = "save" /\ pc' = "done"
      /\ UNCHANGED <<input, secs, table>>
  BY DEF Save, Step
<1>2. /\ LiveFirst(secs) /\ (Well(secs) => Ordered(secs))
      /\ \A i \in 1 .. Len(secs) : 0 <= secs[i].raw
      /\ \A rva \in table : rva \in Nat
  BY <1>1 DEF RoomInv, Filed
<1>3. LiveFirst(secs)' /\ (\A i \in 1 .. Len(secs) : 0 <= secs[i].raw)'
  BY <1>1, <1>2 DEF LiveFirst, IsMade
<1>4. (Well(secs) => Ordered(secs))'
  BY <1>1, <1>2 DEF Well, Ordered, Trimmed, Zeroed, Loose, IsMade
<1> QED
  BY <1>1, <1>2, <1>3, <1>4 DEF RoomInv, Appending, Filed, Reserved, ReservationHolds

\* Where the packing stands after the first k sections
PackedSo(x, k) ==
    /\ x \in Packings
    /\ \A i \in 1 .. Len(secs) :
          /\ 0 <= x.secs[i].raw
          /\ k < i => x.secs[i] = secs[i]
          /\ i <= k => RawEnd(x.secs[i]) <= x.end
    /\ Ordered(secs) => Ordered(x.secs)

LEMMA PacksNext ==
    ASSUME NEW n, FileOf(n), \A i \in 1 .. Len(secs) : RawEnd(secs[i]) <= n,
           IsTable(secs), NEW k \in 0 .. Len(secs) - 1, NEW x, PackedSo(x, k),
           NEW i \in 1 .. Len(secs), i = k + 1, NEW y, y = MovedDown(x, i)
    PROVE  PackedSo(y, i)
<1> DEFINE N == Len(secs)
<1>1. /\ N \in Nat /\ x \in Packings /\ IsTable(x.secs) /\ Len(x.secs) = N /\ x.end \in Nat
      /\ \A j \in 1 .. N : x.secs[j].rsize = secs[j].rsize
  <2>1. x \in Packings
    BY DEF PackedSo
  <2> QED BY <2>1, TableIs, PackingIs
<1>2. /\ x.secs[i] = secs[i] /\ RawEnd(secs[i]) <= n
  BY <1>1 DEF PackedSo
<1>3. \A j \in 1 .. N : /\ x.secs[j].raw \in Int /\ x.secs[j].rsize \in Nat
                        /\ RawEnd(x.secs[j]) = x.secs[j].raw + x.secs[j].rsize
                        /\ RawEnd(x.secs[j]) \in Int
                        /\ j <= k => RawEnd(x.secs[j]) <= x.end
  <2>1. \A j \in 1 .. N : x.secs[j] \in Section
    BY <1>1, TableIs
  <2>2. \A j \in 1 .. N : /\ x.secs[j].raw \in Int /\ x.secs[j].rsize \in Nat
                          /\ RawEnd(x.secs[j]) = x.secs[j].raw + x.secs[j].rsize
                          /\ RawEnd(x.secs[j]) \in Int
    BY <2>1, SectionIs DEF RawEnd
  <2>3. \A j \in 1 .. N : j <= k => RawEnd(x.secs[j]) <= x.end
    BY DEF PackedSo
  <2> QED BY <2>2, <2>3
<1>4. CASE ~Packs(x, i)
  <2>1. /\ y \in Packings /\ y.secs = x.secs
        /\ x.end <= y.end /\ RawEnd(x.secs[i]) <= y.end
    <3>1. x \in Packings
      BY <1>1
    <3> QED BY <3>1, <1>4, NotPacked
  <2>2. y.end \in Nat
    BY <2>1, PackingIs
  <2>3. ASSUME NEW j \in 1 .. N, j <= i PROVE RawEnd(y.secs[j]) <= y.end
    <3>1. CASE j = i
      BY <2>1, <3>1
    <3>2. CASE j # i
      <4>1. j <= k
        BY <2>3, <3>2
      <4>2. RawEnd(x.secs[j]) <= x.end /\ RawEnd(x.secs[j]) \in Int
        BY <4>1, <1>3
      <4> QED BY <4>2, <2>1, <2>2, <1>1
    <3> QED BY <3>1, <3>2
  <2>4. \A j \in 1 .. N : i < j => k < j
    OBVIOUS
  <2> QED BY <2>1, <2>3, <2>4 DEF PackedSo
<1>5. CASE Packs(x, i)
  <2>1. /\ y \in Packings
        /\ \E to \in Nat :
              /\ x.end <= to /\ to <= x.secs[i].raw
              /\ y.secs[i].raw = to
              /\ to <= y.end
              /\ RawEnd(x.secs[i]) <= n => y.end = RawEnd(y.secs[i])
        /\ \A j \in 1 .. N : j # i => y.secs[j] = x.secs[j]
    <3>1. x \in Packings
      BY <1>1
    <3> QED BY <3>1, <1>5, PackedDown
  <2>2. PICK to \in Nat :
           /\ x.end <= to /\ to <= x.secs[i].raw
           /\ y.secs[i].raw = to
           /\ to <= y.end
           /\ RawEnd(x.secs[i]) <= n => y.end = RawEnd(y.secs[i])
    BY <2>1
  <2>3. y.end = RawEnd(y.secs[i]) /\ y.end \in Nat
    BY <2>1, <2>2, <1>2, PackingIs
  <2>4. /\ Len(y.secs) = N /\ y.secs[i].rsize = x.secs[i].rsize
        /\ RawEnd(y.secs[i]) = to + x.secs[i].rsize
    <3>1. Len(y.secs) = N /\ y.secs[i].rsize = secs[i].rsize
      BY <2>1, PackingIs
    <3>2. y.secs[i].rsize = x.secs[i].rsize
      BY <3>1, <1>1
    <3> QED BY <3>1, <3>2, <2>2 DEF RawEnd
  <2>5. ASSUME NEW j \in 1 .. N
        PROVE  /\ 0 <= y.secs[j].raw
               /\ i < j => y.secs[j] = secs[j]
               /\ j <= i => RawEnd(y.secs[j]) <= y.end
    <3>1. CASE j = i
      <4>1. 0 <= y.secs[i].raw
        BY <2>2
      <4> QED BY <3>1, <4>1, <2>3
    <3>2. CASE j # i
      <4>1. y.secs[j] = x.secs[j] /\ 0 <= x.secs[j].raw
        BY <2>1, <3>2 DEF PackedSo
      <4>2. i < j => x.secs[j] = secs[j]
        <5>1. i < j => k < j
          OBVIOUS
        <5> QED BY <5>1 DEF PackedSo
      <4>3. j <= i => RawEnd(x.secs[j]) <= y.end
        <5>1. j <= i => j <= k
          BY <3>2
        <5>2. j <= k => RawEnd(x.secs[j]) <= x.end
          BY DEF PackedSo
        <5>3. RawEnd(x.secs[j]) \in Int
          BY <1>3
        <5> QED BY <5>1, <5>2, <5>3, <2>2, <2>3, <1>1
      <4> QED BY <4>1, <4>2, <4>3
    <3> QED BY <3>1, <3>2
  <2>6. ASSUME Ordered(secs), NEW a \in 1 .. N, NEW b \in 1 .. N, a < b
        PROVE  RawEnd(y.secs[a]) <= y.secs[b].raw
    <3>1. RawEnd(x.secs[a]) <= x.secs[b].raw
      BY <2>6, <1>1 DEF PackedSo, Ordered
    <3>2. CASE a # i /\ b # i
      BY <3>1, <3>2, <2>1
    <3>3. CASE b = i
      <4>1. a <= k /\ a # i
        BY <2>6, <3>3
      <4>2. RawEnd(x.secs[a]) <= x.end /\ RawEnd(x.secs[a]) \in Int
        BY <4>1, <1>3
      <4>3. y.secs[a] = x.secs[a] /\ y.secs[b].raw = to
        BY <4>1, <3>3, <2>1, <2>2
      <4>4. RawEnd(x.secs[a]) <= to
        <5>1. x.end <= to /\ x.end \in Nat
          BY <2>2, <1>1
        <5> QED BY <4>2, <5>1
      <4> QED BY <4>3, <4>4
    <3>4. CASE a = i
      <4>1. y.secs[b] = x.secs[b]
        BY <2>6, <3>4, <2>1
      <4>2. PICK p \in Int, q \in Nat : p = x.secs[i].raw /\ q = x.secs[i].rsize
        BY <1>3
      <4>3. to <= p
        BY <4>2, <2>2
      <4>4. p + q <= x.secs[b].raw /\ x.secs[b].raw \in Int
        BY <3>1, <3>4, <4>2, <1>3
      <4>5. to + q <= x.secs[b].raw
        BY <4>3, <4>4
      <4>6. RawEnd(y.secs[a]) = to + q
        BY <4>2, <2>4, <3>4
      <4> QED BY <4>1, <4>5, <4>6
    <3> QED BY <3>2, <3>3, <3>4
  <2>7. Ordered(secs) => Ordered(y.secs)
    BY <2>4, <2>6 DEF Ordered
  <2> QED BY <2>1, <2>5, <2>7 DEF PackedSo
<1> QED
  BY <1>4, <1>5

LEMMA PackRoom ==
    ASSUME NEW n, FileOf(n), \A i \in 1 .. Len(secs) : RawEnd(secs[i]) <= n,
           IsTable(secs), \A i \in 1 .. Len(secs) : 0 <= secs[i].raw
    PROVE  PackedSo(PackedAll, Len(secs))
<1> DEFINE N == Len(secs)
<1>1. PICK t : PackWalk(t)
  BY PackedAllIs
<1>2. /\ t \in [0 .. N -> Packings]
      /\ t[0] = [end |-> 0, secs |-> secs, file |-> file] /\ t[N] = PackedAll
      /\ \A k \in 1 .. N : t[k] = MovedDown(t[k - 1], k)
  BY <1>1 DEF PackWalk
<1>3. N \in Nat \ {0}
  BY TableIs
<1> DEFINE T == {k \in 0 .. N : PackedSo(t[k], k)}
<1>4. 0 \in T
  <2>1. PICK x : x = t[0]
    OBVIOUS
  <2>2. 0 \in 0 .. N
    BY <1>3
  <2>3. x \in Packings /\ x.secs = secs
    BY <2>1, <2>2, <1>2
  <2>4. \A i \in 1 .. N : ~(i <= 0)
    OBVIOUS
  <2>5. PackedSo(x, 0)
    BY <2>3, <2>4 DEF PackedSo
  <2> QED BY <2>1, <2>2, <2>5
<1>5. ASSUME NEW k \in 0 .. N - 1, k \in T PROVE k + 1 \in T
  <2>1. PICK i \in 1 .. N : i = k + 1
    BY <1>3
  <2>2. PICK x : x = t[k]
    OBVIOUS
  <2>3. PICK y : y = t[i]
    OBVIOUS
  <2>4. y = MovedDown(x, i)
    <3>1. i - 1 = k
      BY <2>1
    <3> QED BY <3>1, <2>2, <2>3, <1>2
  <2>5. PackedSo(x, k)
    BY <1>5, <2>2
  <2>6. PackedSo(y, i)
    BY <2>1, <2>4, <2>5, PacksNext
  <2>7. k + 1 \in 0 .. N
    BY <1>3
  <2> QED BY <2>1, <2>3, <2>6, <2>7
<1> HIDE DEF T
<1>6. \A k \in 0 .. N : k \in T
  <2>1. 0 \in Int /\ N \in Int
    BY <1>3
  <2> QED BY <1>4, <1>5, <2>1, UpFrom
<1>7. N \in T
  <2>1. N \in 0 .. N
    BY <1>3
  <2> QED BY <2>1, <1>6
<1> QED
  BY <1>7, <1>2 DEF T

LEMMA RoomPack ==
    ASSUME LayoutInv, RoomInv, PackLayout
    PROVE  RoomInv'
<1>1. /\ pc = "pack" /\ pc' = "table" /\ secs' = PackedAll.secs
      /\ UNCHANGED <<input, table>>
  BY PackIs
<1>2. /\ IsTable(secs) /\ LiveFirst(secs) /\ (Well(secs) => Ordered(secs))
      /\ ReservationStands
      /\ \A i \in 1 .. Len(secs) : 0 <= secs[i].raw
      /\ \A rva \in table : rva \in Nat
  BY <1>1, LayoutIsSound DEF RoomInv, Reserved, Filed, Sound
<1>3. PICK n : FileOf(n) /\ \A i \in 1 .. Len(secs) : RawEnd(secs[i]) <= n
  BY <1>1 DEF RoomInv, AllInFile
<1>4. PICK ss : ss = secs'
  OBVIOUS
<1>5. PackedSo(PackedAll, Len(secs))
  BY <1>2, <1>3, PackRoom
<1>6. /\ SameImage(ss, secs) /\ Len(ss) = Len(secs)
      /\ \A i \in 1 .. Len(secs) : ss[i].rsize = secs[i].rsize
  <2>1. PackedAll \in Packings
    BY <1>5 DEF PackedSo
  <2> QED BY <2>1, <1>1, <1>4, PackingIs
<1>7. /\ \A i \in 1 .. Len(secs) : 0 <= ss[i].raw
      /\ Ordered(secs) => Ordered(ss)
  BY <1>1, <1>4, <1>5 DEF PackedSo
<1>8. \A i \in 1 .. Len(secs) : /\ ss[i].kind = secs[i].kind /\ ss[i].name = secs[i].name
                                /\ ss[i].size = secs[i].size
  BY <1>6 DEF SameImage
<1>9. (Well(ss) => Well(secs)) /\ LiveFirst(ss)
  <2>1. /\ Len(ss) = Len(secs) /\ Len(secs) \in Nat
        /\ \A i \in 1 .. Len(secs) : /\ ss[i].kind = secs[i].kind
                                     /\ ~IsMade(secs[i]) => /\ ss[i].size = secs[i].size
                                                            /\ ss[i].rsize = secs[i].rsize
    BY <1>2, <1>6, <1>8, TableIs
  <2> QED BY <2>1, <1>2, SameWell
<1>10. LiveFirst(secs)' /\ (\A i \in 1 .. Len(secs) : 0 <= secs[i].raw)'
  BY <1>4, <1>6, <1>7, <1>9 DEF LiveFirst, IsMade
<1>11. Well(ss) => Ordered(ss)
  BY <1>2, <1>7, <1>9
<1>12. (Well(secs) => Ordered(secs))'
  BY <1>1, <1>4, <1>11 DEF Well, Ordered, Trimmed, Zeroed, Loose, IsMade
<1>13. ReservationStands'
  <2>1. \A i \in 1 .. Len(ss) :
           ss[i].name = "reloc" /\ IsMade(ss[i]) => ss[i].rsize = Reservation
    BY <1>2, <1>6, <1>8 DEF ReservationStands, IsMade
  <2> QED BY <1>1, <1>4, <2>1 DEF ReservationStands, Reservation, IsMade
<1> QED
  BY <1>1, <1>2, <1>10, <1>12, <1>13 DEF RoomInv, Appending, Filed, ReservationHolds

LEMMA RelocationsAre ==
    ASSUME IsTable(secs)
    PROVE  \A rva \in Relocations : rva \in Nat
<1> DEFINE addresses == IF base = "file" THEN {-p : p \in Pointers} ELSE Pointers
           walked == {s \in ToSet(secs) : /\ s.name # "reloc"
                                          /\ Scanned(s) \/ (s.kind = "code" /\ input.arch = "x86")}
           found(s) == {o \in FileRange(s) : file[o] \in addresses}
<1>1. Relocations = UNION {{s.va + o - s.raw : o \in found(s)} : s \in walked}
  BY Zenon DEF Relocations
<1>2. \A s \in walked : s \in ToSet(secs)
  OBVIOUS
<1>3. \A s : \A o \in found(s) : o \in FileRange(s)
  OBVIOUS
<1> HIDE DEF walked, found
<1>4. ASSUME NEW rva \in Relocations PROVE rva \in Nat
  <2>1. PICK s \in walked : \E o \in found(s) : rva = s.va + o - s.raw
    BY <1>1, <1>4
  <2>2. PICK o \in found(s) : rva = s.va + o - s.raw
    BY <2>1
  <2>3. s \in Section
    BY <1>2, TableIs
  <2>4. s.va \in Nat /\ s.raw \in Int /\ s.rsize \in Nat
    BY <2>3, SectionIs
  <2>5. o \in s.raw .. RawEnd(s) - 1
    BY <1>3 DEF FileRange
  <2>6. o \in Int /\ s.raw <= o
    BY <2>4, <2>5 DEF RawEnd
  <2> QED BY <2>2, <2>4, <2>6
<1> QED
  BY <1>4

LEMMA RoomTable ==
    ASSUME LayoutInv, RoomInv, BuildTable
    PROVE  RoomInv'
<1>1. pc = "table" /\ Sound /\ InputOK /\ IsTable(secs)
  BY LayoutIsSound DEF BuildTable, Sound
<1>2. PICK r : RelocAt(secs, r)
  BY <1>1, LayoutIsSound DEF Stage
<1>3. /\ LiveFirst(secs) /\ (Well(secs) => Ordered(secs))
      /\ ReservationStands
      /\ \A i \in 1 .. Len(secs) : 0 <= secs[i].raw
      /\ \A rva \in table : rva \in Nat
  BY <1>1 DEF RoomInv, Reserved, Filed
<1>4. r \in 1 .. Len(secs) /\ IsMade(secs[r]) /\ secs[r].rsize = Reservation
  <2>1. r \in 1 .. Len(secs) /\ IsMade(secs[r]) /\ secs[r].name = "reloc"
    BY <1>2 DEF RelocAt, IsMade
  <2> QED BY <2>1, <1>3 DEF ReservationStands
<1>5. /\ pc' \in {"save", "failed"} /\ input' = input
      /\ pc' = "failed" => ~(input.table <= secs[r].rsize)
      /\ \/ UNCHANGED <<table, secs, dynamic>>
         \/ /\ input.table <= secs[r].rsize
            /\ table' = Relocations
            /\ secs' = [secs EXCEPT ![r].size = Announced(secs[r]),
                                    ![r].rsize = AlignUp(input.table, FA)]
  BY <1>1, <1>2, BuildIs
<1>6. /\ input.table \in Nat \ {0} /\ input.estimate \in Nat
      /\ Reservation \in Nat /\ IsMultiple(Reservation, FA) /\ input.estimate <= Reservation
      /\ FA \in Nat \ {0}
  BY <1>1, InputIs, ReservationIs, SectionsOfFiles
<1>7. ReservationHolds'
  <2>1. pc' = "failed" => input.estimate < input.table
    BY <1>4, <1>5, <1>6
  <2> QED BY <2>1, <1>5 DEF ReservationHolds
<1>8. CASE UNCHANGED <<table, secs, dynamic>>
  <2>1. LiveFirst(secs)' /\ (\A i \in 1 .. Len(secs) : 0 <= secs[i].raw)'
    BY <1>3, <1>8 DEF LiveFirst, IsMade
  <2>2. (Well(secs) => Ordered(secs))'
    BY <1>3, <1>5, <1>8 DEF Well, Ordered, Trimmed, Zeroed, Loose, IsMade
  <2>3. \A rva \in table' : rva \in Nat
    BY <1>3, <1>8
  <2> QED BY <1>5, <1>7, <2>1, <2>2, <2>3 DEF RoomInv, Appending, Filed, Reserved
<1>9. CASE /\ input.table <= secs[r].rsize
           /\ table' = Relocations
           /\ secs' = [secs EXCEPT ![r].size = Announced(secs[r]),
                                   ![r].rsize = AlignUp(input.table, FA)]
  <2>1. PICK n \in Nat \ {0} : n = Announced(secs[r])
    BY <1>1, <1>2, <1>6, <1>9, AnnouncedIs DEF Sound
  <2>2. PICK k \in Nat : k = AlignUp(input.table, FA) /\ k <= secs[r].rsize
    BY <1>4, <1>6, <1>9, AlignUpIs, AlignUpLeast
  <2>3. PICK ss : ss = secs'
    OBVIOUS
  <2>4. /\ IsTable(ss) /\ Len(ss) = Len(secs)
        /\ \A i \in 1 .. Len(secs) : i # r => ss[i] = secs[i]
        /\ \A i \in 1 .. Len(secs) :
              /\ ss[i].kind = secs[i].kind /\ ss[i].name = secs[i].name
              /\ ss[i].va = secs[i].va /\ ss[i].raw = secs[i].raw
        /\ ss[r].size = n /\ ss[r].rsize = k
    <3>1. ss = Rebuilt(r, n, k) /\ IsTable(secs) /\ r \in 1 .. Len(secs)
      <4>1. ss = Rebuilt(r, n, k)
        BY <1>9, <2>1, <2>2, <2>3, Zenon DEF Rebuilt
      <4> QED BY <4>1, <1>1, <1>4
    <3> QED BY <3>1, RebuiltIs
  <2>5. \A i \in 1 .. Len(secs) :
           /\ secs[i].raw \in Int /\ secs[i].rsize \in Nat
           /\ RawEnd(secs[i]) = secs[i].raw + secs[i].rsize
    <3>1. \A i \in 1 .. Len(secs) : secs[i] \in Section
      BY <1>1, TableIs
    <3> QED BY <3>1, SectionIs DEF RawEnd
  <2>6. (Well(ss) => Well(secs)) /\ LiveFirst(ss)
    <3>1. /\ Len(ss) = Len(secs) /\ Len(secs) \in Nat
          /\ \A i \in 1 .. Len(secs) : /\ ss[i].kind = secs[i].kind
                                       /\ ~IsMade(secs[i]) => /\ ss[i].size = secs[i].size
                                                              /\ ss[i].rsize = secs[i].rsize
      BY <1>1, <1>4, <2>4, TableIs
    <3> QED BY <3>1, <1>3, SameWell
  <2>7. ASSUME Ordered(secs), NEW a \in 1 .. Len(secs), NEW b \in 1 .. Len(secs), a < b
        PROVE  RawEnd(ss[a]) <= ss[b].raw
    <3>1. RawEnd(secs[a]) <= secs[b].raw /\ ss[b].raw = secs[b].raw
      BY <2>4, <2>7 DEF Ordered
    <3>2. CASE a # r
      BY <3>1, <3>2, <2>4
    <3>3. CASE a = r
      <4>1. RawEnd(ss[a]) = secs[a].raw + k /\ k <= secs[a].rsize
        BY <3>3, <2>2, <2>4 DEF RawEnd
      <4>2. /\ secs[a].raw \in Int /\ secs[a].rsize \in Nat /\ secs[b].raw \in Int
            /\ secs[a].raw + secs[a].rsize <= secs[b].raw
        BY <3>1, <2>5
      <4>3. secs[a].raw + k <= secs[b].raw
        BY <4>1, <4>2
      <4> QED BY <3>1, <4>1, <4>3
    <3> QED BY <3>2, <3>3
  <2>8. Well(ss) => Ordered(ss)
    BY <1>3, <2>4, <2>6, <2>7 DEF Ordered
  <2>9. LiveFirst(secs)' /\ (\A i \in 1 .. Len(secs) : 0 <= secs[i].raw)'
    BY <1>3, <2>3, <2>4, <2>6 DEF LiveFirst, IsMade
  <2>10. (Well(secs) => Ordered(secs))'
    BY <1>5, <2>3, <2>8 DEF Well, Ordered, Trimmed, Zeroed, Loose, IsMade
  <2>11. \A rva \in table' : rva \in Nat
    BY <1>1, <1>9, RelocationsAre
  <2> QED BY <1>5, <1>7, <2>9, <2>10, <2>11 DEF RoomInv, Appending, Filed, Reserved
<1> QED
  BY <1>5, <1>8, <1>9

LEMMA RoomIsInductive ==
    ASSUME NothingAppendedIsHuge, LayoutInv, LayoutInv', RoomInv, [Next]_vars
    PROVE  RoomInv'
<1>1. CASE UNCHANGED vars
  <2>1. UNCHANGED <<pc, input, secs, file, table>>
    BY <1>1 DEF vars
  <2>2. (LiveFirst(secs)' <=> LiveFirst(secs)) /\ (Standing(secs)' <=> Standing(secs))
    BY <2>1 DEF LiveFirst, IsMade, Standing
  <2>3. Spread(secs) => Spread(secs)'
    BY <2>1, SpreadStays
  <2>4. (Well(secs) => Ordered(secs))' <=> (Well(secs) => Ordered(secs))
    BY <2>1 DEF Well, Ordered, Trimmed, Zeroed, Loose, IsMade
  <2>5. AllInFile' <=> AllInFile
    BY <2>1 DEF AllInFile, FileOf, RawEnd
  <2>6. (ReservationStands' <=> ReservationStands) /\ (ReservationHolds' <=> ReservationHolds)
    BY <2>1 DEF ReservationStands, Reservation, IsMade, ReservationHolds
  <2> QED BY <2>1, <2>2, <2>3, <2>4, <2>5, <2>6 DEF RoomInv
<1>2. CASE PatchHeader
  <2>1. pc' \in Early /\ table' = table
    BY <1>2 DEF PatchHeader, Step, Early
  <2> QED BY <2>1, RoomEarly
<1>3. CASE ShrinkSections
  <2>1. pc' \in Early /\ table' = table
    BY <1>3 DEF ShrinkSections, Step, Early
  <2> QED BY <2>1, RoomEarly
<1>4. CASE ReadImage
  BY <1>4, RoomRead
<1>5. CASE CreatePdata \/ CreateReloc \/ CreateImport
  BY <1>5, RoomPdata, RoomReloc, RoomImport
<1>6. CASE TrimSections
  BY <1>6, RoomTrim
<1>7. CASE WriteOutput \/ FixAddresses
  BY <1>7, RoomWrite, RoomFix
<1>8. CASE PackLayout \/ BuildTable \/ Save
  BY <1>8, RoomPack, RoomTable, RoomSave
<1> QED
  BY <1>1, <1>2, <1>3, <1>4, <1>5, <1>6, <1>7, <1>8 DEF Next

LEMMA LayoutIsTyped ==
    ASSUME LayoutInv, RoomInv
    PROVE  TypeOK
<1>1. Sound /\ Stage /\ Flags /\ IsTable(secs)
  BY LayoutIsSound DEF Sound
<1>2. pc \in {"patch", "shrink", "read", "pdata", "reloc", "import", "trim",
              "write", "fix", "pack", "table", "save", "done", "failed"}
  BY <1>1 DEF Stage, Early, Appending, Filed
<1>3. \A i \in 1 .. Len(secs) : 0 <= secs[i].raw
  <2>1. CASE pc \in Early
    BY <2>1, <1>1, OfDebuggeeIs DEF Stage
  <2>2. CASE pc \in Appending
    BY <2>2, <1>1 DEF Stage
  <2>3. CASE pc = "write"
    <3>1. \A i \in 1 .. Len(secs) : 1 <= secs[i].raw /\ secs[i].raw \in Int
      BY <2>3, <1>1, TableIs, SectionIs DEF RoomInv, Standing
    <3> QED BY <3>1
  <2>4. CASE pc \in Filed
    BY <2>4 DEF RoomInv
  <2> QED BY <2>1, <2>2, <2>3, <2>4, <1>1 DEF Stage
<1>4. \A i \in DOMAIN secs : /\ secs[i].va \in Nat /\ secs[i].raw \in Nat
                             /\ secs[i].size \in Nat \ {0} /\ secs[i].rsize \in Nat
  <2>1. DOMAIN secs = 1 .. Len(secs)
    BY <1>1, TableIs
  <2>2. \A i \in 1 .. Len(secs) : /\ secs[i].va \in Nat /\ secs[i].raw \in Int
                                  /\ secs[i].size \in Nat \ {0} /\ secs[i].rsize \in Nat
    BY <1>1, TableIs, SectionIs
  <2> QED BY <2>1, <2>2, <1>3
<1>5. \A o \in DOMAIN file : file[o] \in Int
  <2>1. CASE pc \in Filed
    <3>1. PICK n : FileOf(n)
      BY <2>1, <1>1 DEF Stage
    <3> QED BY <3>1 DEF FileOf
  <2>2. CASE pc \notin Filed
    <3>1. file = <<>>
      BY <2>2, <1>1 DEF Stage
    <3>2. DOMAIN <<>> = {}
      OBVIOUS
    <3> QED BY <3>1, <3>2
  <2> QED BY <2>1, <2>2
<1> QED
  BY <1>1, <1>2, <1>4, <1>5 DEF TypeOK, Sound, Flags, RoomInv

LEMMA RangesAreApart ==
    ASSUME LayoutInv, RoomInv
    PROVE  FileRangesDisjoint
<1> SUFFICES ASSUME pc = "done", TrimmedWell, NEW i \in DOMAIN secs, NEW j \in DOMAIN secs, i < j
             PROVE  FileRange(secs[i]) \intersect FileRange(secs[j]) = {}
  BY DEF FileRangesDisjoint
<1>1. /\ IsTable(secs) /\ DOMAIN secs = 1 .. Len(secs)
  <2>1. IsTable(secs)
    BY LayoutIsSound DEF Sound
  <2> QED BY <2>1, TableIs
<1>2. Well(secs)
  BY <1>1 DEF TrimmedWell, Sheared, Well, Loose, IsMade
<1>3. RawEnd(secs[i]) <= secs[j].raw
  BY <1>1, <1>2 DEF RoomInv, Filed, Ordered
<1>4. /\ secs[i].raw \in Int /\ RawEnd(secs[i]) \in Int
      /\ secs[j].raw \in Int /\ RawEnd(secs[j]) \in Int
  BY <1>1, TableIs, SectionIs
<1> QED
  BY <1>3, <1>4 DEF FileRange

(* The product of dump_process is one a loader takes: the values are of    *)
(* their types, the image has no hole, no two sections share bytes of the  *)
(* file unless trimming went wrong in one of the two ways it can, and a    *)
(* dump fails only if the scan that sized the table saw less than the      *)
(* table took.  trim_huge_sections looks for the zeroes of what was        *)
(* appended in a buffer that has nothing of it, so that nothing that is    *)
(* appended may be large enough to be trimmed.                             *)
THEOREM TheProductIsWhole ==
    ASSUME NothingAppendedIsHuge
    PROVE  Spec => []ProductIsWhole
<1>1. Init => LayoutInv /\ RoomInv
  BY LayoutInit, RoomInit
<1>2. LayoutInv /\ RoomInv /\ [Next]_vars => LayoutInv' /\ RoomInv'
  BY LayoutIsInductive, RoomIsInductive
<1>3. LayoutInv /\ RoomInv => ProductIsWhole
  <2> SUFFICES ASSUME LayoutInv, RoomInv PROVE ProductIsWhole
    OBVIOUS
  <2>1. TypeOK /\ FileRangesDisjoint /\ ReservationHolds
    BY LayoutIsTyped, RangesAreApart DEF RoomInv
  <2>2. ImageIsContiguous
    BY DEF LayoutInv, ImageIsContiguous, Follows
  <2> QED BY <2>1, <2>2 DEF ProductIsWhole
<1> QED
  BY <1>1, <1>2, <1>3, PTL DEF Spec

----------------------------------------------------------------------------
(* What the debuggee has, and where the product has it *)

\* The image that is dumped
LiveImage ==
    /\ OfDebuggee(live) /\ Follows(live)
    /\ \A i \in 1 .. Len(live) : live[i].at = live[i].va

\* The import table is in a data section of it
TableInData(i) ==
    i \in 1 .. Len(live) /\ live[i].kind = "data" /\ live[i].size > 1 /\ input.iat = live[i].at + 1

Inputs ==
    /\ input.arch \in {"x86", "x64"}
    /\ IF input.import > 0 THEN \E i \in 1 .. Len(live) : TableInData(i) ELSE input.iat = 0

CodeFirst(ss) == ss[1].size = SA - 1 /\ \A i \in 2 .. Len(ss) : ss[i].kind # "code"

SameSection(s, t) ==
    s.kind = t.kind /\ s.at = t.at /\ s.va = t.va /\ s.size = t.size /\ s.used = t.used

\* Only the shell has been removed, and nothing has moved for it
InPlace(ss) ==
    /\ \A i \in 1 .. Len(ss) : ~IsMade(ss[i]) => i <= Len(live) /\ SameSection(ss[i], live[i])
    /\ \A i \in 1 .. Len(live) : live[i].kind # "shell" => i <= Len(ss) /\ ~IsMade(ss[i])

Placed(ss) == CodeFirst(ss) /\ (ShellLast => InPlace(ss))

\* The buffer has all of memory
Buffered(ss) == \A i \in 1 .. Len(ss) : ~IsMade(ss[i]) => End(ss[i]) <= dumped

Mirrored(ss) == \A i \in 1 .. Len(ss) : ~IsMade(ss[i]) => ss[i].raw = ss[i].va

Within(ss) == \A i \in 1 .. Len(ss) : ~IsMade(ss[i]) => ss[i].rsize <= ss[i].size

\* The sections of memory are apart in the file whatever was trimmed
LiveApart(ss) ==
    \A i, j \in 1 .. Len(ss) : i < j /\ ~IsMade(ss[j]) => RawEnd(ss[i]) <= ss[j].raw

\* Of what is in the buffer of a section, only zeroes are not in the file
NothingCut(s) ==
    ~IsMade(s) /\ ~Zeroed(s) =>
        \A a \in s.va .. End(s) - 1 : DumpBuf(a) # 0 => a < s.va + s.rsize

\* A section that may have been trimmed after those before it had moved it,
\* and a table that has none
MisjudgedIn(ss, i) ==
    /\ ~IsMade(ss[i]) /\ ~Zeroed(ss[i]) /\ ss[i].size > Huge
    /\ \E k \in 1 .. i - 1 : Trimmed(ss[k])

Judged(ss) == \A i \in 1 .. Len(ss) : ~MisjudgedIn(ss, i)

\* A step that appends sections or writes to appended ones
LiveKept(ss, old) ==
    /\ Len(old) <= Len(ss)
    /\ \A i \in 1 .. Len(ss) : ~IsMade(ss[i]) <=> i <= Len(old) /\ ~IsMade(old[i])
    /\ \A i \in 1 .. Len(old) : ~IsMade(old[i]) => SameSection(ss[i], old[i])

\* It leaves their file ranges as they are, too
LiveStays(ss, old) ==
    /\ LiveKept(ss, old)
    /\ \A i \in 1 .. Len(old) :
          ~IsMade(old[i]) => ss[i].raw = old[i].raw /\ ss[i].rsize = old[i].rsize

ImageInv ==
    /\ LiveImage /\ Inputs /\ Placed(secs)
    /\ pc \notin Early => Buffered(secs) /\ Within(secs)
    /\ pc \in Appending => Mirrored(secs)
    /\ hinted <=> pc \notin Early \union {"pdata", "reloc", "import"} /\ input.import > 0
    /\ pc \in {"write"} \union Filed => LiveApart(secs)
    /\ pc \in {"write"} \union Filed =>
          (Judged(secs) => \A i \in 1 .. Len(secs) : NothingCut(secs[i]))

LEMMA KeptIsPlaced ==
    ASSUME NEW ss, NEW old, IsTable(old), IsTable(ss), LiveKept(ss, old),
           old[1].kind = "code", Placed(old)
    PROVE  Placed(ss)
<1>1. /\ Len(old) \in Nat \ {0} /\ Len(ss) \in Nat \ {0} /\ Len(old) <= Len(ss)
      /\ 1 \in 1 .. Len(old) /\ 1 \in 1 .. Len(ss)
  BY TableIs DEF LiveKept
<1>2. CodeFirst(ss)
  <2>1. ss[1].size = SA - 1
    <3>1. ~IsMade(old[1])
      BY DEF IsMade
    <3> QED BY <1>1, <3>1 DEF LiveKept, SameSection, Placed, CodeFirst
  <2>2. ASSUME NEW i \in 2 .. Len(ss) PROVE ss[i].kind # "code"
    <3>1. CASE IsMade(ss[i])
      BY <3>1 DEF IsMade
    <3>2. CASE ~IsMade(ss[i])
      <4>1. i \in 1 .. Len(ss)
        BY <1>1
      <4>2. i <= Len(old) /\ ~IsMade(old[i])
        BY <3>2, <4>1 DEF LiveKept
      <4>3. i \in 2 .. Len(old) /\ i \in 1 .. Len(old)
        BY <4>2, <1>1
      <4> QED BY <4>2, <4>3 DEF LiveKept, SameSection, Placed, CodeFirst
    <3> QED BY <3>1, <3>2
  <2> QED BY <2>1, <2>2 DEF CodeFirst
<1>3. ShellLast => InPlace(ss)
  <2> SUFFICES ASSUME ShellLast PROVE InPlace(ss)
    OBVIOUS
  <2>1. InPlace(old)
    BY DEF Placed
  <2>2. ASSUME NEW i \in 1 .. Len(ss), ~IsMade(ss[i])
        PROVE  i <= Len(live) /\ SameSection(ss[i], live[i])
    <3>1. i <= Len(old) /\ ~IsMade(old[i])
      BY <2>2 DEF LiveKept
    <3>2. i \in 1 .. Len(old)
      BY <3>1, <1>1
    <3>3. SameSection(ss[i], old[i]) /\ SameSection(old[i], live[i]) /\ i <= Len(live)
      BY <2>1, <3>1, <3>2 DEF LiveKept, InPlace
    <3> QED BY <3>3 DEF SameSection
  <2>3. ASSUME NEW i \in 1 .. Len(live), live[i].kind # "shell"
        PROVE  i <= Len(ss) /\ ~IsMade(ss[i])
    <3>1. i <= Len(old) /\ ~IsMade(old[i])
      BY <2>1, <2>3 DEF InPlace
    <3>2. i <= Len(ss) /\ i \in 1 .. Len(ss)
      BY <3>1, <1>1
    <3> QED BY <3>1, <3>2 DEF LiveKept
  <2> QED BY <2>2, <2>3 DEF InPlace
<1> QED
  BY <1>2, <1>3 DEF Placed

LEMMA StaysAre ==
    ASSUME NEW ss, NEW old, IsTable(old), IsTable(ss), LiveStays(ss, old)
    PROVE  /\ Buffered(old) => Buffered(ss)
           /\ Mirrored(old) => Mirrored(ss)
           /\ Within(old) => Within(ss)
           /\ Judged(ss) => Judged(old)
           /\ (\A i \in 1 .. Len(old) : NothingCut(old[i])) =>
                 \A i \in 1 .. Len(ss) : NothingCut(ss[i])
<1>1. /\ Len(old) \in Nat \ {0} /\ Len(ss) \in Nat \ {0} /\ Len(old) <= Len(ss)
  BY TableIs DEF LiveStays, LiveKept
<1>2. ASSUME NEW i \in 1 .. Len(ss), ~IsMade(ss[i])
      PROVE  /\ i \in 1 .. Len(old) /\ ~IsMade(old[i])
             /\ SameSection(ss[i], old[i]) /\ ss[i].raw = old[i].raw /\ ss[i].rsize = old[i].rsize
  <2>1. i <= Len(old) /\ ~IsMade(old[i])
    BY <1>2 DEF LiveStays, LiveKept
  <2>2. i \in 1 .. Len(old)
    BY <2>1, <1>1
  <2> QED BY <2>1, <2>2 DEF LiveStays, LiveKept
<1>3. Buffered(old) => Buffered(ss)
  BY <1>2 DEF Buffered, SameSection, End
<1>4. Mirrored(old) => Mirrored(ss)
  BY <1>2 DEF Mirrored, SameSection
<1>5. Within(old) => Within(ss)
  BY <1>2 DEF Within, SameSection
<1>6. ASSUME NEW i \in 1 .. Len(old)
      PROVE  /\ i \in 1 .. Len(ss) /\ (IsMade(ss[i]) <=> IsMade(old[i]))
             /\ ~IsMade(old[i]) => /\ ss[i].kind = old[i].kind /\ ss[i].size = old[i].size
                                   /\ ss[i].rsize = old[i].rsize
  <2>1. i \in 1 .. Len(ss) /\ i <= Len(old)
    BY <1>1
  <2> QED BY <2>1 DEF LiveStays, LiveKept, SameSection
<1>7. Judged(ss) => Judged(old)
  <2> SUFFICES ASSUME Judged(ss), NEW i \in 1 .. Len(old),
                      ~IsMade(old[i]), ~Zeroed(old[i]), old[i].size > Huge,
                      NEW k \in 1 .. i - 1
               PROVE  ~Trimmed(old[k])
    BY DEF Judged, MisjudgedIn
  <2>1. k \in 1 .. Len(old)
    BY <1>1
  <2>2. ~IsMade(ss[i]) /\ ~Zeroed(ss[i]) /\ ss[i].size > Huge /\ i \in 1 .. Len(ss)
    BY <1>6 DEF Zeroed
  <2>3. ~Trimmed(ss[k])
    BY <2>2 DEF Judged, MisjudgedIn
  <2> QED BY <2>1, <2>3, <1>6 DEF Trimmed, Zeroed, IsMade
<1>8. ASSUME \A i \in 1 .. Len(old) : NothingCut(old[i]), NEW i \in 1 .. Len(ss)
      PROVE  NothingCut(ss[i])
  <2>1. CASE IsMade(ss[i])
    BY <2>1 DEF NothingCut
  <2>2. CASE ~IsMade(ss[i])
    <3>1. NothingCut(old[i]) /\ SameSection(ss[i], old[i]) /\ ss[i].rsize = old[i].rsize
      BY <2>2, <1>2, <1>8
    <3> QED BY <3>1 DEF NothingCut, SameSection, End, Zeroed, IsMade
  <2> QED BY <2>1, <2>2
<1> QED
  BY <1>3, <1>4, <1>5, <1>7, <1>8

LEMMA SameImageKept ==
    ASSUME NEW ss, NEW old, IsTable(old), SameImage(ss, old)
    PROVE  LiveKept(ss, old)
<1>1. Len(ss) = Len(old) /\ Len(old) \in Nat \ {0}
  BY TableIs DEF SameImage
<1>2. \A i \in 1 .. Len(old) : IsMade(ss[i]) <=> IsMade(old[i])
  BY DEF SameImage, IsMade
<1>3. \A i \in 1 .. Len(old) : SameSection(ss[i], old[i])
  BY DEF SameImage, SameSection
<1> QED
  BY <1>1, <1>2, <1>3 DEF LiveKept

LEMMA SelfStays ==
    ASSUME NEW ss, IsTable(ss)
    PROVE  LiveStays(ss, ss)
<1>1. LiveKept(ss, ss)
  BY SameImageSelf, SameImageKept
<1> QED
  BY <1>1 DEF LiveStays

LEMMA AppendedStays ==
    ASSUME NEW ss, NEW old, IsTable(old), IsTable(ss), Len(ss) = Len(old) + 1,
           \A i \in 1 .. Len(old) : ss[i] = old[i],
           IsMade(ss[Len(ss)])
    PROVE  LiveStays(ss, old)
<1>1. Len(old) \in Nat \ {0}
  BY TableIs
<1>2. ASSUME NEW i \in 1 .. Len(ss)
      PROVE  ~IsMade(ss[i]) <=> i <= Len(old) /\ ~IsMade(old[i])
  <2>1. CASE i = Len(ss)
    BY <2>1, <1>1
  <2>2. CASE i # Len(ss)
    <3>1. i \in 1 .. Len(old)
      BY <2>2, <1>1
    <3> QED BY <3>1
  <2> QED BY <2>1, <2>2
<1>3. Len(old) <= Len(ss)
  BY <1>1
<1> QED
  BY <1>2, <1>3 DEF LiveStays, LiveKept, SameSection

(* What was dumped stays what it is.                                       *)
LEMMA MemoryStays ==
    ASSUME [Next]_vars
    PROVE  UNCHANGED <<input, live>>
BY DEF vars, Next, PatchHeader, ShrinkSections, ReadImage, CreatePdata, CreateReloc,
       CreateImport, TrimSections, WriteOutput, FixAddresses, PackLayout, BuildTable, Save

LEMMA ImageOfMemory ==
    ASSUME LiveImage, Inputs, UNCHANGED <<input, live>>
    PROVE  LiveImage' /\ Inputs'
BY DEF LiveImage, Inputs, OfDebuggee, Recorded, IsTable, Follows, End, TableInData

LEMMA InputsInit ==
    ASSUME Init
    PROVE  LiveImage /\ Inputs
<1>1. /\ live \in Images /\ ((input.import > 0) <=> (input.iat # 0))
      /\ input \in [arch : {"x86", "x64"}, shrink : BOOLEAN,
                    disk : {"unreadable", "same", "other"},
                    pdata : PdataSizes, import : ImportSizes, iat : IatSlots \union {0},
                    estimate : Estimates, table : TableSizes]
  BY DEF Init
<1>2. input.arch \in {"x86", "x64"} /\ input.iat \in IatSlots \union {0}
  BY <1>1
<1>3. OfDebuggee(live) /\ Follows(live) /\ \A i \in 1 .. Len(live) : live[i].at = live[i].va
  BY <1>1, ImageIs
<1>4. ASSUME input.import > 0
      PROVE  \E i \in 1 .. Len(live) : TableInData(i)
  <2>1. input.iat \in IatSlots
    BY <1>1, <1>2, <1>4
  <2>2. PICK s \in ToSet(live) : s.kind = "data" /\ s.size > 1 /\ input.iat = s.at + 1
    BY <2>1 DEF IatSlots
  <2>3. IsTable(live)
    BY <1>3 DEF OfDebuggee
  <2>4. PICK i \in 1 .. Len(live) : s = live[i]
    BY <2>2, <2>3, TableIs
  <2> QED BY <2>2, <2>4 DEF TableInData
<1> QED
  BY <1>1, <1>2, <1>3, <1>4 DEF LiveImage, Inputs

LEMMA MemoryIsPlaced ==
    ASSUME LiveImage
    PROVE  Placed(live)
<1>1. OfDebuggee(live) /\ Len(live) \in Nat \ {0}
  BY TableIs DEF LiveImage, OfDebuggee
<1>2. CodeFirst(live)
  BY <1>1 DEF OfDebuggee, CodeFirst
<1>3. \A i \in 1 .. Len(live) : ~IsMade(live[i])
  BY <1>1, OfDebuggeeIs DEF IsMade
<1>4. InPlace(live)
  BY <1>1, <1>3 DEF InPlace, SameSection
<1> QED
  BY <1>2, <1>4 DEF Placed

LEMMA ImageInit ==
    ASSUME Init
    PROVE  ImageInv
<1>1. LiveImage /\ Inputs
  BY InputsInit
<1>2. secs = live /\ pc = "patch" /\ hinted = FALSE
  BY DEF Init
<1>3. Placed(secs)
  BY <1>1, <1>2, MemoryIsPlaced
<1> QED
  BY <1>1, <1>2, <1>3 DEF ImageInv, Early, Appending, Filed

(* Sections of the same sizes come to lie at the same addresses.           *)
LEMMA SamePlaces ==
    ASSUME NEW a, NEW b, IsTable(a), IsTable(b), Follows(a), Follows(b), Len(a) <= Len(b),
           \A i \in 1 .. Len(a) : a[i].size = b[i].size
    PROVE  \A i \in 1 .. Len(a) : a[i].va = b[i].va
<1> DEFINE N == Len(a)
           T == {n \in 1 .. N : a[n].va = b[n].va}
<1>1. N \in Nat \ {0} /\ Len(b) \in Nat \ {0} /\ N <= Len(b)
  BY TableIs
<1>2. 1 \in T /\ 1 \in Int /\ N \in Int
  BY <1>1 DEF Follows
<1>3. ASSUME NEW n \in 1 .. N - 1, n \in T PROVE n + 1 \in T
  <2>1. PICK k \in 2 .. N : k = n + 1 /\ k - 1 = n
    BY <1>1
  <2>2. k \in 2 .. Len(b) /\ k \in 1 .. N /\ n \in 1 .. N
    BY <1>1, <2>1
  <2>3. a[k].va = AlignUp(End(a[n]), SA) /\ b[k].va = AlignUp(End(b[n]), SA)
    BY <2>1, <2>2 DEF Follows
  <2>4. End(a[n]) = End(b[n])
    BY <1>3, <2>2 DEF End
  <2> QED BY <2>1, <2>2, <2>3, <2>4
<1> HIDE DEF T, N
<1>4. \A n \in 1 .. N : n \in T
  BY <1>2, <1>3, UpFrom
<1> QED
  BY <1>4 DEF T, N

\* shrink_sections
LEMMA CompactedInPlace ==
    ASSUME NEW ss, OfDebuggee(ss), Follows(ss), ShellLast, InPlace(ss),
           NEW out, out = Compacted(WithoutRemoved(ss))
    PROVE  InPlace(out)
<1>1. IsTable(ss) /\ Kept(ss[1]) /\ Len(ss) \in Nat \ {0}
  BY OfDebuggeeIs, TableIs
<1>2. PICK kept : kept = WithoutRemoved(ss)
  OBVIOUS
<1>3. AllButLastKept(ss)
  <2>1. ASSUME NEW i \in 1 .. Len(ss), i < Len(ss) PROVE Kept(ss[i])
    <3>1. ss[i].kind \in Live0 /\ ss[i].kind # "shell"
      BY <2>1 DEF OfDebuggee, Recorded
    <3> QED BY <3>1 DEF Live0, Kept
  <2> QED BY <2>1 DEF AllButLastKept
<1>4. IsTable(kept) /\ OfItsStart(kept, ss, Len(ss))
  BY <1>1, <1>2, <1>3, KeptAre
<1>5. /\ IsTable(out) /\ Len(out) = Len(kept) /\ Follows(out)
      /\ \A i \in 1 .. Len(kept) : \E n \in Nat : out[i] = [kept[i] EXCEPT !.va = n]
  <2>1. IsTable(kept)
    BY <1>4
  <2>2. /\ IsTable(LaidOut(kept)) /\ Len(LaidOut(kept)) = Len(kept)
        /\ Follows(LaidOut(kept))
        /\ \A i \in 1 .. Len(kept) : \E n \in Nat : LaidOut(kept)[i] = [kept[i] EXCEPT !.va = n]
    BY <2>1, LaidOutIs
  <2>3. out = LaidOut(kept)
    BY <1>2 DEF Compacted
  <2> QED BY <2>2, <2>3, Zenon
<1>6. ASSUME NEW i \in 1 .. Len(kept)
      PROVE  /\ i \in 1 .. Len(ss)
             /\ out[i].kind = ss[i].kind /\ out[i].at = ss[i].at
             /\ out[i].size = ss[i].size /\ out[i].used = ss[i].used
  <2>1. PICK n \in Nat : out[i] = [kept[i] EXCEPT !.va = n]
    BY <1>5
  <2>2. kept[i] \in Section /\ Len(kept) \in Nat
    BY <1>4, TableIs
  <2>3. /\ out[i].kind = kept[i].kind /\ out[i].at = kept[i].at
        /\ out[i].size = kept[i].size /\ out[i].used = kept[i].used
    BY <2>1, <2>2 DEF Section
  <2>4. kept[i] = ss[i] /\ i \in 1 .. Len(ss)
    BY <1>1, <1>4, <2>2 DEF OfItsStart
  <2> QED BY <2>3, <2>4
<1>7. \A i \in 1 .. Len(out) : out[i].va = ss[i].va
  <2>1. Len(out) <= Len(ss) /\ \A i \in 1 .. Len(out) : out[i].size = ss[i].size
    BY <1>4, <1>5, <1>6 DEF OfItsStart
  <2> QED BY <2>1, <1>1, <1>5, SamePlaces
<1>8. \A i \in 1 .. Len(ss) : ~IsMade(ss[i])
  BY OfDebuggeeIs DEF IsMade
<1>9. ASSUME NEW i \in 1 .. Len(out)
      PROVE  i <= Len(live) /\ SameSection(out[i], live[i]) /\ ~IsMade(out[i])
  <2>1. i \in 1 .. Len(ss) /\ SameSection(out[i], ss[i])
    BY <1>5, <1>6, <1>7 DEF SameSection
  <2>2. i <= Len(live) /\ SameSection(ss[i], live[i])
    BY <2>1, <1>8 DEF InPlace
  <2>3. SameSection(out[i], live[i]) /\ ~IsMade(out[i])
    BY <2>1, <2>2, <1>8 DEF SameSection, IsMade
  <2> QED BY <2>2, <2>3
<1>10. ASSUME NEW i \in 1 .. Len(live), live[i].kind # "shell"
       PROVE  i <= Len(out) /\ ~IsMade(out[i])
  <2>1. i <= Len(ss) /\ i \in 1 .. Len(ss)
    BY <1>10, <1>1 DEF InPlace
  <2>2. ss[i].kind = live[i].kind /\ ss[i].kind \in Live0
    BY <2>1, <1>8 DEF InPlace, SameSection, OfDebuggee, Recorded
  <2>3. Kept(ss[i])
    BY <2>2, <1>10 DEF Live0, Kept
  <2>4. i <= Len(out) /\ i \in 1 .. Len(out)
    BY <2>1, <2>3, <1>4, <1>5, TableIs DEF OfItsStart
  <2> QED BY <2>4, <1>9
<1> QED
  BY <1>9, <1>10 DEF InPlace

LEMMA PlacedFrom ==
    ASSUME NEW ss, OfDebuggee(ss), ShellLast => InPlace(ss)
    PROVE  Placed(ss)
BY DEF OfDebuggee, Placed, CodeFirst

\* A step before the appended sections
LEMMA ImageEarly ==
    ASSUME ImageInv, pc \in Early, pc' \in Early, UNCHANGED <<input, live, hinted>>, Placed(secs)'
    PROVE  ImageInv'
<1>1. LiveImage' /\ Inputs'
  BY ImageOfMemory DEF ImageInv
<1>2. ~hinted
  BY DEF ImageInv
<1> QED
  BY <1>1, <1>2 DEF ImageInv, Early, Appending, Filed

LEMMA PlacedStays ==
    ASSUME NEW ss, Placed(ss), secs' = ss, live' = live
    PROVE  Placed(secs)'
BY DEF Placed, CodeFirst, InPlace, SameSection, IsMade

LEMMA ImagePatch ==
    ASSUME ImageInv, PatchHeader
    PROVE  ImageInv'
<1>1. pc = "patch" /\ pc' = "shrink" /\ UNCHANGED <<input, live, secs, hinted>>
  BY DEF PatchHeader, Step
<1>2. Placed(secs)
  BY DEF ImageInv
<1>3. Placed(secs)'
  BY <1>1, <1>2, PlacedStays
<1> QED
  BY <1>1, <1>3, ImageEarly DEF Early

LEMMA ImageShrink ==
    ASSUME LayoutInv, ImageInv, ShrinkSections
    PROVE  ImageInv'
<1>1. pc = "shrink" /\ pc' = "read" /\ UNCHANGED <<input, live, hinted>>
  BY DEF ShrinkSections, Step
<1>2. OfDebuggee(secs) /\ Follows(secs) /\ Placed(secs)
  BY <1>1, LayoutIsSound DEF Stage, Early, Sound, ImageInv
<1>3. PICK ss : ss = secs'
  OBVIOUS
<1>4. Placed(ss)
  <2>1. CASE ss = secs
    BY <2>1, <1>2
  <2>2. CASE ss = Compacted(WithoutRemoved(secs))
    <3>1. OfDebuggee(ss)
      BY <2>2, <1>2, CompactedIs
    <3>2. ShellLast => InPlace(ss)
      BY <2>2, <1>2, CompactedInPlace DEF Placed
    <3> QED BY <3>1, <3>2, PlacedFrom
  <2> QED BY <2>1, <2>2, <1>3 DEF ShrinkSections
<1>5. Placed(secs)'
  BY <1>1, <1>3, <1>4, PlacedStays
<1> QED
  BY <1>1, <1>5, ImageEarly DEF Early

LEMMA ImageRead ==
    ASSUME LayoutInv, ImageInv, ReadImage
    PROVE  ImageInv'
<1>1. /\ pc = "read" /\ pc' = "pdata" /\ dumped' = soi
      /\ secs' = [i \in DOMAIN secs |-> Sanitized(secs[i])]
      /\ UNCHANGED <<input, live, hinted>>
  BY DEF ReadImage, Step
<1>2. OfDebuggee(secs) /\ Sound /\ Placed(secs) /\ ~hinted
  BY <1>1, LayoutIsSound DEF Stage, Early, ImageInv
<1>3. PICK ss : ss = secs'
  OBVIOUS
<1>4. /\ SameImage(ss, secs)
      /\ \A i \in 1 .. Len(secs) :
            /\ ss[i].raw = secs[i].va
            /\ ss[i].rsize = IF Zeroed(secs[i]) THEN 0 ELSE secs[i].size
  BY <1>1, <1>2, <1>3, ReadIs
<1>5. /\ IsTable(secs) /\ IsTable(ss) /\ Len(ss) = Len(secs) /\ secs[1].kind = "code"
      /\ Follows(secs) /\ soi \in Nat /\ End(Last(secs)) <= soi
  BY <1>2, <1>4 DEF Sound, SameImage
<1>6. LiveKept(ss, secs)
  BY <1>4, <1>5, SameImageKept
<1>7. Placed(ss)
  BY <1>2, <1>5, <1>6, KeptIsPlaced
<1>8. ASSUME NEW i \in 1 .. Len(ss)
      PROVE  /\ End(ss[i]) <= soi /\ ss[i].raw = ss[i].va
             /\ ss[i].rsize <= ss[i].size
  <2>1. /\ ss[i].va = secs[i].va /\ ss[i].size = secs[i].size /\ i \in 1 .. Len(secs)
        /\ ss[i].raw = secs[i].va
        /\ ss[i].rsize = IF Zeroed(secs[i]) THEN 0 ELSE secs[i].size
    BY <1>4, <1>5 DEF SameImage
  <2>2. /\ secs[i].size \in Nat /\ End(secs[i]) \in Nat /\ Len(secs) \in Nat
        /\ Last(secs) = secs[Len(secs)] /\ Len(secs) \in 1 .. Len(secs)
        /\ secs[Len(secs)].va \in Nat /\ secs[Len(secs)].size \in Nat
        /\ End(secs[Len(secs)]) = secs[Len(secs)].va + secs[Len(secs)].size
    BY <2>1, <1>5, TableIs, SectionIs DEF End
  <2>3. End(secs[i]) <= soi
    <3>1. CASE i = Len(secs)
      BY <3>1, <2>2, <1>5
    <3>2. CASE i # Len(secs)
      <4>1. i < Len(secs)
        BY <3>2, <2>1, <2>2
      <4>2. End(secs[i]) <= secs[Len(secs)].va
        BY <4>1, <2>1, <2>2, <1>5, PlaceOf
      <4> QED BY <4>2, <2>2, <1>5
    <3> QED BY <3>1, <3>2
  <2> QED BY <2>1, <2>2, <2>3 DEF End
<1>9. Placed(secs)'
  BY <1>1, <1>3, <1>7, PlacedStays
<1>10. Buffered(secs)' /\ Within(secs)' /\ Mirrored(secs)'
  BY <1>1, <1>3, <1>8 DEF Buffered, Within, Mirrored, End, IsMade
<1>11. LiveImage' /\ Inputs'
  BY <1>1, ImageOfMemory DEF ImageInv
<1> QED
  BY <1>1, <1>2, <1>9, <1>10, <1>11 DEF ImageInv, Appending, Filed

\* The steps that append a section
LEMMA AppendStays ==
    ASSUME NEW name \in Made, NEW n \in Nat \ {0}, NEW ss, ss = WithSection(name, n),
           Sound, \A i \in 1 .. Len(secs) : 0 <= secs[i].raw
    PROVE  IsTable(ss) /\ LiveStays(ss, secs)
<1>1. /\ IsTable(ss) /\ Len(ss) = Len(secs) + 1 /\ IsTable(secs)
      /\ \A i \in 1 .. Len(secs) : ss[i] = secs[i]
      /\ ss[Len(ss)].kind = "made"
  BY AppendLayout DEF Sound
<1>2. IsMade(ss[Len(ss)])
  BY <1>1 DEF IsMade
<1> QED
  BY <1>1, <1>2, AppendedStays

LEMMA ImageAppended ==
    ASSUME LayoutInv, ImageInv, pc \in {"pdata", "reloc", "import"}, pc' \in Appending \ {"pdata"},
           UNCHANGED <<input, live, dumped>>,
           NEW ss, ss = secs', IsTable(ss), LiveStays(ss, secs),
           hinted' <=> pc' = "trim" /\ input.import > 0
    PROVE  ImageInv'
<1>1. /\ IsTable(secs) /\ secs[1].kind = "code" /\ Placed(secs)
      /\ Buffered(secs) /\ Within(secs) /\ Mirrored(secs)
  BY LayoutIsSound DEF Sound, ImageInv, Early, Appending
<1>2. LiveKept(ss, secs)
  BY DEF LiveStays
<1>3. Placed(ss)
  BY <1>1, <1>2, KeptIsPlaced
<1>4. Buffered(ss) /\ Within(ss) /\ Mirrored(ss)
  BY <1>1, StaysAre
<1>5. Placed(secs)'
  BY <1>3, PlacedStays
<1>6. Buffered(secs)' /\ Within(secs)' /\ Mirrored(secs)'
  BY <1>4 DEF Buffered, Within, Mirrored, End, IsMade
<1>7. LiveImage' /\ Inputs'
  BY ImageOfMemory DEF ImageInv
<1>8. pc' \notin Early /\ pc' \notin {"write"} \union Filed /\ pc' \in Appending
      /\ (pc' \notin Early \union {"pdata", "reloc", "import"} <=> pc' = "trim")
  BY DEF Appending, Early, Filed
<1> QED
  BY <1>5, <1>6, <1>7, <1>8 DEF ImageInv

LEMMA ImagePdata ==
    ASSUME LayoutInv, ImageInv, CreatePdata
    PROVE  ImageInv'
<1>1. pc = "pdata" /\ pc' = "reloc" /\ UNCHANGED <<input, live, dumped, hinted>>
  BY DEF CreatePdata, Step
<1>2. /\ Sound /\ InputOK /\ IsTable(secs) /\ ~hinted
      /\ \A i \in 1 .. Len(secs) : 0 <= secs[i].raw
  BY <1>1, LayoutIsSound DEF Stage, Appending, Sound, ImageInv
<1>3. PICK ss : ss = secs'
  OBVIOUS
<1>4. IsTable(ss) /\ LiveStays(ss, secs)
  <2>1. CASE UNCHANGED <<secs, soi>>
    BY <2>1, <1>2, <1>3, SelfStays
  <2>2. CASE input.pdata > 0 /\ secs' = WithSection("pdata", input.pdata)
    <3>1. /\ "pdata" \in Made /\ input.pdata \in Nat \ {0}
          /\ ss = WithSection("pdata", input.pdata)
      BY <2>2, <1>2, <1>3, InputIs DEF Made
    <3> QED BY <3>1, <1>2, AppendStays
  <2> QED BY <2>1, <2>2 DEF CreatePdata
<1> QED
  BY <1>1, <1>2, <1>3, <1>4, ImageAppended DEF Appending

LEMMA ImageReloc ==
    ASSUME LayoutInv, ImageInv, CreateReloc
    PROVE  ImageInv'
<1>1. pc = "reloc" /\ pc' = "import" /\ UNCHANGED <<input, live, dumped, hinted>>
  BY DEF CreateReloc, Step
<1>2. /\ Sound /\ InputOK /\ IsTable(secs) /\ ~hinted
      /\ \A i \in 1 .. Len(secs) : 0 <= secs[i].raw
  BY <1>1, LayoutIsSound DEF Stage, Appending, Sound, ImageInv
<1>3. PICK ss : ss = secs'
  OBVIOUS
<1>4. IsTable(ss) /\ LiveStays(ss, secs)
  <2>1. CASE UNCHANGED <<secs, soi>>
    BY <2>1, <1>2, <1>3, SelfStays
  <2>2. CASE secs' = WithSection("reloc", Reservation)
    <3>1. /\ "reloc" \in Made /\ Reservation \in Nat \ {0}
          /\ ss = WithSection("reloc", Reservation)
      BY <2>2, <1>2, <1>3, ReservationIs DEF Made
    <3> QED BY <3>1, <1>2, AppendStays
  <2> QED BY <2>1, <2>2 DEF CreateReloc
<1> QED
  BY <1>1, <1>2, <1>3, <1>4, ImageAppended DEF Appending

LEMMA ImageImport ==
    ASSUME LayoutInv, ImageInv, CreateImport
    PROVE  ImageInv'
<1>1. pc = "import" /\ pc' = "trim" /\ UNCHANGED <<input, live, dumped>>
  BY DEF CreateImport, Step
<1>2. /\ Sound /\ InputOK /\ IsTable(secs) /\ ~hinted
      /\ \A i \in 1 .. Len(secs) : 0 <= secs[i].raw
  BY <1>1, LayoutIsSound DEF Stage, Appending, Sound, ImageInv
<1>3. PICK ss : ss = secs'
  OBVIOUS
<1>4. /\ IsTable(ss) /\ LiveStays(ss, secs)
      /\ hinted' <=> input.import > 0
  <2>1. CASE ~(input.import > 0)
    <3>1. UNCHANGED <<secs, soi, hinted>>
      BY <2>1 DEF CreateImport
    <3> QED BY <3>1, <2>1, <1>2, <1>3, SelfStays
  <2>2. CASE input.import > 0
    <3>1. secs' = WithSection("import", ImportSize) /\ hinted' = TRUE
      BY <2>2 DEF CreateImport, ImportSize
    <3>2. ImportSize \in Nat \ {0}
      <4>1. AlignUp(input.import, FA) \in Nat
        BY <1>2, InputIs, SectionsOfFiles, AlignUpIs
      <4>2. ImportMin \in Nat \ {0}
        BY DumpAssumption
      <4> QED BY <4>1, <4>2 DEF ImportSize
    <3>3. "import" \in Made /\ ss = WithSection("import", ImportSize)
      BY <3>1, <1>3 DEF Made
    <3>4. IsTable(ss) /\ LiveStays(ss, secs)
      BY <3>2, <3>3, <1>2, AppendStays
    <3> QED BY <3>1, <3>4, <2>2
  <2> QED BY <2>1, <2>2
<1> QED
  BY <1>1, <1>2, <1>3, <1>4, ImageAppended DEF Appending

----------------------------------------------------------------------------
(* What trimming drops *)

\* The data of a section ends where trim_huge_sections says, if that looks
\* for it in the right place
LEMMA DataEndCovers ==
    ASSUME NEW s \in Section, NEW a \in FileRange(s), DumpBuf(a) # 0
    PROVE  a < s.raw + DataEnd(s)
<1> DEFINE used == {b \in FileRange(s) : DumpBuf(b) # 0}
<1>1. s.raw \in Int /\ s.rsize \in Nat /\ RawEnd(s) = s.raw + s.rsize
  BY SectionIs DEF RawEnd
<1>2. a \in used /\ a \in Int
  BY <1>1 DEF FileRange
<1>3. used \in SUBSET Int /\ \A b \in used : b <= s.raw + s.rsize - 1
  BY <1>1 DEF FileRange
<1>4. DataEnd(s) = IF used = {} THEN 0 ELSE Max(used) + 1 - s.raw
  BY DEF DataEnd
<1>5. s.raw + s.rsize - 1 \in Int
  BY <1>1
<1> HIDE DEF used
<1>6. Max(used) \in Int /\ a <= Max(used)
  BY <1>2, <1>3, <1>5, MaxOf
<1>7. used # {}
  BY <1>2
<1> QED
  BY <1>1, <1>2, <1>4, <1>6, <1>7

\* From "from" on a live section leaves room for those behind it
RoomyBefore(ss, from) ==
    \A i, j \in 1 .. Len(ss) :
        from <= i /\ i < j /\ ~IsMade(ss[j]) => ss[i].raw + AlignUp(ss[i].rsize, SA) <= ss[j].raw

\* The sections before "from" have been trimmed: as long as none was, the
\* file mirrors memory
CutSo(ss, old, from) ==
    /\ LiveApart(ss) /\ RoomyBefore(ss, from)
    /\ (\A k \in 1 .. Len(old) : k < from => ~Trimmed(ss[k])) =>
          \A i \in 1 .. Len(old) : ~IsMade(old[i]) => ss[i].raw = old[i].va
    /\ \A i \in 1 .. Len(old) : i < from => NothingCut(ss[i]) \/ MisjudgedIn(ss, i)

LEMMA CutFirst ==
    ASSUME NEW ss, IsTable(ss), LiveFirst(ss), Spread(ss), Mirrored(ss)
    PROVE  CutSo(ss, ss, 1)
<1>1. Len(ss) \in Nat /\ \A i \in 1 .. Len(ss) : ~(i < 1)
  BY TableIs
<1>2. LiveApart(ss)
  BY DEF Spread, Ordered, LiveApart
<1>3. ASSUME NEW i \in 1 .. Len(ss), NEW j \in 1 .. Len(ss), i < j, ~IsMade(ss[j])
      PROVE  ss[i].raw + AlignUp(ss[i].rsize, SA) <= ss[j].raw
  <2>1. ~IsMade(ss[i])
    BY <1>3 DEF LiveFirst
  <2>2. ~IsMade(ss[i + 1])
    <3>1. i + 1 \in 1 .. Len(ss) /\ (i + 1 < j \/ i + 1 = j)
      BY <1>1, <1>3
    <3> QED BY <3>1, <1>3 DEF LiveFirst
  <2>3. ~Loose(ss, i) /\ 1 <= i
    BY <2>2 DEF Loose
  <2> QED BY <1>3, <2>1, <2>3 DEF Spread, Roomy
<1>4. RoomyBefore(ss, 1)
  BY <1>3 DEF RoomyBefore
<1>5. \A i \in 1 .. Len(ss) : ~IsMade(ss[i]) => ss[i].raw = ss[i].va
  BY DEF Mirrored
<1> QED
  BY <1>1, <1>2, <1>4, <1>5 DEF CutSo

LEMMA NotCut ==
    ASSUME NEW old, IsTable(old), LiveFirst(old), Spread(old),
           NEW i \in 1 .. Len(old), NEW s, TrimmedSo(s, old, i), CutSo(s, old, i)
    PROVE  ~Trims(s, i) => CutSo(s, old, i + 1)
<1> SUFFICES ASSUME ~Trims(s, i) PROVE CutSo(s, old, i + 1)
  OBVIOUS
<1>1. /\ IsTable(s) /\ Len(s) = Len(old) /\ Len(old) \in Nat /\ i \in Int
      /\ s[i].rsize = old[i].rsize
      /\ IsMade(s[i]) <=> IsMade(old[i])
      /\ Zeroed(s[i]) <=> Zeroed(old[i])
      /\ s[i].size = old[i].size
  BY SMTT(60), TableIs, SameKinds DEF TrimmedSo, SameImage
<1>2. \A k \in 1 .. Len(old) : /\ i + 1 <= k => i <= k
                               /\ k < i + 1 <=> k < i \/ k = i
  BY <1>1
<1>3. RoomyBefore(s, i + 1)
  BY <1>1, <1>2 DEF RoomyBefore, CutSo
<1>4. NothingCut(s[i])
  <2> SUFFICES ASSUME ~IsMade(s[i]), ~Zeroed(s[i]), NEW a \in s[i].va .. End(s[i]) - 1
               PROVE  a < s[i].va + s[i].rsize
    BY DEF NothingCut
  <2>1. s[i].rsize = s[i].size
    BY <1>1 DEF Spread, Whole
  <2>2. s[i].va \in Nat /\ s[i].size \in Nat
    BY <1>1, TableIs, SectionIs
  <2> QED BY <2>1, <2>2 DEF End
<1>5. (\A k \in 1 .. Len(old) : k < i + 1 => ~Trimmed(s[k])) =>
         \A k \in 1 .. Len(old) : ~IsMade(old[k]) => s[k].raw = old[k].va
  BY <1>2 DEF CutSo
<1> QED
  BY <1>2, <1>3, <1>4, <1>5 DEF CutSo

\* The numbers of a shift in the file
LEMMA ShiftApart ==
    ASSUME NEW a \in Int, NEW b \in Int, NEW c \in Int, NEW m \in Nat, NEW z \in Nat,
           a <= b, b + (m + z) <= c
    PROVE  a <= c - m
OBVIOUS

LEMMA CutNext ==
    ASSUME NEW old, IsTable(old), LiveFirst(old), Spread(old),
           NEW i \in 1 .. Len(old), NEW s, TrimmedSo(s, old, i), CutSo(s, old, i), Trims(s, i),
           NEW x, x = TrimmedOne(s, i)
    PROVE  CutSo(x, old, i + 1)
<1> DEFINE N == Len(old)
           M == MovedBy(s, i)
           Z == NewSize(s, i)
<1>1. /\ N \in Nat /\ SameImage(s, old) /\ IsTable(s) /\ Len(s) = N /\ i \in 1 .. Len(s)
      /\ SA \in Nat \ {0} /\ Huge \in Nat
  BY TableIs, SectionsOfFiles, DumpAssumption DEF TrimmedSo, SameImage
<1>2. ~IsMade(old[i]) /\ ~Zeroed(old[i]) /\ s[i].rsize = old[i].size
  BY TrimmedIsLive
<1>3. /\ SameImage(x, s)
      /\ M \in Nat /\ Z \in Nat /\ Z < s[i].rsize
      /\ M + Z = AlignUp(s[i].rsize, SA)
      /\ x[i].raw = s[i].raw /\ x[i].rsize = Z
      /\ \A k \in 1 .. N : k < i => x[k] = s[k]
      /\ \A k \in 1 .. N : k > i => x[k].raw = s[k].raw - M /\ x[k].rsize = s[k].rsize
  BY <1>1, TrimFields
<1>4. /\ Len(x) = N
      /\ \A k \in 1 .. N : /\ IsMade(x[k]) <=> IsMade(s[k])
                           /\ Zeroed(x[k]) <=> Zeroed(s[k])
                           /\ x[k].size = s[k].size /\ x[k].va = s[k].va
  <2>1. SameImage(x, s) /\ Len(s) \in Nat /\ Len(s) = N
    BY <1>1, <1>3
  <2>2. /\ Len(x) = N
        /\ \A k \in 1 .. N : x[k].size = s[k].size /\ x[k].va = s[k].va /\ x[k].kind = s[k].kind
    BY <2>1 DEF SameImage
  <2> QED BY <2>2 DEF IsMade, Zeroed
<1>5. \A k \in 1 .. N :
         /\ s[k].raw \in Int /\ s[k].rsize \in Nat /\ s[k].va \in Nat /\ s[k].size \in Nat
         /\ RawEnd(s[k]) = s[k].raw + s[k].rsize /\ RawEnd(s[k]) \in Int
         /\ RawEnd(x[k]) = x[k].raw + x[k].rsize
  BY <1>1, TableIs, SectionIs DEF RawEnd
<1>6. /\ LiveApart(s) /\ RoomyBefore(s, i)
      /\ \A k \in 1 .. N : k < i => NothingCut(s[k]) \/ MisjudgedIn(s, k)
  BY DEF CutSo
<1>7. ~IsMade(s[i]) /\ ~Zeroed(s[i]) /\ s[i].size = s[i].rsize /\ s[i].va = old[i].va
  BY <1>1, <1>2, SameKinds DEF SameImage
<1> HIDE DEF N, M, Z
<1>8. ASSUME NEW a \in 1 .. N, NEW b \in 1 .. N, a < b, ~IsMade(x[b])
      PROVE  RawEnd(x[a]) <= x[b].raw
  <2>0. ~IsMade(s[b]) /\ RawEnd(s[a]) <= s[b].raw
    BY <1>1, <1>4, <1>6, <1>8 DEF LiveApart
  <2>1. CASE b < i
    <3>1. a < i
      BY <1>8, <2>1
    <3> QED BY <2>0, <2>1, <3>1, <1>3
  <2>2. CASE b = i
    BY <2>0, <2>2, <1>8, <1>3
  <2>3. CASE b > i /\ a < i
    <3>1. RawEnd(s[a]) <= s[i].raw
      BY <2>3, <1>1, <1>6, <1>7 DEF LiveApart
    <3>2. s[i].raw + AlignUp(s[i].rsize, SA) <= s[b].raw
      BY <2>0, <2>3, <1>1, <1>6 DEF RoomyBefore
    <3>3. s[i].raw + (M + Z) <= s[b].raw
      BY <3>2, <1>3
    <3>4. RawEnd(s[a]) <= s[b].raw - M
      BY <3>1, <3>3, <1>1, <1>3, <1>5, ShiftApart
    <3> QED BY <3>4, <2>3, <1>3
  <2>4. CASE b > i /\ a = i
    <3>1. s[i].raw + AlignUp(s[i].rsize, SA) <= s[b].raw
      BY <2>0, <2>4, <1>1, <1>6 DEF RoomyBefore
    <3>2. s[i].raw + (M + Z) <= s[b].raw
      BY <3>1, <1>3
    <3>3. s[i].raw + Z <= s[b].raw - M
      BY <3>2, <1>3, <1>1, <1>5, ShiftAfter
    <3> QED BY <3>3, <2>4, <1>3, <1>5
  <2>5. CASE b > i /\ a > i
    <3>1. s[a].raw + s[a].rsize <= s[b].raw
      BY <2>0, <1>5
    <3>2. (s[a].raw - M) + s[a].rsize <= s[b].raw - M
      BY <3>1, <1>3, <1>5, ShiftBoth
    <3> QED BY <3>2, <2>5, <1>3, <1>5
  <2> QED BY <2>1, <2>2, <2>3, <2>4, <2>5, <1>1, <1>8
<1>9. LiveApart(x)
  BY <1>4, <1>8 DEF LiveApart
<1>10. RoomyBefore(x, i + 1)
  <2>1. ASSUME NEW a \in 1 .. N, NEW b \in 1 .. N, i + 1 <= a, a < b, ~IsMade(x[b])
        PROVE  x[a].raw + AlignUp(x[a].rsize, SA) <= x[b].raw
    <3>1. a > i /\ b > i /\ i <= a
      BY <2>1, <1>1
    <3>2. s[a].raw + AlignUp(s[a].rsize, SA) <= s[b].raw
      BY <2>1, <3>1, <1>1, <1>4, <1>6 DEF RoomyBefore
    <3>3. AlignUp(s[a].rsize, SA) \in Nat
      BY <1>1, <1>5, AlignUpIs
    <3>4. (s[a].raw - M) + AlignUp(s[a].rsize, SA) <= s[b].raw - M
      BY <3>2, <3>3, <1>3, <1>5, ShiftBoth
    <3> QED BY <3>1, <3>4, <1>3
  <2> QED BY <1>4, <2>1 DEF RoomyBefore
<1>11. Trimmed(x[i]) /\ x[i].size > Huge
  <2>1. x[i].rsize < x[i].size
    BY <1>1, <1>3, <1>4, <1>7
  <2>2. s[i].rsize > Huge
    <3>1. DataEnd(s[i]) \in 0 .. s[i].rsize
      BY <1>1, TableIs, DataEndIs
    <3>2. s[i].rsize - DataEnd(s[i]) > Huge
      BY DEF Trims
    <3> QED BY <3>1, <3>2, <1>1, <1>5
  <2> QED BY <2>1, <2>2, <1>1, <1>4, <1>7 DEF Trimmed, IsMade
<1>12. ASSUME NEW k \in 1 .. N, k < i
       PROVE  NothingCut(x[k]) \/ MisjudgedIn(x, k)
  <2>1. x[k] = s[k] /\ (NothingCut(s[k]) \/ MisjudgedIn(s, k))
    BY <1>3, <1>6, <1>12
  <2>2. \A j \in 1 .. k - 1 : x[j] = s[j]
    <3>1. \A j \in 1 .. k - 1 : j \in 1 .. N /\ j < i
      BY <1>1, <1>12
    <3> QED BY <3>1, <1>3
  <2> QED BY <2>1, <2>2 DEF MisjudgedIn
<1>13. NothingCut(x[i]) \/ MisjudgedIn(x, i)
  <2>1. CASE \E k \in 1 .. N : k < i /\ Trimmed(s[k])
    <3>1. PICK k \in 1 .. N : k < i /\ Trimmed(s[k])
      BY <2>1
    <3>2. Trimmed(x[k]) /\ k \in 1 .. i - 1
      BY <3>1, <1>1, <1>3
    <3>3. ~IsMade(x[i]) /\ ~Zeroed(x[i])
      BY <1>1, <1>4, <1>7
    <3> QED BY <3>2, <3>3, <1>11 DEF MisjudgedIn
  <2>2. CASE ~\E k \in 1 .. N : k < i /\ Trimmed(s[k])
    <3>1. s[i].raw = s[i].va
      BY <2>2, <1>1, <1>2, <1>7 DEF CutSo, N
    <3>2. ASSUME NEW a \in x[i].va .. End(x[i]) - 1, DumpBuf(a) # 0
          PROVE  a < x[i].va + x[i].rsize
      <4>1. x[i].va = s[i].raw /\ x[i].size = s[i].rsize /\ s[i].raw \in Nat /\ s[i].rsize \in Nat
        BY <3>1, <1>1, <1>4, <1>5, <1>7
      <4>2. a \in FileRange(s[i]) /\ a \in Int
        BY <4>1 DEF FileRange, RawEnd, End
      <4>3. a < s[i].raw + DataEnd(s[i]) /\ DataEnd(s[i]) \in Nat
        <5>1. s[i] \in Section
          BY <1>1, TableIs
        <5>2. a < s[i].raw + DataEnd(s[i])
          BY <3>2, <4>2, <5>1, DataEndCovers
        <5>3. DataEnd(s[i]) \in 0 .. s[i].rsize
          BY <5>1, DataEndIs
        <5> QED BY <5>2, <5>3
      <4>4. DataEnd(s[i]) <= NewSize(s, i) /\ NewSize(s, i) \in Nat
        BY <4>3, SectionsOfFiles, AlignUpIs DEF NewSize
      <4>5. x[i].rsize = NewSize(s, i)
        BY <1>3 DEF Z
      <4> QED BY <4>1, <4>2, <4>3, <4>4, <4>5
    <3> QED BY <3>2 DEF NothingCut
  <2> QED BY <2>1, <2>2
<1>14. \A k \in 1 .. N : k < i + 1 => k < i \/ k = i
  BY <1>1
<1>15. \A k \in 1 .. Len(old) : k < i + 1 => NothingCut(x[k]) \/ MisjudgedIn(x, k)
  BY <1>12, <1>13, <1>14 DEF N
<1>16. ~\A k \in 1 .. Len(old) : k < i + 1 => ~Trimmed(x[k])
  <2>1. i < i + 1
    BY <1>1
  <2> QED BY <2>1, <1>11
<1> QED
  BY <1>9, <1>10, <1>15, <1>16 DEF CutSo

LEMMA CutAll ==
    ASSUME NEW old, IsTable(old), LiveFirst(old), Spread(old), Mirrored(old)
    PROVE  CutSo(TrimmedAll(old), old, Len(old) + 1)
<1> DEFINE N == Len(old)
<1>1. PICK t : TrimWalk(t, old)
  BY TrimmedAllIs
<1>2. /\ t[0] = old /\ t[N] = TrimmedAll(old)
      /\ \A n \in 1 .. N : t[n] = TrimmedOne(t[n - 1], n)
  BY <1>1 DEF TrimWalk
<1>3. TrimsSo(t, old)
  BY <1>1, TrimRoom
<1>4. N \in Nat \ {0}
  BY TableIs
<1> DEFINE T == {n \in 0 .. N : CutSo(t[n], old, n + 1)}
<1>5. 0 \in T
  <2>1. 0 + 1 = 1 /\ 0 \in 0 .. N
    BY <1>4
  <2> QED BY <2>1, <1>2, CutFirst
<1>6. ASSUME NEW n \in 0 .. N - 1, n \in T PROVE n + 1 \in T
  <2>1. PICK i \in 1 .. N : i = n + 1 /\ i - 1 = n
    BY <1>4
  <2>2. PICK s : s = t[n]
    OBVIOUS
  <2>3. TrimmedSo(s, old, i) /\ CutSo(s, old, i)
    <3>1. n \in 0 .. Len(old)
      BY <1>6
    <3> QED BY <3>1, <1>3, <1>6, <2>1, <2>2 DEF TrimsSo
  <2>4. t[i] = TrimmedOne(s, i)
    BY <2>1, <2>2, <1>2
  <2>5. CutSo(t[i], old, i + 1)
    <3>1. CASE Trims(s, i)
      BY <2>3, <2>4, <3>1, CutNext
    <3>2. CASE ~Trims(s, i)
      <4>1. IsTable(s) /\ i \in 1 .. Len(s)
        BY <2>3 DEF TrimmedSo, SameImage
      <4>2. t[i] = s
        BY <4>1, <2>4, <3>2, TrimmedOneIs
      <4> QED BY <4>2, <2>3, <3>2, NotCut
    <3> QED BY <3>1, <3>2
  <2> QED BY <2>1, <2>5, <1>6
<1> HIDE DEF T
<1>7. \A n \in 0 .. N : n \in T
  <2>1. 0 \in Int /\ N \in Int
    BY <1>4
  <2> QED BY <1>5, <1>6, <2>1, UpFrom
<1>8. N \in T
  BY <1>4, <1>7
<1> QED
  BY <1>8, <1>2 DEF T

LEMMA ImageTrim ==
    ASSUME LayoutInv, RoomInv, ImageInv, TrimSections
    PROVE  ImageInv'
<1>1. /\ pc = "trim" /\ pc' = "write" /\ secs' = TrimmedAll(secs)
      /\ UNCHANGED <<input, live, dumped, hinted>>
  BY DEF TrimSections, Step
<1>2. /\ IsTable(secs) /\ secs[1].kind = "code" /\ LiveFirst(secs) /\ Spread(secs)
      /\ Placed(secs) /\ Buffered(secs) /\ Within(secs) /\ Mirrored(secs)
      /\ hinted <=> input.import > 0
  BY <1>1, LayoutIsSound DEF RoomInv, Appending, Early, Sound, ImageInv
<1>3. PICK ss : ss = secs'
  OBVIOUS
<1>4. /\ SameImage(ss, secs) /\ IsTable(ss) /\ Len(ss) = Len(secs) /\ Len(secs) \in Nat
      /\ \A i \in 1 .. Len(secs) : ss[i].rsize <= secs[i].rsize
  BY <1>1, <1>2, <1>3, TrimmedIs, TableIs DEF Trimmings, SameImage
<1>5. LiveKept(ss, secs)
  BY <1>2, <1>4, SameImageKept
<1>6. Placed(ss)
  BY <1>2, <1>4, <1>5, KeptIsPlaced
<1>7. CutSo(ss, secs, Len(secs) + 1)
  BY <1>1, <1>2, <1>3, CutAll
<1>8. \A i \in 1 .. Len(ss) :
         /\ IsMade(ss[i]) <=> IsMade(secs[i])
         /\ ss[i].va = secs[i].va /\ ss[i].size = secs[i].size
  BY <1>4, SameKinds DEF SameImage
<1>9. Buffered(ss)
  BY <1>2, <1>4, <1>8 DEF Buffered, End
<1>10. Within(ss)
  <2>1. ASSUME NEW i \in 1 .. Len(ss), ~IsMade(ss[i]) PROVE ss[i].rsize <= ss[i].size
    <3>1. secs[i].rsize <= secs[i].size /\ ss[i].rsize <= secs[i].rsize
      BY <2>1, <1>2, <1>4, <1>8 DEF Within
    <3>2. ss[i].rsize \in Nat /\ secs[i].rsize \in Nat /\ secs[i].size \in Nat
      BY <1>2, <1>4, TableIs, SectionIs
    <3> QED BY <3>1, <3>2, <1>8
  <2> QED BY <2>1 DEF Within
<1>11. LiveApart(ss) /\ (Judged(ss) => \A i \in 1 .. Len(ss) : NothingCut(ss[i]))
  <2>1. \A i \in 1 .. Len(secs) : i < Len(secs) + 1
    BY <1>4
  <2> QED BY <2>1, <1>4, <1>7 DEF CutSo, Judged
<1>12. Placed(secs)'
  BY <1>1, <1>3, <1>6, PlacedStays
<1>13. Buffered(secs)' /\ Within(secs)' /\ LiveApart(secs)'
  BY <1>1, <1>3, <1>9, <1>10, <1>11 DEF Buffered, Within, LiveApart, End, RawEnd, IsMade
<1>14. (Judged(secs) => \A i \in 1 .. Len(secs) : NothingCut(secs[i]))'
  BY <1>1, <1>3, <1>11
     DEF Judged, MisjudgedIn, Trimmed, Zeroed, IsMade, NothingCut, DumpBuf, Live, End
<1>15. LiveImage' /\ Inputs'
  BY <1>1, ImageOfMemory DEF ImageInv
<1> QED
  BY <1>1, <1>2, <1>12, <1>13, <1>14, <1>15 DEF ImageInv, Early, Appending, Filed

\* The steps that leave the live sections of the product as they are
LEMMA ImageFiled ==
    ASSUME LayoutInv, ImageInv, pc \in {"write"} \union Filed, pc' \in Filed,
           UNCHANGED <<input, live, dumped, hinted>>,
           NEW ss, ss = secs', IsTable(ss), LiveKept(ss, secs), LiveApart(ss),
           \A i \in 1 .. Len(secs) : ~IsMade(secs[i]) => ss[i].rsize = secs[i].rsize
    PROVE  ImageInv'
<1>1. /\ IsTable(secs) /\ secs[1].kind = "code" /\ Placed(secs)
      /\ Buffered(secs) /\ Within(secs)
      /\ Judged(secs) => \A i \in 1 .. Len(secs) : NothingCut(secs[i])
      /\ hinted <=> input.import > 0
  BY LayoutIsSound DEF Sound, ImageInv, Early, Filed
<1>2. /\ Len(secs) \in Nat /\ Len(ss) \in Nat /\ Len(secs) <= Len(ss)
  BY <1>1, TableIs DEF LiveKept
<1>3. ASSUME NEW i \in 1 .. Len(ss), ~IsMade(ss[i])
      PROVE  /\ i \in 1 .. Len(secs) /\ ~IsMade(secs[i])
             /\ SameSection(ss[i], secs[i]) /\ ss[i].rsize = secs[i].rsize
  <2>1. i <= Len(secs) /\ ~IsMade(secs[i])
    BY <1>3 DEF LiveKept
  <2>2. i \in 1 .. Len(secs)
    BY <2>1, <1>2
  <2> QED BY <2>1, <2>2 DEF LiveKept
<1>4. Placed(ss)
  BY <1>1, KeptIsPlaced
<1>5. Buffered(ss) /\ Within(ss)
  BY <1>1, <1>3 DEF Buffered, Within, SameSection, End
<1>6. ASSUME NEW i \in 1 .. Len(secs)
      PROVE  /\ i \in 1 .. Len(ss) /\ (IsMade(ss[i]) <=> IsMade(secs[i]))
             /\ ~IsMade(secs[i]) => /\ ss[i].kind = secs[i].kind /\ ss[i].size = secs[i].size
                                    /\ ss[i].rsize = secs[i].rsize
  <2>1. i \in 1 .. Len(ss) /\ i <= Len(secs)
    BY <1>2
  <2> QED BY <2>1 DEF LiveKept, SameSection
<1>7. Judged(ss) => Judged(secs)
  <2> SUFFICES ASSUME Judged(ss), NEW i \in 1 .. Len(secs), MisjudgedIn(secs, i)
               PROVE  FALSE
    BY DEF Judged
  <2>1. PICK k \in 1 .. i - 1 : Trimmed(secs[k])
    BY DEF MisjudgedIn
  <2>2. k \in 1 .. Len(secs)
    BY <1>2
  <2>3. Trimmed(ss[k])
    BY <2>1, <2>2, <1>6 DEF Trimmed, Zeroed, IsMade
  <2>4. ~IsMade(ss[i]) /\ ~Zeroed(ss[i]) /\ ss[i].size > Huge /\ i \in 1 .. Len(ss)
    BY <1>6 DEF Zeroed, MisjudgedIn
  <2>5. MisjudgedIn(ss, i)
    BY <2>3, <2>4 DEF MisjudgedIn
  <2> QED BY <2>4, <2>5 DEF Judged
<1>8. ASSUME Judged(ss), NEW i \in 1 .. Len(ss)
      PROVE  NothingCut(ss[i])
  <2>1. CASE IsMade(ss[i])
    BY <2>1 DEF NothingCut
  <2>2. CASE ~IsMade(ss[i])
    <3>1. NothingCut(secs[i]) /\ SameSection(ss[i], secs[i]) /\ ss[i].rsize = secs[i].rsize
      BY <2>2, <1>1, <1>3, <1>7, <1>8
    <3> QED BY <3>1 DEF NothingCut, SameSection, End, Zeroed, IsMade
  <2> QED BY <2>1, <2>2
<1>9. Placed(secs)'
  BY <1>4, PlacedStays
<1>10. Buffered(secs)' /\ Within(secs)' /\ LiveApart(secs)'
  BY <1>5 DEF Buffered, Within, LiveApart, End, RawEnd, IsMade
<1>11. (Judged(secs) => \A i \in 1 .. Len(secs) : NothingCut(secs[i]))'
  BY <1>8 DEF Judged, MisjudgedIn, Trimmed, Zeroed, IsMade, NothingCut, DumpBuf, Live, End
<1>12. LiveImage' /\ Inputs'
  BY ImageOfMemory DEF ImageInv
<1> QED
  BY <1>1, <1>9, <1>10, <1>11, <1>12 DEF ImageInv, Early, Appending, Filed

LEMMA ImageWrite ==
    ASSUME LayoutInv, RoomInv, ImageInv, WriteOutput
    PROVE  ImageInv' /\ \A i \in 1 .. Len(secs) : ~IsMade(secs[i]) => secs'[i].raw = secs[i].raw
<1>1. /\ pc = "write" /\ pc' = "fix"
      /\ UNCHANGED <<input, live, dumped, hinted>>
      /\ secs' = [i \in DOMAIN secs |-> Clamped(secs[i])]
  BY WriteIs
<1>2. /\ IsTable(secs) /\ secs[1].kind = "code" /\ LiveFirst(secs) /\ Standing(secs)
      /\ LiveApart(secs)
  BY <1>1, LayoutIsSound DEF RoomInv, Sound, ImageInv
<1>3. PICK ss : ss = secs'
  OBVIOUS
<1>4. /\ SameImage(ss, secs)
      /\ \A i \in 1 .. Len(secs) :
            /\ ss[i].rsize = secs[i].rsize
            /\ ss[i].raw = IF secs[i].rsize > 0 /\ secs[i].raw < MinRaw
                           THEN MinRaw ELSE secs[i].raw
  <2>1. ss = [i \in DOMAIN secs |-> Clamped(secs[i])] /\ IsTable(secs)
    BY <1>1, <1>2, <1>3
  <2> QED BY <2>1, ClampedAre
<1>5. /\ Len(ss) = Len(secs) /\ IsTable(ss) /\ Len(secs) \in Nat \ {0}
      /\ 1 \in 1 .. Len(secs)
      /\ \A i \in 1 .. Len(secs) : IsMade(ss[i]) <=> IsMade(secs[i])
  BY <1>2, <1>4, TableIs, SameKinds DEF SameImage
<1>6. /\ MinRaw \in Nat /\ SA \in Nat /\ MinRaw <= SA
  BY DumpAssumption
<1>7. \A i \in 1 .. Len(secs) :
         /\ secs[i].raw \in Int /\ secs[i].rsize \in Nat
         /\ RawEnd(secs[i]) = secs[i].raw + secs[i].rsize
  BY <1>2, TableIs, SectionIs DEF RawEnd
<1>8. ASSUME NEW i \in 1 .. Len(secs), ~IsMade(secs[i]) PROVE ss[i].raw = secs[i].raw
  <2>1. SA <= secs[1].raw
    BY <1>2 DEF Standing
  <2>2. SA <= secs[i].raw
    <3>1. CASE i = 1
      BY <3>1, <2>1
    <3>2. CASE i # 1
      <4>1. 1 < i
        BY <3>2
      <4>2. RawEnd(secs[1]) <= secs[i].raw
        BY <4>1, <1>2, <1>5, <1>8 DEF LiveApart
      <4> QED BY <4>2, <2>1, <1>5, <1>6, <1>7
    <3> QED BY <3>1, <3>2
  <2>3. ~(secs[i].raw < MinRaw)
    BY <2>2, <1>6, <1>7
  <2> QED BY <2>3, <1>4
<1>9. ASSUME NEW i \in 1 .. Len(ss), NEW j \in 1 .. Len(ss), i < j, ~IsMade(ss[j])
      PROVE  RawEnd(ss[i]) <= ss[j].raw
  <2>1. ~IsMade(secs[j]) /\ ~IsMade(secs[i])
    BY <1>2, <1>5, <1>9 DEF LiveFirst
  <2>2. RawEnd(secs[i]) <= secs[j].raw
    BY <2>1, <1>2, <1>5, <1>9 DEF LiveApart
  <2>3. ss[i].raw = secs[i].raw /\ ss[j].raw = secs[j].raw /\ ss[i].rsize = secs[i].rsize
    BY <2>1, <1>4, <1>5, <1>8
  <2> QED BY <2>2, <2>3 DEF RawEnd
<1>10. LiveKept(ss, secs)
  BY <1>2, <1>4, SameImageKept
<1>11. LiveApart(ss)
  BY <1>9 DEF LiveApart
<1>12. ImageInv'
  BY <1>1, <1>3, <1>4, <1>5, <1>10, <1>11, ImageFiled DEF Filed
<1> QED
  BY <1>3, <1>8, <1>12

----------------------------------------------------------------------------
(* What the file holds *)

\* What a unit of a section is to hold, and what may stand for it: a pointer
\* may have been rebased
Held(s, k) == IF IsMade(s) THEN Payload(s.name) ELSE DumpBuf(s.va + k)
Stands(v, h) == v = h \/ (SA <= h /\ v = -h)

Reaches(ss, f) ==
    \A i \in 1 .. Len(ss) : \A k \in 0 .. ss[i].rsize - 1 :
        Stands(f[ss[i].raw + k], Held(ss[i], k))

InFile(ss, f) == \A i \in 1 .. Len(ss) : FileRange(ss[i]) \subseteq DOMAIN f

Rebased == {-p : p \in Pointers}

\* No pointer is of the other base, and code has none
OneBase(ss, f) ==
    \A i \in 1 .. Len(ss) : ~IsMade(ss[i]) =>
        \A o \in FileRange(ss[i]) :
            /\ ss[i].kind = "code" \/ base = "file" => f[o] \notin Pointers
            /\ ss[i].kind = "code" \/ base # "file" => f[o] \notin Rebased

\* Before any of them is rebased
NoneRebased(ss, f) ==
    /\ \A o \in DOMAIN f : f[o] \notin Rebased
    /\ \A o \in FileRange(ss[1]) : f[o] \notin Pointers

TableHasAll(ss, f) ==
    \A i \in 1 .. Len(ss) : ~IsMade(ss[i]) =>
        \A o \in FileRange(ss[i]) :
            f[o] \in Pointers \union Rebased => ss[i].va + o - ss[i].raw \in table

\* The two ways in which trimming goes wrong have not happened
WellCut == ShellLast /\ Well(secs) /\ Judged(secs)

ContentInv ==
    /\ pc \in Filed => InFile(secs, file)
    /\ pc \in Filed /\ WellCut => Reaches(secs, file)
    /\ pc = "fix" /\ input.arch = "x64" => NoneRebased(secs, file)
    /\ pc \in Filed \ {"fix"} /\ input.arch = "x64" => OneBase(secs, file)
    /\ pc \in {"fix", "pack", "table"} => ~dynamic
    /\ pc \notin {"save", "done", "failed"} => table = {}
    /\ pc \in {"save", "done"} /\ input.arch = "x64" /\ dynamic => TableHasAll(secs, file)
    /\ WellCut /\ input.import > 0 => input.iat \notin table

\* The values of the file
LEMMA PointersAre ==
    ASSUME LiveImage
    PROVE  /\ \A p \in Pointers : p \in Nat /\ SA <= p /\ 3 < p
           /\ \A q \in Rebased : q \in Int /\ q < -3
           /\ input.arch = "x64" => \A p \in Pointers : SA + SA - 1 <= p
<1>1. /\ IsTable(live) /\ Follows(live) /\ Len(live) \in Nat \ {0}
      /\ live[1].kind = "code" /\ live[1].size = SA - 1 /\ live[1].va = SA
      /\ \A i \in 1 .. Len(live) : live[i].at = live[i].va /\ live[i].va \in Nat
      /\ SA \in Nat /\ 3 < SA
  BY TableIs, SectionIs, SectionsOfFiles DEF LiveImage, OfDebuggee, Follows
<1>2. ASSUME NEW p \in Pointers
      PROVE  p \in Nat /\ SA <= p /\ 3 < p /\ (input.arch = "x64" => SA + SA - 1 <= p)
  <2>1. PICK s \in ToSet(live) : /\ p = s.at
                                 /\ Kept(s) /\ (s.kind = "code" => input.arch = "x86")
    BY DEF Pointers
  <2>2. PICK i \in 1 .. Len(live) : s = live[i]
    BY <2>1, <1>1, TableIs
  <2>3. p = live[i].va /\ p \in Nat /\ SA <= p
    BY <2>1, <2>2, <1>1, PlaceOf
  <2>4. ASSUME input.arch = "x64" PROVE SA + SA - 1 <= p
    <3>1. i # 1
      BY <2>1, <2>2, <2>4, <1>1
    <3>2. 1 \in 1 .. Len(live) /\ 1 < i
      BY <3>1, <1>1
    <3>3. End(live[1]) <= live[i].va
      BY <3>2, <1>1, PlaceOf
    <3> QED BY <3>3, <2>3, <1>1 DEF End
  <2> QED BY <2>3, <2>4, <1>1
<1>3. ASSUME NEW q \in Rebased PROVE q \in Int /\ q < -3
  <2>1. PICK p \in Pointers : q = -p
    BY DEF Rebased
  <2>2. p \in Nat /\ 3 < p
    BY <1>2
  <2> QED BY <2>1, <2>2
<1> QED
  BY <1>2, <1>3

LEMMA BufferHolds ==
    ASSUME LiveImage, NEW a \in Int
    PROVE  DumpBuf(a) = 0 \/ DumpBuf(a) = -1 \/ (DumpBuf(a) = a /\ 0 <= a)
<1>1. Live(a) = 0 \/ (Live(a) = a /\ 0 <= a)
  <2>1. CASE \E s \in ToSet(live) : a >= s.at /\ a < s.at + s.used
    <3>1. PICK s \in ToSet(live) : a >= s.at
      BY <2>1
    <3>2. s.at \in Nat
      BY <3>1, TableIs, SectionIs DEF LiveImage, OfDebuggee
    <3> QED BY <2>1, <3>1, <3>2 DEF Live
  <2>2. CASE ~\E s \in ToSet(live) : a >= s.at /\ a < s.at + s.used
    BY <2>2 DEF Live
  <2> QED BY <2>1, <2>2
<1> QED
  BY <1>1 DEF DumpBuf, Hint

LEMMA PayloadIs ==
    ASSUME NEW name \in Made
    PROVE  Payload(name) \in {1, 2, 3}
BY DEF Made, Payload

LEMMA OneIsGreatest ==
    ASSUME NEW i \in Int
    PROVE  Max({i}) = i
<1>1. Max({i}) \in {i}
  BY MaxOf
<1> QED
  BY <1>1

LEMMA InRange ==
    ASSUME NEW s \in Section, NEW o
    PROVE  /\ o \in FileRange(s) <=> o \in Int /\ s.raw <= o /\ o < RawEnd(s)
           /\ RawEnd(s) = s.raw + s.rsize /\ RawEnd(s) \in Int
           /\ \A k \in 0 .. s.rsize - 1 : s.raw + k \in FileRange(s)
<1>1. s.raw \in Int /\ s.rsize \in Nat
  BY SectionIs
<1> QED
  BY <1>1 DEF FileRange, RawEnd

(* Where the file ranges do not overlap, a unit is what its section holds. *)
LEMMA WrittenOnce ==
    ASSUME NEW ss, IsTable(ss), Ordered(ss),
           NEW i \in 1 .. Len(ss), NEW k \in 0 .. ss[i].rsize - 1
    PROVE  Written(ss, ss[i].raw + k) = Held(ss[i], k)
<1>1. /\ DOMAIN ss = 1 .. Len(ss) /\ Len(ss) \in Nat
      /\ \A j \in 1 .. Len(ss) : /\ ss[j].raw \in Int /\ ss[j].rsize \in Nat /\ ss[j].va \in Nat
                                 /\ RawEnd(ss[j]) = ss[j].raw + ss[j].rsize
                                 /\ ss[j] \in Section /\ RawEnd(ss[j]) \in Int
  BY TableIs, SectionIs DEF RawEnd
<1>2. PICK o \in Int : o = ss[i].raw + k
  BY <1>1
<1> DEFINE over == {j \in DOMAIN ss : o \in FileRange(ss[j])}
<1>3. o \in FileRange(ss[i])
  BY <1>1, <1>2 DEF FileRange
<1>4. ASSUME NEW j \in 1 .. Len(ss), o \in FileRange(ss[j]) PROVE j = i
  <2>1. ss[j].raw <= o /\ o < RawEnd(ss[j]) /\ ss[i].raw <= o /\ o < RawEnd(ss[i])
    <3>1. ss[i] \in Section /\ ss[j] \in Section
      BY <1>1
    <3> QED BY <3>1, <1>3, <1>4, InRange
  <2>2. ~(i < j)
    <3>1. ASSUME i < j PROVE FALSE
      <4>1. RawEnd(ss[i]) <= ss[j].raw
        BY <3>1 DEF Ordered
      <4>2. RawEnd(ss[i]) \in Int /\ RawEnd(ss[j]) \in Int /\ ss[i].raw \in Int /\ ss[j].raw \in Int
        BY <1>1
      <4> QED BY <4>1, <4>2, <2>1, <1>2
    <3> QED BY <3>1
  <2>3. ~(j < i)
    <3>1. ASSUME j < i PROVE FALSE
      <4>1. RawEnd(ss[j]) <= ss[i].raw
        BY <3>1 DEF Ordered
      <4>2. RawEnd(ss[i]) \in Int /\ RawEnd(ss[j]) \in Int /\ ss[i].raw \in Int /\ ss[j].raw \in Int
        BY <1>1
      <4> QED BY <4>1, <4>2, <2>1, <1>2
    <3> QED BY <3>1
  <2> QED BY <2>2, <2>3
<1>5. over = {i}
  BY <1>1, <1>3, <1>4
<1>6. Max(over) = i /\ over # {}
  BY <1>5, OneIsGreatest
<1>7. Written(ss, o) = IF over = {} THEN 0
                       ELSE LET s == ss[Max(over)]
                            IN IF s.kind = "made" THEN Payload(s.name)
                               ELSE DumpBuf(s.va + o - s.raw)
  BY DEF Written
<1> HIDE DEF over
<1>8. Written(ss, o) = IF ss[i].kind = "made" THEN Payload(ss[i].name)
                       ELSE DumpBuf(ss[i].va + o - ss[i].raw)
  BY <1>6, <1>7
<1>9. ss[i].va + o - ss[i].raw = ss[i].va + k
  BY <1>1, <1>2
<1> QED
  BY <1>2, <1>8, <1>9 DEF Held, IsMade

\* Whatever overlaps, it is no less than what stands for a hint
LEMMA WrittenLow ==
    ASSUME LiveImage, NEW ss, IsTable(ss), MadeAreNamed(ss), NEW o \in Int
    PROVE  Written(ss, o) \in Int /\ -1 <= Written(ss, o)
<1> DEFINE over == {j \in DOMAIN ss : o \in FileRange(ss[j])}
<1>1. /\ DOMAIN ss = 1 .. Len(ss) /\ Len(ss) \in Nat
      /\ \A j \in 1 .. Len(ss) : ss[j].raw \in Int /\ ss[j].va \in Nat
  BY TableIs, SectionIs
<1>2. Written(ss, o) = IF over = {} THEN 0
                       ELSE LET s == ss[Max(over)]
                            IN IF s.kind = "made" THEN Payload(s.name)
                               ELSE DumpBuf(s.va + o - s.raw)
  BY DEF Written
<1>3. over \in SUBSET Int /\ over \subseteq 1 .. Len(ss) /\ \A j \in over : j <= Len(ss)
  BY <1>1
<1> HIDE DEF over
<1>4. CASE over = {}
  BY <1>2, <1>4
<1>5. CASE over # {}
  <2>1. Max(over) \in over
    <3>1. Len(ss) \in Int
      BY <1>1
    <3> QED BY <3>1, <1>3, <1>5, MaxOf
  <2>2. PICK j \in 1 .. Len(ss) : j = Max(over)
    BY <2>1, <1>3
  <2>3. Written(ss, o) = IF ss[j].kind = "made" THEN Payload(ss[j].name)
                         ELSE DumpBuf(ss[j].va + o - ss[j].raw)
    BY <2>2, <1>2, <1>5
  <2>4. CASE ss[j].kind = "made"
    <3>1. Payload(ss[j].name) \in {1, 2, 3}
      BY <2>4, PayloadIs DEF MadeAreNamed
    <3> QED BY <3>1, <2>3, <2>4
  <2>5. CASE ss[j].kind # "made"
    <3>1. PICK a \in Int : a = ss[j].va + o - ss[j].raw
      BY <1>1
    <3>2. DumpBuf(a) = 0 \/ DumpBuf(a) = -1 \/ (DumpBuf(a) = a /\ 0 <= a)
      BY BufferHolds
    <3> QED BY <3>1, <3>2, <2>3, <2>5
  <2> QED BY <2>4, <2>5
<1> QED
  BY <1>4, <1>5

\* On x64 no unit of the code is a pointer, whatever was written over it
LEMMA CodeHasNone ==
    ASSUME LiveImage, input.arch = "x64", NEW ss, IsTable(ss), MadeAreNamed(ss), LiveApart(ss),
           ss[1].va = SA, ss[1].rsize <= SA - 1, NEW o \in FileRange(ss[1])
    PROVE  Written(ss, o) \notin Pointers
<1> DEFINE over == {j \in DOMAIN ss : o \in FileRange(ss[j])}
<1>1. /\ DOMAIN ss = 1 .. Len(ss) /\ Len(ss) \in Nat \ {0} /\ 1 \in 1 .. Len(ss)
      /\ \A j \in 1 .. Len(ss) : /\ ss[j].raw \in Int /\ ss[j].rsize \in Nat
                                 /\ RawEnd(ss[j]) = ss[j].raw + ss[j].rsize
      /\ SA \in Nat
  BY TableIs, SectionIs, SectionsOfFiles DEF RawEnd
<1>2. Written(ss, o) = IF over = {} THEN 0
                       ELSE LET s == ss[Max(over)]
                            IN IF s.kind = "made" THEN Payload(s.name)
                               ELSE DumpBuf(s.va + o - s.raw)
  BY DEF Written
<1>3. /\ over \in SUBSET Int /\ over \subseteq 1 .. Len(ss) /\ 1 \in over
      /\ \A j \in over : j <= Len(ss) /\ o \in FileRange(ss[j])
  BY <1>1
<1>4. o \in Int /\ ss[1].raw <= o /\ o < RawEnd(ss[1])
  BY <1>1 DEF FileRange
<1> HIDE DEF over
<1>5. Max(over) \in over
  <2>1. Len(ss) \in Int /\ over # {}
    BY <1>1, <1>3
  <2> QED BY <2>1, <1>3, MaxOf
<1>6. PICK j \in 1 .. Len(ss) : j = Max(over) /\ o \in FileRange(ss[j])
  BY <1>5, <1>3
<1>7. Written(ss, o) = IF ss[j].kind = "made" THEN Payload(ss[j].name)
                       ELSE DumpBuf(ss[j].va + o - ss[j].raw)
  BY <1>6, <1>2, <1>3
<1>8. \A p \in Pointers : p \in Nat /\ 3 < p /\ SA + SA - 1 <= p
  BY PointersAre
<1>9. CASE ss[j].kind = "made"
  <2>1. Payload(ss[j].name) \in {1, 2, 3}
    BY <1>9, PayloadIs DEF MadeAreNamed
  <2> QED BY <2>1, <1>7, <1>8, <1>9
<1>10. CASE ss[j].kind # "made"
  <2>1. j = 1
    <3>1. ASSUME j # 1 PROVE FALSE
      <4>1. RawEnd(ss[1]) <= ss[j].raw
        BY <3>1, <1>1, <1>10 DEF LiveApart, IsMade
      <4>2. ss[j].raw <= o
        BY <1>1, <1>6 DEF FileRange
      <4> QED BY <4>1, <4>2, <1>1, <1>4
    <3> QED BY <3>1
  <2>2. PICK a \in Int : a = SA + o - ss[1].raw
    BY <1>1, <1>4
  <2>3. Written(ss, o) = DumpBuf(a) /\ a < SA + SA - 1
    BY <2>1, <2>2, <1>1, <1>4, <1>7, <1>10
  <2>4. DumpBuf(a) = 0 \/ DumpBuf(a) = -1 \/ DumpBuf(a) = a
    BY BufferHolds
  <2> QED BY <2>3, <2>4, <1>1, <1>8
<1> QED
  BY <1>9, <1>10

\* The slots of the import table, in the file
LEMMA SlotIs ==
    ASSUME NEW ss, IsTable(ss), Follows(ss), NEW i \in 1 .. Len(ss),
           NEW rva \in Int, ss[i].va <= rva, rva < End(ss[i])
    PROVE  FileOffset(ss, rva) = ss[i].raw + rva - ss[i].va
<1> DEFINE holding == {s \in ToSet(ss) : rva >= s.va /\ rva < End(s)}
<1>1. \A j \in 1 .. Len(ss) : ss[j].va \in Nat /\ End(ss[j]) \in Nat
  BY TableIs, SectionIs
<1>2. ASSUME NEW s \in holding PROVE s = ss[i]
  <2>1. PICK j \in 1 .. Len(ss) : s = ss[j]
    BY TableIs
  <2>2. ss[j].va <= rva /\ rva < End(ss[j])
    BY <2>1, <1>1
  <2>3. ~(i < j)
    <3>1. ASSUME i < j PROVE FALSE
      <4>1. End(ss[i]) <= ss[j].va
        BY <3>1, PlaceOf
      <4> QED BY <4>1, <2>2, <1>1
    <3> QED BY <3>1
  <2>4. ~(j < i)
    <3>1. ASSUME j < i PROVE FALSE
      <4>1. End(ss[j]) <= ss[i].va
        BY <3>1, PlaceOf
      <4> QED BY <4>1, <2>2, <1>1
    <3> QED BY <3>1
  <2> QED BY <2>1, <2>3, <2>4
<1>3. ss[i] \in holding
  <2>1. ss[i] \in ToSet(ss)
    BY TableIs
  <2> QED BY <2>1, <1>1
<1>4. FileOffset(ss, rva) = IF holding = {} THEN rva
                            ELSE LET s == CHOOSE s \in holding : TRUE IN s.raw + rva - s.va
  BY DEF FileOffset
<1> HIDE DEF holding
<1>5. (CHOOSE s \in holding : TRUE) = ss[i] /\ holding # {}
  BY <1>2, <1>3
<1> QED
  BY <1>4, <1>5

\* What the layout, its room and the image give once the file is written
Known(ss) ==
    /\ IsTable(ss) /\ Follows(ss) /\ MadeAreNamed(ss) /\ ss[1].kind = "code"
    /\ LiveFirst(ss) /\ Placed(ss) /\ Buffered(ss) /\ Within(ss) /\ LiveApart(ss)
    /\ Well(ss) => Ordered(ss)
    /\ Judged(ss) => \A i \in 1 .. Len(ss) : NothingCut(ss[i])
    /\ \A i \in 1 .. Len(ss) : 0 <= ss[i].raw
    /\ dumped \in Nat

LEMMA KnownNow ==
    ASSUME LayoutInv, RoomInv, ImageInv, pc \in Filed
    PROVE  Known(secs) /\ LiveImage /\ Inputs /\ (hinted <=> input.import > 0)
<1>1. pc \notin Early \union {"pdata", "reloc", "import"} /\ pc \in {"write"} \union Filed
  BY DEF Early, Filed
<1>2. /\ IsTable(secs) /\ Follows(secs) /\ MadeAreNamed(secs) /\ secs[1].kind = "code"
      /\ dumped \in Nat
  BY DEF LayoutInv, Flags
<1>3. /\ LiveFirst(secs) /\ (Well(secs) => Ordered(secs))
      /\ \A i \in 1 .. Len(secs) : 0 <= secs[i].raw
  BY <1>1 DEF RoomInv
<1> QED
  BY <1>1, <1>2, <1>3 DEF Known, ImageInv

LEMMA KnownNext ==
    ASSUME LayoutInv', RoomInv', ImageInv', pc' \in Filed,
           UNCHANGED <<input, live, dumped, hinted>>, NEW ss, ss = secs'
    PROVE  Known(ss)
<1>1. pc' \notin Early \union {"pdata", "reloc", "import"} /\ pc' \in {"write"} \union Filed
  BY DEF Early, Filed
<1>2. IsTable(ss) /\ Follows(ss) /\ MadeAreNamed(ss) /\ ss[1].kind = "code"
      /\ dumped \in Nat
  BY DEF LayoutInv, Flags
<1>3. /\ LiveFirst(secs)' /\ (Well(secs) => Ordered(secs))'
      /\ \A i \in 1 .. Len(ss) : 0 <= ss[i].raw
  BY <1>1 DEF RoomInv
<1>4. LiveFirst(ss) /\ (Well(ss) => Ordered(ss))
  BY <1>3 DEF LiveFirst, Well, Ordered, Trimmed, Zeroed, Loose, IsMade
<1>5. /\ Placed(secs)' /\ Buffered(secs)' /\ Within(secs)' /\ LiveApart(secs)'
      /\ (Judged(secs) => \A i \in 1 .. Len(secs) : NothingCut(secs[i]))'
  BY <1>1 DEF ImageInv
<1>6. Placed(ss)
  BY <1>5 DEF Placed, CodeFirst, InPlace, SameSection, IsMade
<1>7. Buffered(ss) /\ Within(ss) /\ LiveApart(ss)
  BY <1>5 DEF Buffered, Within, LiveApart, End, RawEnd, IsMade
<1>8. Judged(ss) => \A i \in 1 .. Len(ss) : NothingCut(ss[i])
  BY <1>5 DEF Judged, MisjudgedIn, Trimmed, Zeroed, IsMade, NothingCut, DumpBuf, Live, End
<1> QED
  BY <1>2, <1>3, <1>4, <1>6, <1>7, <1>8 DEF Known

WellCutIn(ss) == ShellLast /\ Well(ss) /\ Judged(ss)

LEMMA WellCutNext ==
    ASSUME UNCHANGED <<input, live>>, NEW ss, ss = secs'
    PROVE  WellCut' <=> WellCutIn(ss)
BY DEF WellCut, WellCutIn, Well, Judged, MisjudgedIn, Trimmed, Zeroed, Loose, IsMade

\* What is known of the file that is written is known of the next state
LEMMA ReachesNext ==
    ASSUME UNCHANGED <<input, live, dumped, hinted>>, NEW ss, ss = secs', NEW f, f = file'
    PROVE  /\ Reaches(ss, f) => Reaches(secs, file)'
           /\ InFile(ss, f) => InFile(secs, file)'
           /\ NoneRebased(ss, f) => NoneRebased(secs, file)'
           /\ base' = base /\ OneBase(ss, f) => OneBase(secs, file)'
           /\ table' = table /\ TableHasAll(ss, f) => TableHasAll(secs, file)'
<1>1. Reaches(ss, f) => Reaches(secs, file)'
  BY DEF Reaches, Held, Stands, DumpBuf, Live, IsMade
<1>2. Pointers' = Pointers /\ Rebased' = Rebased
  BY DEF Pointers, Rebased, Kept
<1>3. InFile(ss, f) => InFile(secs, file)'
  BY DEF InFile, FileRange, RawEnd
<1>4. NoneRebased(ss, f) => NoneRebased(secs, file)'
  BY <1>2 DEF NoneRebased, FileRange, RawEnd
<1>5. base' = base /\ OneBase(ss, f) => OneBase(secs, file)'
  BY <1>2 DEF OneBase, FileRange, RawEnd, IsMade
<1>6. table' = table /\ TableHasAll(ss, f) => TableHasAll(secs, file)'
  BY <1>2 DEF TableHasAll, FileRange, RawEnd, IsMade
<1> QED
  BY <1>1, <1>3, <1>4, <1>5, <1>6

\* The section that holds the program's import table
TableAt(ss, i) ==
    /\ i \in 1 .. Len(ss) /\ ~IsMade(ss[i]) /\ ss[i].kind = "data"
    /\ ss[i].at = ss[i].va /\ input.iat = ss[i].va + 1 /\ input.iat < End(ss[i])
    /\ DumpBuf(input.iat) = Hint /\ 1 < ss[i].rsize

LEMMA TableStands ==
    ASSUME LiveImage, Inputs, NEW ss, Known(ss), ShellLast, Judged(ss),
           input.import > 0, hinted
    PROVE  \E i \in 1 .. Len(ss) : TableAt(ss, i)
<1>1. PICK i \in 1 .. Len(live) : TableInData(i)
  BY DEF Inputs
<1>2. /\ live[i].kind = "data" /\ live[i].size > 1 /\ input.iat = live[i].va + 1
      /\ live[i].at = live[i].va
  BY <1>1 DEF TableInData, LiveImage
<1>3. InPlace(ss) /\ IsTable(ss) /\ Buffered(ss)
  BY DEF Known, Placed
<1>4. i \in 1 .. Len(ss) /\ ~IsMade(ss[i]) /\ SameSection(ss[i], live[i])
  <2>1. i <= Len(ss) /\ ~IsMade(ss[i])
    BY <1>2, <1>3 DEF InPlace
  <2>2. i \in 1 .. Len(ss)
    BY <2>1, <1>3, TableIs
  <2> QED BY <2>1, <2>2, <1>3 DEF InPlace
<1>5. /\ ss[i].kind = "data" /\ ss[i].at = ss[i].va /\ input.iat = ss[i].va + 1
      /\ ss[i].size > 1
  BY <1>2, <1>4 DEF SameSection
<1>6. ss[i].va \in Nat /\ ss[i].size \in Nat /\ ss[i].rsize \in Nat
  BY <1>3, <1>4, TableIs, SectionIs
<1>7. input.iat \in ss[i].va .. End(ss[i]) - 1 /\ input.iat < End(ss[i])
  BY <1>5, <1>6 DEF End
<1>8. DumpBuf(input.iat) = Hint
  <2>1. End(ss[i]) <= dumped
    BY <1>3, <1>4 DEF Buffered
  <2>2. ~(input.iat >= dumped)
    <3>1. dumped \in Nat
      BY DEF Known
    <3> QED BY <3>1, <2>1, <1>5, <1>6, <1>7 DEF End
  <2> QED BY <2>2 DEF DumpBuf
<1>9. 1 < ss[i].rsize
  <2>1. NothingCut(ss[i]) /\ ~Zeroed(ss[i])
    BY <1>4, <1>5 DEF Known, Zeroed
  <2>2. DumpBuf(input.iat) # 0
    BY <1>8 DEF Hint
  <2>3. input.iat < ss[i].va + ss[i].rsize
    BY <2>1, <2>2, <1>4, <1>7 DEF NothingCut
  <2> QED BY <2>3, <1>5, <1>6
<1> QED
  BY <1>4, <1>5, <1>7, <1>8, <1>9 DEF TableAt

LEMMA ContentInit ==
    ASSUME Init
    PROVE  ContentInv
<1>1. pc = "patch" /\ table = {}
  BY DEF Init
<1> QED
  BY <1>1 DEF ContentInv, Filed

\* Before there is a file
LEMMA ContentEarly ==
    ASSUME ContentInv, pc \notin Filed, pc' \notin Filed, table' = table
    PROVE  ContentInv'
<1>1. table = {}
  BY DEF ContentInv, Filed
<1> QED
  BY <1>1 DEF ContentInv, Filed

\* What write_output_file puts into the file
LEMMA WriteReaches ==
    ASSUME LiveImage, Inputs, NEW ss, Known(ss), WellCutIn(ss), hinted <=> input.import > 0,
           NEW f, \A i \in 1 .. Len(ss) : \A o \in FileRange(ss[i]) : f[o] = Filled(ss, o)
    PROVE  Reaches(ss, f)
<1>1. IsTable(ss) /\ Follows(ss) /\ Ordered(ss) /\ ShellLast /\ Judged(ss)
  BY DEF Known, WellCutIn
<1> SUFFICES ASSUME NEW i \in 1 .. Len(ss), NEW k \in 0 .. ss[i].rsize - 1
             PROVE  f[ss[i].raw + k] = Held(ss[i], k)
  BY DEF Reaches, Stands
<1>2. PICK o : o = ss[i].raw + k
  OBVIOUS
<1>3. f[o] = Filled(ss, o)
  <2>1. o \in FileRange(ss[i])
    BY <1>1, <1>2, TableIs, InRange
  <2> QED BY <2>1
<1>4. Written(ss, o) = Held(ss[i], k)
  BY <1>1, <1>2, WrittenOnce
<1>5. CASE ~(input.import > 0 /\ o = FileOffset(ss, input.iat))
  BY <1>2, <1>3, <1>4, <1>5 DEF Filled
<1>6. CASE input.import > 0 /\ o = FileOffset(ss, input.iat)
  <2>1. PICK j \in 1 .. Len(ss) : TableAt(ss, j)
    BY <1>1, <1>6, TableStands
  <2>2. /\ ~IsMade(ss[j]) /\ input.iat = ss[j].va + 1 /\ input.iat < End(ss[j])
        /\ DumpBuf(input.iat) = Hint /\ 1 < ss[j].rsize
    BY <2>1 DEF TableAt
  <2>3. ss[j].va \in Nat /\ ss[j].raw \in Int /\ ss[j].rsize \in Nat
    BY <1>1, TableIs, SectionIs
  <2>4. o = ss[j].raw + 1
    <3>1. input.iat \in Int /\ ss[j].va <= input.iat
      BY <2>2, <2>3
    <3>2. FileOffset(ss, input.iat) = ss[j].raw + input.iat - ss[j].va
      BY <1>1, <2>2, <3>1, SlotIs
    <3> QED BY <1>6, <2>2, <2>3, <3>2
  <2>5. 1 \in 0 .. ss[j].rsize - 1
    BY <2>2, <2>3
  <2>6. Written(ss, o) = Held(ss[j], 1)
    BY <1>1, <2>4, <2>5, WrittenOnce
  <2>7. Held(ss[j], 1) = Hint
    BY <2>2 DEF Held
  <2> QED BY <1>2, <1>3, <1>4, <1>6, <2>6, <2>7 DEF Filled
<1> QED
  BY <1>5, <1>6

LEMMA WriteRebasesNone ==
    ASSUME LiveImage, input.arch = "x64", NEW ss, Known(ss),
           NEW f, \A o \in DOMAIN f : o \in Int /\ f[o] = Filled(ss, o), InFile(ss, f)
    PROVE  NoneRebased(ss, f)
<1>1. /\ IsTable(ss) /\ Follows(ss) /\ MadeAreNamed(ss) /\ ss[1].kind = "code"
      /\ LiveApart(ss) /\ CodeFirst(ss) /\ Within(ss)
      /\ 1 \in 1 .. Len(ss)
  BY TableIs DEF Known, Placed
<1>2. /\ \A p \in Pointers : p \in Nat /\ 3 < p
      /\ \A q \in Rebased : q \in Int /\ q < -3
  BY PointersAre
<1>3. ASSUME NEW o \in DOMAIN f PROVE f[o] \notin Rebased
  <2>1. o \in Int /\ f[o] = Filled(ss, o)
    OBVIOUS
  <2>2. Written(ss, o) \in Int /\ -1 <= Written(ss, o)
    BY <1>1, <2>1, WrittenLow
  <2>3. f[o] \in Int /\ -1 <= f[o]
    BY <2>1, <2>2 DEF Filled, Hint
  <2> QED BY <2>3, <1>2
<1>4. ASSUME NEW o \in FileRange(ss[1]) PROVE f[o] \notin Pointers
  <2>1. o \in DOMAIN f
    BY <1>1 DEF InFile
  <2>2. Written(ss, o) \notin Pointers
    <3>1. ss[1].va = SA /\ ss[1].size = SA - 1
      BY <1>1 DEF Follows, CodeFirst
    <3>2. ~IsMade(ss[1])
      BY <1>1 DEF IsMade
    <3>3. ss[1].rsize <= SA - 1
      BY <3>1, <3>2, <1>1 DEF Within
    <3> QED BY <3>1, <3>3, <1>1, CodeHasNone
  <2>3. Hint \notin Pointers
    BY <1>2 DEF Hint
  <2> QED BY <2>1, <2>2, <2>3 DEF Filled
<1> QED
  BY <1>3, <1>4 DEF NoneRebased

LEMMA ContentWrite ==
    ASSUME LayoutInv, LayoutInv', RoomInv', ImageInv, ImageInv', ContentInv, WriteOutput
    PROVE  ContentInv'
<1>1. /\ pc = "write" /\ pc' = "fix" /\ dynamic' = FALSE
      /\ UNCHANGED <<input, live, soi, base, dumped, hinted, table>>
      /\ file' = [o \in 0 .. FileEnd(secs') - 1 |-> Filled(secs', o)]
  BY WriteIs
<1>2. PICK ss : ss = secs'
  OBVIOUS
<1>3. PICK f : f = file'
  OBVIOUS
<1>4. Known(ss)
  BY <1>1, <1>2, KnownNext DEF Filed
<1>5. LiveImage /\ Inputs /\ (hinted <=> input.import > 0)
  BY <1>1 DEF ImageInv, Early
<1>6. PICK e \in Int : e = FileEnd(ss) /\ \A i \in 1 .. Len(ss) : RawEnd(ss[i]) <= e
  BY <1>4, FileEndIs DEF Known
<1>7. DOMAIN f = 0 .. e - 1 /\ \A o \in DOMAIN f : f[o] = Filled(ss, o)
  BY <1>1, <1>2, <1>3, <1>6
<1>8. InFile(ss, f)
  <2>1. ASSUME NEW i \in 1 .. Len(ss), NEW o \in FileRange(ss[i]) PROVE o \in 0 .. e - 1
    <3>1. ss[i] \in Section
      BY <1>4, TableIs DEF Known
    <3>2. o \in Int /\ ss[i].raw <= o /\ o < RawEnd(ss[i]) /\ RawEnd(ss[i]) \in Int
      BY <3>1, InRange
    <3>3. 0 <= ss[i].raw /\ RawEnd(ss[i]) <= e /\ ss[i].raw \in Int
      BY <1>4, <1>6, <3>1, SectionIs DEF Known
    <3> QED BY <3>2, <3>3
  <2> QED BY <2>1, <1>7 DEF InFile
<1>9. WellCutIn(ss) => Reaches(ss, f)
  <2>1. \A i \in 1 .. Len(ss) : \A o \in FileRange(ss[i]) : f[o] = Filled(ss, o)
    BY <1>7, <1>8 DEF InFile
  <2> QED BY <2>1, <1>4, <1>5, WriteReaches
<1>10. input.arch = "x64" => NoneRebased(ss, f)
  <2>1. \A o \in DOMAIN f : o \in Int /\ f[o] = Filled(ss, o)
    BY <1>7
  <2> QED BY <2>1, <1>4, <1>5, <1>8, WriteRebasesNone
<1>11. InFile(secs, file)' /\ (WellCut => Reaches(secs, file))'
  BY <1>1, <1>2, <1>3, <1>8, <1>9, ReachesNext, WellCutNext
<1>12. (input.arch = "x64" => NoneRebased(secs, file))'
  BY <1>1, <1>2, <1>3, <1>10, ReachesNext
<1>13. table' = {}
  BY <1>1 DEF ContentInv
<1> QED
  BY <1>1, <1>11, <1>12, <1>13 DEF ContentInv

LEMMA ImageFix ==
    ASSUME LayoutInv, ImageInv, FixAddresses
    PROVE  ImageInv'
<1>1. /\ pc = "fix" /\ pc' = AfterWriting
      /\ UNCHANGED <<input, live, secs, dumped, hinted>>
  BY FixIs
<1>2. pc' \in Filed
  BY <1>1 DEF AfterWriting, Filed
<1>3. IsTable(secs) /\ LiveApart(secs)
  BY <1>1, LayoutIsSound DEF Sound, ImageInv, Filed
<1>4. LiveKept(secs, secs)
  BY <1>3, SelfStays DEF LiveStays
<1> QED
  BY <1>1, <1>2, <1>3, <1>4, ImageFiled DEF Filed

LEMMA ImageSave ==
    ASSUME LayoutInv, ImageInv, Save
    PROVE  ImageInv'
<1>1. /\ pc = "save" /\ pc' = "done"
      /\ UNCHANGED <<input, live, secs, dumped, hinted>>
  BY DEF Save, Step
<1>2. IsTable(secs) /\ LiveApart(secs)
  BY <1>1, LayoutIsSound DEF Sound, ImageInv, Filed
<1>3. LiveKept(secs, secs)
  BY <1>2, SelfStays DEF LiveStays
<1> QED
  BY <1>1, <1>2, <1>3, ImageFiled DEF Filed

LEMMA ContentSave ==
    ASSUME ContentInv, Save
    PROVE  ContentInv'
<1>1. /\ pc = "save" /\ pc' = "done"
      /\ UNCHANGED <<input, live, secs, soi, base, dynamic, dumped, hinted, file, table>>
  BY DEF Save, Step
<1>2. PICK ss, f : ss = secs' /\ f = file'
  OBVIOUS
<1>3. /\ InFile(ss, f) /\ (WellCut => Reaches(ss, f))
      /\ input.arch = "x64" => OneBase(ss, f)
      /\ input.arch = "x64" /\ dynamic => TableHasAll(ss, f)
      /\ WellCut /\ input.import > 0 => input.iat \notin table
  BY <1>1, <1>2 DEF ContentInv, Filed
<1>4. WellCut' <=> WellCut
  BY <1>1 DEF WellCut, Well, Judged, MisjudgedIn, Trimmed, Zeroed, Loose, IsMade
<1>5. /\ Reaches(ss, f) => Reaches(secs, file)'
      /\ InFile(ss, f) => InFile(secs, file)'
      /\ OneBase(ss, f) => OneBase(secs, file)'
      /\ TableHasAll(ss, f) => TableHasAll(secs, file)'
  BY <1>1, <1>2, ReachesNext
<1> QED
  BY <1>1, <1>3, <1>4, <1>5 DEF ContentInv, Filed

\* The units fix_hardcoded_addresses rebases
Rebases(o) ==
    /\ base = "file" /\ input.arch = "x64" /\ file[o] \in Pointers
    /\ \E s \in ToSet(secs) : Scanned(s) /\ o \in FileRange(s)

LEMMA FixRebases ==
    ASSUME FixAddresses
    PROVE  file' = [o \in DOMAIN file |-> IF Rebases(o) THEN -file[o] ELSE file[o]]
BY Zenon DEF FixAddresses, Rebases

LEMMA HeldIs ==
    ASSUME NEW s \in Section, IsMade(s) => s.name \in Made, NEW k \in Int
    PROVE  Held(s, k) \in Int
<1>1. CASE IsMade(s)
  <2>1. Payload(s.name) \in {1, 2, 3}
    BY <1>1, PayloadIs
  <2> QED BY <1>1, <2>1 DEF Held
<1>2. CASE ~IsMade(s)
  <2>1. s.va + k \in Int
    BY SectionIs
  <2> QED BY <1>2, <2>1, DumpBufIs DEF Held
<1> QED
  BY <1>1, <1>2

LEMMA ContentFix ==
    ASSUME LayoutInv, RoomInv, ImageInv, ContentInv, FixAddresses
    PROVE  ContentInv'
<1>1. /\ pc = "fix" /\ pc' \in {"pack", "save"}
      /\ UNCHANGED <<input, live, secs, soi, base, dynamic, dumped, hinted, table>>
  BY FixIs DEF AfterWriting
<1>2. PICK ss, f : ss = secs' /\ f = file'
  OBVIOUS
<1>3. DOMAIN f = DOMAIN file /\ \A o \in DOMAIN file : f[o] = IF Rebases(o) THEN -file[o] ELSE file[o]
  BY <1>2, FixRebases
<1>4. Known(secs) /\ LiveImage
  BY <1>1, KnownNow DEF Filed
<1>5. /\ IsTable(secs) /\ MadeAreNamed(secs) /\ CodeFirst(secs)
      /\ \A i \in 1 .. Len(secs) : secs[i] \in Section /\ secs[i] \in ToSet(secs)
  <2>1. IsTable(secs) /\ MadeAreNamed(secs) /\ CodeFirst(secs)
    BY <1>4 DEF Known, Placed
  <2> QED BY <2>1, TableIs
<1>6. /\ \A p \in Pointers : p \in Nat /\ SA <= p /\ 3 < p
      /\ \A q \in Rebased : q \in Int /\ q < -3
  BY <1>4, PointersAre
<1>7. /\ InFile(secs, file) /\ (WellCut => Reaches(secs, file))
      /\ input.arch = "x64" => NoneRebased(secs, file)
      /\ ~dynamic /\ table = {}
  BY <1>1 DEF ContentInv, Filed
<1>8. InFile(secs, f)
  BY <1>3, <1>7 DEF InFile
<1>9. ASSUME Reaches(secs, file) PROVE Reaches(secs, f)
  <2> SUFFICES ASSUME NEW i \in 1 .. Len(secs), NEW k \in 0 .. secs[i].rsize - 1
               PROVE  Stands(f[secs[i].raw + k], Held(secs[i], k))
    BY DEF Reaches
  <2>1. PICK o, h : o = secs[i].raw + k /\ h = Held(secs[i], k)
    OBVIOUS
  <2>2. h \in Int
    <3>1. secs[i] \in Section /\ (IsMade(secs[i]) => secs[i].name \in Made) /\ k \in Int
      BY <1>5 DEF MadeAreNamed, IsMade
    <3> QED BY <2>1, <3>1, HeldIs
  <2>3. o \in DOMAIN file
    <3>1. o \in FileRange(secs[i])
      BY <2>1, <1>5, InRange
    <3> QED BY <3>1, <1>7 DEF InFile
  <2>4. Stands(file[o], h)
    BY <2>1, <1>9 DEF Reaches
  <2>5. CASE ~Rebases(o)
    BY <2>1, <2>3, <2>4, <2>5, <1>3
  <2>6. CASE Rebases(o)
    <3>1. file[o] \in Nat /\ SA <= file[o] /\ 3 < file[o] /\ f[o] = -file[o]
      BY <2>3, <2>6, <1>3, <1>6 DEF Rebases
    <3>2. SA \in Nat
      BY DumpAssumption
    <3>3. file[o] = h
      BY <3>1, <3>2, <2>2, <2>4 DEF Stands
    <3> QED BY <2>1, <3>1, <3>3 DEF Stands
  <2> QED BY <2>5, <2>6
<1>10. ASSUME input.arch = "x64" PROVE OneBase(secs, f)
  <2> SUFFICES ASSUME NEW i \in 1 .. Len(secs), ~IsMade(secs[i]), NEW o \in FileRange(secs[i])
               PROVE  /\ secs[i].kind = "code" \/ base = "file" => f[o] \notin Pointers
                      /\ secs[i].kind = "code" \/ base # "file" => f[o] \notin Rebased
    BY DEF OneBase
  <2>1. o \in DOMAIN file /\ file[o] \notin Rebased
    BY <1>7, <1>10 DEF InFile, NoneRebased
  <2>2. f[o] = IF Rebases(o) THEN -file[o] ELSE file[o]
    BY <2>1, <1>3
  <2>3. CASE secs[i].kind = "code"
    <3>1. i = 1
      <4>1. i # 1 => i \in 2 .. Len(secs)
        OBVIOUS
      <4> QED BY <4>1, <2>3, <1>5 DEF CodeFirst
    <3>2. file[o] \notin Pointers
      BY <3>1, <1>7, <1>10 DEF NoneRebased
    <3> QED BY <2>1, <2>2, <3>2 DEF Rebases
  <2>4. CASE secs[i].kind # "code" /\ base = "file"
    <3>1. Scanned(secs[i])
      BY <2>4, <1>7 DEF Scanned, InFile
    <3>2. file[o] \in Pointers => Rebases(o)
      BY <3>1, <2>4, <1>5, <1>10 DEF Rebases
    <3>3. CASE Rebases(o)
      <4>1. file[o] \in Nat /\ 3 < file[o] /\ f[o] = -file[o]
        BY <3>3, <2>2, <1>6 DEF Rebases
      <4>2. f[o] \notin Pointers
        BY <4>1, <1>6
      <4> QED BY <4>2, <2>4
    <3>4. CASE ~Rebases(o)
      BY <3>2, <3>4, <2>2, <2>4
    <3> QED BY <3>3, <3>4
  <2>5. CASE secs[i].kind # "code" /\ base # "file"
    BY <2>1, <2>2, <2>5 DEF Rebases
  <2> QED BY <2>3, <2>4, <2>5
<1>11. ss = secs
  BY <1>1, <1>2
<1>12. WellCut' <=> WellCut
  BY <1>1 DEF WellCut, Well, Judged, MisjudgedIn, Trimmed, Zeroed, Loose, IsMade
<1>13. /\ Reaches(ss, f) => Reaches(secs, file)'
       /\ InFile(ss, f) => InFile(secs, file)'
       /\ OneBase(ss, f) => OneBase(secs, file)'
  BY <1>1, <1>2, ReachesNext
<1>14. InFile(secs, file)' /\ (WellCut => Reaches(secs, file))'
  BY <1>7, <1>8, <1>9, <1>11, <1>12, <1>13
<1>15. (input.arch = "x64" => OneBase(secs, file))'
  BY <1>1, <1>10, <1>11, <1>13
<1>16. table' = {} /\ ~dynamic'
  BY <1>1, <1>7
<1> QED
  BY <1>1, <1>14, <1>15, <1>16 DEF ContentInv

----------------------------------------------------------------------------
(* Packing moves the units with their sections *)

LEMMA NotMovedFile ==
    ASSUME NEW x \in Packings, NEW i \in 1 .. Len(secs), ~Packs(x, i)
    PROVE  MovedDown(x, i).file = x.file
<1> DEFINE e == IF RawEnd(x.secs[i]) > x.end THEN RawEnd(x.secs[i]) ELSE x.end
<1>1. MovedDown(x, i) = [x EXCEPT !.end = e]
  BY Zenon DEF MovedDown, Packs, Passed
<1> HIDE DEF e
<1>2. PICK a, b, c : a = x.end /\ b = x.secs /\ c = x.file
  OBVIOUS
<1>3. x = [end |-> a, secs |-> b, file |-> c]
  BY <1>2, PackingIs
<1>4. [x EXCEPT !.end = e].file = c
  BY <1>3
<1> QED
  BY <1>1, <1>2, <1>4

LEMMA MovedFile ==
    ASSUME IsTable(secs), NEW x \in Packings, NEW i \in 1 .. Len(secs), Packs(x, i),
           NEW y, y = MovedDown(x, i), NEW length, length = FileLength(x, i)
    PROVE  \A o \in DOMAIN x.file :
              y.file[o] = IF o \in y.secs[i].raw .. y.secs[i].raw + length - 1
                          THEN x.file[x.secs[i].raw + o - y.secs[i].raw] ELSE x.file[o]
<1>1. /\ x.secs \in Seq(Section) /\ IsTable(x.secs) /\ Len(x.secs) = Len(secs)
  BY PackingIs
<1>2. PICK to : to = AlignUp(x.end, FA)
  OBVIOUS
<1> DEFINE out == [x.secs EXCEPT ![i].raw = to]
           f == [o \in DOMAIN x.file |->
                    IF o \in to .. to + length - 1
                    THEN x.file[x.secs[i].raw + o - to] ELSE x.file[o]]
<1>3. y = [end |-> to + length, secs |-> out, file |-> f]
  BY <1>2, Zenon DEF MovedDown, Packs, Moved
<1>4. y.secs = out /\ y.file = f
  <2> HIDE DEF out, f
  <2> QED BY <1>3
<1>5. out[i].raw = to
  <2>1. x.secs[i] \in Section /\ i \in DOMAIN x.secs
    BY <1>1, TableIs
  <2>2. out[i] = [x.secs[i] EXCEPT !.raw = to]
    BY <2>1, Zenon
  <2>3. [x.secs[i] EXCEPT !.raw = to].raw = to
    BY <2>1 DEF Section
  <2> QED BY <2>2, <2>3
<1> HIDE DEF out
<1> QED
  BY <1>4, <1>5

\* Sections that nothing before them reaches into
ApartIn(ss, M) ==
    \A i, j \in 1 .. Len(ss) : i < j /\ j \in M => RawEnd(ss[i]) <= ss[j].raw

\* After the first k sections, the units of these are where their sections are
Carried(x, k, M) ==
    /\ PackedSo(x, k)
    /\ ApartIn(x.secs, M)
    /\ \A i \in 1 .. Len(secs) :
          /\ x.secs[i].raw <= secs[i].raw
          /\ i \in M => \A u \in 0 .. secs[i].rsize - 1 :
                x.file[x.secs[i].raw + u] = file[secs[i].raw + u]

LEMMA CarriesNext ==
    ASSUME NEW M, NEW n, FileOf(n), \A i \in 1 .. Len(secs) : RawEnd(secs[i]) <= n,
           IsTable(secs), NEW k \in 0 .. Len(secs) - 1, NEW x, Carried(x, k, M),
           NEW i \in 1 .. Len(secs), i = k + 1, NEW y, y = MovedDown(x, i)
    PROVE  Carried(y, i, M)
<1> DEFINE N == Len(secs)
<1>1. /\ N \in Nat /\ x \in Packings /\ IsTable(x.secs) /\ Len(x.secs) = N /\ x.end \in Nat
      /\ DOMAIN x.file = DOMAIN file
      /\ \A j \in 1 .. N : x.secs[j].rsize = secs[j].rsize
  <2>1. x \in Packings
    BY DEF Carried, PackedSo
  <2> QED BY <2>1, TableIs, PackingIs
<1>2. /\ PackedSo(x, k) /\ x.secs[i] = secs[i]
      /\ \A j \in 1 .. N : k < j => x.secs[j] = secs[j]
  BY <1>1 DEF Carried, PackedSo
<1>3. PackedSo(y, i)
  BY <1>2, PacksNext
<1>4. \A j \in 1 .. N : /\ x.secs[j].raw \in Int /\ x.secs[j].rsize \in Nat
                        /\ RawEnd(x.secs[j]) = x.secs[j].raw + x.secs[j].rsize
                        /\ RawEnd(x.secs[j]) \in Int
                        /\ j <= k => RawEnd(x.secs[j]) <= x.end
                        /\ 0 <= x.secs[j].raw
  <2>1. \A j \in 1 .. N : x.secs[j] \in Section
    BY <1>1, TableIs
  <2>2. \A j \in 1 .. N : /\ x.secs[j].raw \in Int /\ x.secs[j].rsize \in Nat
                          /\ RawEnd(x.secs[j]) = x.secs[j].raw + x.secs[j].rsize
                          /\ RawEnd(x.secs[j]) \in Int
    BY <2>1, SectionIs DEF RawEnd
  <2>3. \A j \in 1 .. N : (j <= k => RawEnd(x.secs[j]) <= x.end) /\ 0 <= x.secs[j].raw
    BY <1>2 DEF PackedSo
  <2> QED BY <2>2, <2>3
<1>5. /\ ApartIn(x.secs, M)
      /\ \A j \in 1 .. N : x.secs[j].raw <= secs[j].raw
      /\ \A j \in 1 .. N : j \in M => \A u \in 0 .. secs[j].rsize - 1 :
            x.file[x.secs[j].raw + u] = file[secs[j].raw + u]
  BY DEF Carried
<1>6. CASE ~Packs(x, i)
  <2>1. y.secs = x.secs /\ y.file = x.file
    BY <1>1, <1>6, NotPacked, NotMovedFile
  <2> QED BY <2>1, <1>3, <1>5 DEF Carried
<1>7. CASE Packs(x, i)
  <2>1. /\ y \in Packings
        /\ \E to \in Nat :
              /\ x.end <= to /\ to <= x.secs[i].raw
              /\ y.secs[i].raw = to
        /\ \A j \in 1 .. N : j # i => y.secs[j] = x.secs[j]
    BY <1>1, <1>7, PackedDown
  <2>2. PICK to \in Nat : x.end <= to /\ to <= x.secs[i].raw /\ y.secs[i].raw = to
    BY <2>1
  <2>3. PICK p \in Int, q \in Nat : p = x.secs[i].raw /\ q = x.secs[i].rsize
    BY <1>4
  <2>4. RawEnd(x.secs[i]) = p + q /\ p + q <= n /\ to <= p /\ n \in Int
        /\ p = secs[i].raw /\ q = secs[i].rsize
    BY <2>2, <2>3, <1>2, <1>4 DEF FileOf
  <2>11. to <= p /\ p + q <= n /\ n \in Int
    BY <2>4
  <2>5. FileLength(x, i) = q
    <3>1. x.secs[i] \in Section
      BY <1>1, TableIs
    <3>2. RawEnd(x.secs[i]) <= n
      BY <2>4
    <3> QED BY <3>1, <3>2, <2>3, <1>1, <1>7, FileLengthIs
  <2>6. \A o \in DOMAIN file :
           y.file[o] = IF o \in to .. to + q - 1 THEN x.file[p + o - to] ELSE x.file[o]
    <3>1. x \in Packings
      BY <1>1
    <3>2. \A o \in DOMAIN x.file :
             y.file[o] = IF o \in y.secs[i].raw .. y.secs[i].raw + q - 1
                         THEN x.file[x.secs[i].raw + o - y.secs[i].raw] ELSE x.file[o]
      BY <3>1, <2>5, <1>7, MovedFile
    <3> QED BY <3>2, <2>2, <2>3, <1>1
  <2>7. /\ Len(y.secs) = N /\ y.secs[i].rsize = q
        /\ RawEnd(y.secs[i]) = to + q
    <3>1. Len(y.secs) = N /\ y.secs[i].rsize = secs[i].rsize
      BY <2>1, PackingIs
    <3>2. y.secs[i].rsize = q
      BY <3>1, <2>4
    <3> QED BY <3>1, <3>2, <2>2 DEF RawEnd
  <2>8. ASSUME NEW a \in 1 .. N, NEW b \in 1 .. N, a < b, b \in M
        PROVE  RawEnd(y.secs[a]) <= y.secs[b].raw
    <3>1. RawEnd(x.secs[a]) <= x.secs[b].raw
      BY <2>8, <1>1, <1>5 DEF ApartIn
    <3>2. CASE a # i /\ b # i
      BY <3>1, <3>2, <2>1
    <3>3. CASE b = i
      <4>1. a <= k /\ a # i
        BY <2>8, <3>3
      <4>2. RawEnd(x.secs[a]) <= x.end /\ RawEnd(x.secs[a]) \in Int
        BY <4>1, <1>4
      <4>3. y.secs[a] = x.secs[a] /\ y.secs[b].raw = to
        BY <4>1, <3>3, <2>1, <2>2
      <4>4. RawEnd(x.secs[a]) <= to
        BY <4>2, <2>2, <1>1
      <4> QED BY <4>3, <4>4
    <3>4. CASE a = i
      <4>1. y.secs[b] = x.secs[b] /\ RawEnd(y.secs[a]) = to + q
        BY <2>1, <2>7, <2>8, <3>4
      <4>2. p + q <= x.secs[b].raw /\ x.secs[b].raw \in Int
        BY <3>1, <3>4, <2>4, <1>4
      <4>3. to + q <= x.secs[b].raw
        BY <4>2, <2>11
      <4> QED BY <4>1, <4>3
    <3> QED BY <3>2, <3>3, <3>4
  <2>9. ASSUME NEW j \in 1 .. N PROVE y.secs[j].raw <= secs[j].raw
    <3>1. CASE j = i
      BY <3>1, <2>2, <2>4
    <3>2. CASE j # i
      BY <3>2, <2>1, <1>5
    <3> QED BY <3>1, <3>2
  <2>10. ASSUME NEW j \in 1 .. N, j \in M, NEW u \in 0 .. secs[j].rsize - 1
         PROVE  y.file[y.secs[j].raw + u] = file[secs[j].raw + u]
    <3>1. x.file[x.secs[j].raw + u] = file[secs[j].raw + u]
      BY <2>10, <1>5
    <3>2. DOMAIN file = 0 .. n - 1
      BY DEF FileOf
    <3>3. PICK r \in Int, z \in Nat : r = x.secs[j].raw /\ z = secs[j].rsize
      BY <1>1, <1>4
    <3>4. u \in 0 .. z - 1 /\ 0 <= r /\ r + z <= n
      <4>1. u \in 0 .. z - 1 /\ 0 <= r
        BY <3>3, <1>4
      <4>2. r <= secs[j].raw /\ RawEnd(secs[j]) <= n /\ RawEnd(secs[j]) = secs[j].raw + z
        BY <3>3, <1>5 DEF RawEnd
      <4>3. secs[j].raw \in Int
        BY TableIs, SectionIs
      <4> QED BY SMTT(60), <4>1, <4>2, <4>3, <2>4
    <3>5. CASE j = i
      <4>1. z = q /\ r = p
        BY <3>3, <3>5, <2>3, <2>4
      <4>2. PICK o \in Int : o = to + u
        OBVIOUS
      <4>3. o \in DOMAIN file /\ o \in to .. to + q - 1 /\ p + o - to = r + u
        <5>1. u \in 0 .. q - 1 /\ r = p /\ p + q <= n
          BY <4>1, <3>4
        <5>2. o \in 0 .. n - 1
          BY <5>1, <4>2, <2>11
        <5>3. o \in to .. to + q - 1 /\ p + o - to = r + u
          BY <5>1, <4>2
        <5> QED BY <5>2, <5>3, <3>2
      <4>4. y.file[o] = x.file[r + u]
        BY <4>3, <2>6
      <4> QED BY <4>2, <4>4, <3>1, <3>3, <3>5, <2>2
    <3>6. CASE j # i
      <4>1. y.secs[j] = x.secs[j]
        BY <3>6, <2>1
      <4>2. PICK o \in Int : o = r + u
        OBVIOUS
      <4>3. o \in DOMAIN file
        BY <4>2, <3>2, <3>4, <2>4
      <4>4. o \notin to .. to + q - 1
        <5>1. CASE j < i
          <6>1. RawEnd(x.secs[j]) <= x.end
            BY <5>1, <1>4
          <6>2. r + z <= x.end
            BY <6>1, <3>3, <1>1, <1>4
          <6> QED BY <6>2, <4>2, <3>4, <2>2, <1>1
        <5>2. CASE i < j
          <6>1. RawEnd(x.secs[i]) <= x.secs[j].raw
            BY <5>2, <2>10, <1>1, <1>5 DEF ApartIn
          <6>2. p + q <= r
            BY <6>1, <3>3, <2>4
          <6>3. to + q <= r /\ r <= o
            BY SMTT(60), <6>2, <4>2, <3>4, <2>11
          <6> QED BY <6>3
        <5> QED BY <5>1, <5>2, <3>6
      <4>5. y.file[o] = x.file[o]
        BY <4>3, <4>4, <2>6
      <4> QED BY <4>1, <4>2, <4>5, <3>1, <3>3
    <3> QED BY <3>5, <3>6
  <2> QED BY <1>3, <2>7, <2>8, <2>9, <2>10 DEF Carried, ApartIn
<1> QED
  BY <1>6, <1>7

LEMMA AllCarried ==
    ASSUME NEW M, NEW n, FileOf(n), \A i \in 1 .. Len(secs) : RawEnd(secs[i]) <= n,
           IsTable(secs), \A i \in 1 .. Len(secs) : 0 <= secs[i].raw, ApartIn(secs, M)
    PROVE  Carried(PackedAll, Len(secs), M)
<1> DEFINE N == Len(secs)
<1>1. PICK t : PackWalk(t)
  BY PackedAllIs
<1>2. /\ t \in [0 .. N -> Packings]
      /\ t[0] = [end |-> 0, secs |-> secs, file |-> file] /\ t[N] = PackedAll
      /\ \A k \in 1 .. N : t[k] = MovedDown(t[k - 1], k)
  BY <1>1 DEF PackWalk
<1>3. N \in Nat \ {0}
  BY TableIs
<1> DEFINE T == {k \in 0 .. N : Carried(t[k], k, M)}
<1>4. 0 \in T
  <2>1. PICK x : x = t[0]
    OBVIOUS
  <2>2. 0 \in 0 .. N
    BY <1>3
  <2>3. x \in Packings /\ x.secs = secs /\ x.file = file
    BY <2>1, <2>2, <1>2
  <2>4. \A i \in 1 .. N : ~(i <= 0)
    OBVIOUS
  <2>5. PackedSo(x, 0)
    BY <2>3, <2>4 DEF PackedSo
  <2>6. \A i \in 1 .. N : secs[i].raw \in Int
    BY TableIs, SectionIs
  <2>7. Carried(x, 0, M)
    BY <2>3, <2>5, <2>6 DEF Carried
  <2> QED BY <2>1, <2>2, <2>7
<1>5. ASSUME NEW k \in 0 .. N - 1, k \in T PROVE k + 1 \in T
  <2>1. PICK i \in 1 .. N : i = k + 1
    BY <1>3
  <2>2. PICK x : x = t[k]
    OBVIOUS
  <2>3. PICK y : y = t[i]
    OBVIOUS
  <2>4. y = MovedDown(x, i)
    <3>1. i - 1 = k
      BY <2>1
    <3> QED BY <3>1, <2>2, <2>3, <1>2
  <2>5. Carried(x, k, M)
    BY <1>5, <2>2
  <2>6. Carried(y, i, M)
    BY <2>1, <2>4, <2>5, CarriesNext
  <2>7. k + 1 \in 0 .. N
    BY <1>3
  <2> QED BY <2>1, <2>3, <2>6, <2>7
<1> HIDE DEF T
<1>6. \A k \in 0 .. N : k \in T
  <2>1. 0 \in Int /\ N \in Int
    BY <1>3
  <2> QED BY <1>4, <1>5, <2>1, UpFrom
<1>7. N \in T
  <2>1. N \in 0 .. N
    BY <1>3
  <2> QED BY <2>1, <1>6
<1> QED
  BY <1>7, <1>2 DEF T

LEMMA SameJudged ==
    ASSUME NEW ss, NEW old, Len(ss) = Len(old),
           \A i \in 1 .. Len(old) : /\ ss[i].kind = old[i].kind
                                    /\ ~IsMade(old[i]) => /\ ss[i].size = old[i].size
                                                          /\ ss[i].rsize = old[i].rsize,
           Len(old) \in Nat, Judged(ss)
    PROVE  Judged(old)
<1> SUFFICES ASSUME NEW i \in 1 .. Len(old), MisjudgedIn(old, i)
             PROVE  FALSE
  BY DEF Judged
<1>1. PICK k \in 1 .. i - 1 : Trimmed(old[k])
  BY DEF MisjudgedIn
<1>2. k \in 1 .. Len(old)
  OBVIOUS
<1>3. Trimmed(ss[k])
  BY <1>1, <1>2 DEF Trimmed, Zeroed, IsMade
<1>4. ~IsMade(ss[i]) /\ ~Zeroed(ss[i]) /\ ss[i].size > Huge /\ i \in 1 .. Len(ss)
  BY DEF Zeroed, MisjudgedIn, IsMade
<1>5. MisjudgedIn(ss, i)
  BY <1>3, <1>4 DEF MisjudgedIn
<1> QED
  BY <1>4, <1>5 DEF Judged

\* Only places in the file change
LEMMA PackKeeps ==
    ASSUME LayoutInv, PackLayout, NEW ss, ss = PackedAll.secs
    PROVE  /\ SameImage(ss, secs) /\ IsTable(ss) /\ Len(ss) = Len(secs)
           /\ \A i \in 1 .. Len(secs) :
                 /\ ss[i].rsize = secs[i].rsize /\ ss[i].kind = secs[i].kind
                 /\ ss[i].name = secs[i].name /\ ss[i].va = secs[i].va
                 /\ ss[i].size = secs[i].size
                 /\ IsMade(ss[i]) <=> IsMade(secs[i])
           /\ PackedAll.file \in [DOMAIN file -> Int]
<1>1. pc = "pack" /\ IsTable(secs)
  BY PackIs, LayoutIsSound DEF Sound
<1>2. PICK n : FileOf(n)
  BY <1>1, LayoutIsSound DEF Stage, Filed
<1>3. PackedAll \in Packings
  BY <1>1, <1>2, PackedAllTyped
<1>4. /\ SameImage(ss, secs) /\ IsTable(ss) /\ Len(ss) = Len(secs)
      /\ \A i \in 1 .. Len(secs) : ss[i].rsize = secs[i].rsize
      /\ PackedAll.file \in [DOMAIN file -> Int]
  BY <1>3, PackingIs
<1>5. \A i \in 1 .. Len(secs) : /\ ss[i].kind = secs[i].kind /\ ss[i].name = secs[i].name
                                /\ ss[i].va = secs[i].va /\ ss[i].size = secs[i].size
  BY <1>4 DEF SameImage
<1> QED
  BY <1>4, <1>5 DEF IsMade

LiveOnes == {i \in 1 .. Len(secs) : ~IsMade(secs[i])}

LEMMA ImagePack ==
    ASSUME LayoutInv, RoomInv, ImageInv, PackLayout
    PROVE  ImageInv'
<1>1. /\ pc = "pack" /\ pc' = "table" /\ secs' = PackedAll.secs
      /\ UNCHANGED <<input, live, dumped, hinted>>
  BY PackIs
<1>2. /\ IsTable(secs) /\ \A i \in 1 .. Len(secs) : 0 <= secs[i].raw
  BY <1>1, LayoutIsSound DEF RoomInv, Filed, Sound
<1>3. PICK n : FileOf(n) /\ \A i \in 1 .. Len(secs) : RawEnd(secs[i]) <= n
  BY <1>1 DEF RoomInv, AllInFile
<1>4. PICK ss : ss = secs'
  OBVIOUS
<1>5. /\ SameImage(ss, secs) /\ IsTable(ss) /\ Len(ss) = Len(secs)
      /\ \A i \in 1 .. Len(secs) : /\ ss[i].rsize = secs[i].rsize
                                   /\ IsMade(ss[i]) <=> IsMade(secs[i])
  BY <1>1, <1>4, PackKeeps
<1>6. ApartIn(secs, LiveOnes)
  <2>1. LiveApart(secs)
    BY <1>1 DEF ImageInv, Filed
  <2> QED BY <2>1 DEF ApartIn, LiveOnes, LiveApart
<1>7. Carried(PackedAll, Len(secs), LiveOnes)
  <2>1. PICK M : M = LiveOnes
    OBVIOUS
  <2>2. Carried(PackedAll, Len(secs), M)
    BY <2>1, <1>2, <1>3, <1>6, AllCarried
  <2> QED BY <2>1, <2>2
<1>8. LiveApart(ss)
  <2>1. ApartIn(ss, LiveOnes)
    BY <1>1, <1>4, <1>7 DEF Carried
  <2> QED BY <2>1, <1>5 DEF ApartIn, LiveOnes, LiveApart
<1>9. LiveKept(ss, secs)
  BY <1>2, <1>5, SameImageKept
<1>10. pc' \in Filed /\ pc \in {"write"} \union Filed
  BY <1>1 DEF Filed
<1> QED
  BY <1>1, <1>4, <1>5, <1>8, <1>9, <1>10, ImageFiled

\* A unit of a section that nothing reached into
LEMMA UnitMoved ==
    ASSUME NEW M, Carried(PackedAll, Len(secs), M), IsTable(secs),
           NEW ss, ss = PackedAll.secs,
           NEW f, \A o \in DOMAIN f : f[o] = PackedAll.file[o], InFile(ss, f),
           NEW i \in 1 .. Len(secs), i \in M, NEW u \in 0 .. secs[i].rsize - 1
    PROVE  f[ss[i].raw + u] = file[secs[i].raw + u]
<1>1. PackedAll \in Packings
  BY DEF Carried, PackedSo
<1>2. IsTable(ss) /\ Len(ss) = Len(secs) /\ ss[i].rsize = secs[i].rsize
  BY <1>1, PackingIs
<1>3. ss[i].raw + u \in FileRange(ss[i])
  <2>1. ss[i] \in Section
    BY <1>2, TableIs
  <2> QED BY <1>2, <2>1, InRange
<1>4. ss[i].raw + u \in DOMAIN f
  BY <1>2, <1>3 DEF InFile
<1>5. PackedAll.file[ss[i].raw + u] = file[secs[i].raw + u]
  BY DEF Carried
<1> QED
  BY <1>4, <1>5

LEMMA ContentPack ==
    ASSUME LayoutInv, RoomInv, ImageInv, ContentInv, PackLayout
    PROVE  ContentInv'
<1>1. /\ pc = "pack" /\ pc' = "table" /\ secs' = PackedAll.secs
      /\ file' = [o \in {p \in DOMAIN file : p < FileEnd(secs')} |-> PackedAll.file[o]]
      /\ UNCHANGED <<input, live, soi, base, dynamic, dumped, hinted, table>>
  BY PackIs
<1>2. /\ IsTable(secs) /\ (Well(secs) => Ordered(secs))
      /\ \A i \in 1 .. Len(secs) : 0 <= secs[i].raw
      /\ LiveFirst(secs)
  BY <1>1, LayoutIsSound DEF RoomInv, Filed, Sound
<1>3. PICK n : FileOf(n) /\ \A i \in 1 .. Len(secs) : RawEnd(secs[i]) <= n
  BY <1>1 DEF RoomInv, AllInFile
<1>4. PICK ss : ss = secs'
  OBVIOUS
<1>5. PICK f : f = file'
  OBVIOUS
<1>6. /\ SameImage(ss, secs) /\ IsTable(ss) /\ Len(ss) = Len(secs)
      /\ \A i \in 1 .. Len(secs) :
            /\ ss[i].rsize = secs[i].rsize /\ ss[i].kind = secs[i].kind
            /\ ss[i].name = secs[i].name /\ ss[i].va = secs[i].va
            /\ ss[i].size = secs[i].size
            /\ IsMade(ss[i]) <=> IsMade(secs[i])
  BY <1>1, <1>4, PackKeeps
<1>7. /\ InFile(secs, file) /\ (WellCut => Reaches(secs, file))
      /\ input.arch = "x64" => OneBase(secs, file)
      /\ ~dynamic /\ table = {}
  BY <1>1 DEF ContentInv, Filed
<1>8. \A i \in 1 .. Len(secs) : secs[i] \in Section /\ ss[i] \in Section
  BY <1>2, <1>6, TableIs
<1>9. LiveApart(secs)
  BY <1>1 DEF ImageInv, Filed
<1>10. Carried(PackedAll, Len(secs), LiveOnes)
  <2>1. PICK M : M = LiveOnes
    OBVIOUS
  <2>2. ApartIn(secs, M)
    BY <1>9, <2>1 DEF ApartIn, LiveOnes, LiveApart
  <2>3. Carried(PackedAll, Len(secs), M)
    BY <2>2, <1>2, <1>3, AllCarried
  <2> QED BY <2>1, <2>3
<1>11. \A i \in 1 .. Len(secs) : 0 <= ss[i].raw /\ ss[i].raw <= secs[i].raw
  BY <1>1, <1>4, <1>10 DEF Carried, PackedSo
<1>12. PICK e \in Int : e = FileEnd(ss) /\ \A i \in 1 .. Len(ss) : RawEnd(ss[i]) <= e
  BY <1>6, FileEndIs
<1>13. DOMAIN f = {p \in DOMAIN file : p < e} /\ \A o \in DOMAIN f : f[o] = PackedAll.file[o]
  BY <1>1, <1>4, <1>5, <1>12
<1>14. InFile(ss, f)
  <2>1. ASSUME NEW i \in 1 .. Len(ss), NEW o \in FileRange(ss[i]) PROVE o \in DOMAIN f
    <3>1. i \in 1 .. Len(secs)
      BY <1>6
    <3>2. o \in Int /\ ss[i].raw <= o /\ o < RawEnd(ss[i]) /\ RawEnd(ss[i]) \in Int
      BY <3>1, <1>8, InRange
    <3>3. /\ ss[i].raw \in Int /\ secs[i].raw \in Int /\ RawEnd(secs[i]) \in Int
          /\ RawEnd(ss[i]) = ss[i].raw + ss[i].rsize /\ ss[i].rsize \in Nat
          /\ RawEnd(secs[i]) = secs[i].raw + ss[i].rsize
      BY <3>1, <1>6, <1>8, SectionIs DEF RawEnd
    <3>4. n \in Int /\ DOMAIN file = 0 .. n - 1
      BY <1>3 DEF FileOf
    <3>5. RawEnd(ss[i]) <= RawEnd(secs[i]) /\ RawEnd(secs[i]) <= n /\ RawEnd(ss[i]) <= e
          /\ 0 <= ss[i].raw
      BY <3>1, <3>3, <1>3, <1>6, <1>11, <1>12
    <3>6. o \in 0 .. n - 1 /\ o < e
      BY <3>2, <3>3, <3>4, <3>5
    <3> QED BY <3>4, <3>6, <1>13
  <2> QED BY <2>1 DEF InFile
<1>15. ASSUME WellCutIn(ss) PROVE Reaches(ss, f)
  <2>1. Well(secs) /\ Judged(secs) /\ ShellLast
    <3>1. /\ Len(ss) = Len(secs) /\ Len(secs) \in Nat
          /\ \A i \in 1 .. Len(secs) : /\ ss[i].kind = secs[i].kind
                                       /\ ~IsMade(secs[i]) => /\ ss[i].size = secs[i].size
                                                              /\ ss[i].rsize = secs[i].rsize
      BY <1>2, <1>6, TableIs
    <3>2. Well(ss) /\ Judged(ss) /\ ShellLast
      BY <1>15 DEF WellCutIn
    <3> QED BY <3>1, <3>2, SameWell, SameJudged
  <2>2. Ordered(secs) /\ Reaches(secs, file)
    BY <2>1, <1>2, <1>7 DEF WellCut
  <2>3. PICK M : M = 1 .. Len(secs)
    OBVIOUS
  <2>4. Carried(PackedAll, Len(secs), M)
    <3>1. ApartIn(secs, M)
      BY <2>2 DEF ApartIn, Ordered
    <3> QED BY <3>1, <1>2, <1>3, AllCarried
  <2>5. ASSUME NEW i \in 1 .. Len(secs), NEW k \in 0 .. secs[i].rsize - 1
        PROVE  Stands(f[ss[i].raw + k], Held(ss[i], k))
    <3>1. f[ss[i].raw + k] = file[secs[i].raw + k]
      BY <2>3, <2>4, <1>1, <1>2, <1>4, <1>13, <1>14, UnitMoved
    <3>2. Held(ss[i], k) = Held(secs[i], k)
      BY <1>6 DEF Held
    <3>3. Stands(file[secs[i].raw + k], Held(secs[i], k))
      BY <2>2 DEF Reaches
    <3> QED BY <3>1, <3>2, <3>3
  <2> QED BY <2>5, <1>6 DEF Reaches
<1>16. ASSUME input.arch = "x64" PROVE OneBase(ss, f)
  <2> SUFFICES ASSUME NEW i \in 1 .. Len(secs), ~IsMade(ss[i]), NEW o \in FileRange(ss[i])
               PROVE  /\ ss[i].kind = "code" \/ base = "file" => f[o] \notin Pointers
                      /\ ss[i].kind = "code" \/ base # "file" => f[o] \notin Rebased
    BY <1>6 DEF OneBase
  <2>1. o \in Int /\ ss[i].raw <= o /\ o < RawEnd(ss[i]) /\ ss[i].raw \in Int
        /\ ss[i].rsize \in Nat /\ RawEnd(ss[i]) = ss[i].raw + ss[i].rsize
    BY <1>8, InRange, SectionIs
  <2>2. PICK u \in 0 .. secs[i].rsize - 1 : o = ss[i].raw + u
    <3>1. PICK u \in Int : u = o - ss[i].raw
      BY <2>1
    <3>2. u \in 0 .. ss[i].rsize - 1 /\ o = ss[i].raw + u
      BY SMTT(60), <2>1, <3>1
    <3> QED BY <3>2, <1>6
  <2>3. ~IsMade(secs[i]) /\ ss[i].kind = secs[i].kind /\ i \in LiveOnes
    BY <1>6 DEF LiveOnes
  <2>4. f[o] = file[secs[i].raw + u]
    BY <2>2, <2>3, <1>1, <1>2, <1>4, <1>10, <1>13, <1>14, UnitMoved
  <2>5. secs[i].raw + u \in FileRange(secs[i])
    BY <1>8, InRange
  <2>6. OneBase(secs, file)
    BY <1>7, <1>16
  <2> QED BY <2>3, <2>4, <2>5, <2>6 DEF OneBase
<1>17. WellCut' <=> WellCutIn(ss)
  BY <1>1, <1>4, WellCutNext
<1>18. /\ Reaches(ss, f) => Reaches(secs, file)'
       /\ InFile(ss, f) => InFile(secs, file)'
       /\ OneBase(ss, f) => OneBase(secs, file)'
  BY <1>1, <1>4, <1>5, ReachesNext
<1>19. InFile(secs, file)' /\ (WellCut => Reaches(secs, file))'
  BY <1>14, <1>15, <1>17, <1>18
<1>20. (input.arch = "x64" => OneBase(secs, file))'
  BY <1>1, <1>16, <1>18
<1>21. table' = {} /\ ~dynamic'
  BY <1>1, <1>7
<1> QED
  BY <1>1, <1>19, <1>20, <1>21 DEF ContentInv

----------------------------------------------------------------------------
(* What the relocation table has *)

Addresses == IF base = "file" THEN Rebased ELSE Pointers

LEMMA RelocationHas ==
    ASSUME IsTable(secs), NEW i \in 1 .. Len(secs), secs[i].name # "reloc", Scanned(secs[i]),
           NEW o \in FileRange(secs[i]), file[o] \in Addresses
    PROVE  secs[i].va + o - secs[i].raw \in Relocations
<1> DEFINE addresses == IF base = "file" THEN {-p : p \in Pointers} ELSE Pointers
           walked == {s \in ToSet(secs) : /\ s.name # "reloc"
                                          /\ Scanned(s) \/ (s.kind = "code" /\ input.arch = "x86")}
           found(s) == {u \in FileRange(s) : file[u] \in addresses}
<1>1. Relocations = UNION {{s.va + u - s.raw : u \in found(s)} : s \in walked}
  BY Zenon DEF Relocations
<1>2. secs[i] \in walked
  BY TableIs
<1>3. o \in found(secs[i])
  BY DEF Addresses, Rebased
<1> HIDE DEF walked, found
<1>4. PICK s : s = secs[i]
  OBVIOUS
<1>5. s \in walked /\ o \in found(s)
  BY <1>2, <1>3, <1>4
<1>6. s.va + o - s.raw \in Relocations
  BY <1>1, <1>5
<1> QED
  BY <1>4, <1>6

\* The unit an entry of the table is for
EntryOf(rva, i) ==
    \E u \in 0 .. secs[i].rsize - 1 :
        rva = secs[i].va + u /\ file[secs[i].raw + u] \in Addresses

LEMMA RelocationComes ==
    ASSUME IsTable(secs), NEW rva \in Relocations
    PROVE  \E i \in 1 .. Len(secs) : EntryOf(rva, i)
<1> DEFINE addresses == IF base = "file" THEN {-p : p \in Pointers} ELSE Pointers
           walked == {s \in ToSet(secs) : /\ s.name # "reloc"
                                          /\ Scanned(s) \/ (s.kind = "code" /\ input.arch = "x86")}
           found(s) == {o \in FileRange(s) : file[o] \in addresses}
<1>1. Relocations = UNION {{s.va + o - s.raw : o \in found(s)} : s \in walked}
  BY Zenon DEF Relocations
<1>2. \A s \in walked : s \in ToSet(secs)
  OBVIOUS
<1>3. \A s : \A o \in found(s) : o \in FileRange(s) /\ file[o] \in Addresses
  BY DEF Addresses, Rebased
<1> HIDE DEF walked, found
<1>4. PICK s \in walked : \E o \in found(s) : rva = s.va + o - s.raw
  BY <1>1
<1>5. PICK o \in found(s) : rva = s.va + o - s.raw
  BY <1>4
<1>6. PICK i \in 1 .. Len(secs) : s = secs[i]
  BY <1>2, TableIs
<1>7. s \in Section
  BY <1>6, TableIs
<1>8. o \in FileRange(s) /\ file[o] \in Addresses
  BY <1>3
<1>9. o \in Int /\ s.raw <= o /\ o < RawEnd(s) /\ RawEnd(s) = s.raw + s.rsize
      /\ s.raw \in Int /\ s.rsize \in Nat /\ s.va \in Nat
  BY <1>7, <1>8, InRange, SectionIs
<1>10. PICK u \in Int : u = o - s.raw
  BY <1>9
<1>11. u \in 0 .. s.rsize - 1 /\ o = s.raw + u /\ rva = s.va + u
  BY SMTT(60), <1>5, <1>9, <1>10
<1>12. EntryOf(rva, i)
  BY <1>6, <1>8, <1>11 DEF EntryOf
<1> QED
  BY <1>12

(* No relocation is applied to a slot of the import table. *)
LEMMA TableSpared ==
    ASSUME LayoutInv, RoomInv, ImageInv, pc \in Filed, WellCut, Reaches(secs, file),
           input.import > 0
    PROVE  input.iat \notin Relocations
<1> SUFFICES ASSUME input.iat \in Relocations PROVE FALSE
  OBVIOUS
<1>1. Known(secs) /\ LiveImage /\ Inputs /\ hinted /\ ShellLast /\ Judged(secs)
  BY KnownNow DEF WellCut
<1>2. IsTable(secs) /\ Follows(secs) /\ LiveFirst(secs) /\ Within(secs)
  BY <1>1 DEF Known
<1>3. PICK j \in 1 .. Len(secs) : TableAt(secs, j)
  BY <1>1, TableStands
<1>4. /\ ~IsMade(secs[j]) /\ input.iat = secs[j].va + 1 /\ input.iat < End(secs[j])
      /\ DumpBuf(input.iat) = Hint
  BY <1>3 DEF TableAt
<1>5. PICK i \in 1 .. Len(secs) : EntryOf(input.iat, i)
  BY <1>2, RelocationComes
<1>6. PICK u \in 0 .. secs[i].rsize - 1 :
          input.iat = secs[i].va + u /\ file[secs[i].raw + u] \in Addresses
  BY <1>5 DEF EntryOf
<1>7. /\ \A k \in 1 .. Len(secs) : /\ secs[k].va \in Nat /\ secs[k].size \in Nat
                                   /\ secs[k].rsize \in Nat
                                   /\ End(secs[k]) = secs[k].va + secs[k].size
  BY <1>2, TableIs, SectionIs DEF End
<1>8. CASE IsMade(secs[i])
  <2>1. i # j /\ ~(i < j)
    BY <1>2, <1>4, <1>8 DEF LiveFirst
  <2>2. j < i
    BY <2>1
  <2>3. End(secs[j]) <= secs[i].va
    BY <2>2, <1>2, PlaceOf
  <2>4. secs[j].va + secs[j].size <= secs[i].va /\ secs[i].va <= input.iat
        /\ input.iat < secs[j].va + secs[j].size
    BY <2>3, <1>4, <1>6, <1>7
  <2>5. input.iat \in Int /\ secs[i].va \in Int /\ secs[j].va + secs[j].size \in Int
    BY <1>4, <1>7
  <2> QED BY <2>4, <2>5
<1>9. CASE ~IsMade(secs[i])
  <2>1. secs[i].rsize <= secs[i].size
    BY <1>2, <1>9 DEF Within
  <2>2. input.iat \in Int /\ secs[i].va <= input.iat /\ input.iat < End(secs[i])
        /\ secs[j].va <= input.iat
    <3>1. PICK v \in Nat, z \in Nat, w \in Nat :
             v = secs[i].va /\ z = secs[i].rsize /\ w = secs[i].size /\ End(secs[i]) = v + w
      BY <1>7
    <3>2. u \in 0 .. z - 1 /\ z <= w /\ input.iat = v + u
      BY <3>1, <2>1, <1>6
    <3>3. input.iat \in Int /\ v <= input.iat /\ input.iat < v + w
      BY <3>2
    <3>4. secs[j].va <= input.iat
      BY <1>4, <1>7
    <3> QED BY <3>1, <3>3, <3>4
  <2>3. \A k \in 1 .. Len(secs) : End(secs[k]) \in Int /\ secs[k].va \in Int
    BY <1>7
  <2>4. ~(i < j)
    <3>1. i < j => End(secs[i]) <= secs[j].va
      BY <1>2, PlaceOf
    <3> QED BY <3>1, <2>2, <2>3
  <2>5. ~(j < i)
    <3>1. j < i => End(secs[j]) <= secs[i].va
      BY <1>2, PlaceOf
    <3> QED BY <3>1, <2>2, <2>3, <1>4
  <2>6. i = j
    BY <2>4, <2>5
  <2>7. Stands(file[secs[i].raw + u], Held(secs[i], u))
    BY DEF Reaches
  <2>8. Held(secs[i], u) = -1
    BY <1>4, <1>6, <1>9 DEF Held, Hint
  <2>9. file[secs[i].raw + u] = -1
    <3>1. SA \in Nat
      BY DumpAssumption
    <3> QED BY <3>1, <2>7, <2>8 DEF Stands
  <2>10. /\ \A p \in Pointers : p \in Nat
         /\ \A q \in Rebased : q \in Int /\ q < -3
    BY <1>1, PointersAre
  <2> QED BY <2>9, <2>10, <1>6 DEF Addresses
<1> QED
  BY <1>8, <1>9

(* On x64 the table has every pointer of the product. *)
LEMMA AllRelocated ==
    ASSUME IsTable(secs), NEW r, RelocAt(secs, r), InFile(secs, file), OneBase(secs, file),
           NEW i \in 1 .. Len(secs), ~IsMade(secs[i]), NEW o \in FileRange(secs[i]),
           file[o] \in Pointers \union Rebased
    PROVE  secs[i].va + o - secs[i].raw \in Relocations
<1>1. /\ secs[i].kind = "code" \/ base = "file" => file[o] \notin Pointers
      /\ secs[i].kind = "code" \/ base # "file" => file[o] \notin Rebased
  BY DEF OneBase
<1>2. secs[i].kind # "code" /\ file[o] \in Addresses
  BY <1>1 DEF Addresses
<1>3. secs[i].name # "reloc"
  BY DEF RelocAt, IsMade
<1>4. Scanned(secs[i])
  BY <1>2 DEF InFile, Scanned
<1> QED
  BY <1>2, <1>3, <1>4, RelocationHas

\* The table that is built is in the room reserved for it
LEMMA TableFits ==
    ASSUME LayoutInv, RoomInv, BuildTable
    PROVE  \E r : /\ RelocAt(secs, r)
                  /\ pc' \in {"save", "failed"}
                  /\ UNCHANGED <<input, live, soi, base, dumped, hinted, file>>
                  /\ \/ UNCHANGED <<table, secs, dynamic>>
                     \/ \E n \in Nat \ {0}, k \in Nat :
                           /\ table' = Relocations /\ dynamic' = TRUE
                           /\ secs' = Rebuilt(r, n, k) /\ k <= secs[r].rsize
<1>1. pc = "table" /\ Sound /\ InputOK /\ IsTable(secs)
  BY LayoutIsSound DEF BuildTable, Sound
<1>2. PICK r : RelocAt(secs, r)
  BY <1>1, LayoutIsSound DEF Stage
<1>3. secs[r].rsize = Reservation
  <2>1. r \in 1 .. Len(secs) /\ IsMade(secs[r]) /\ secs[r].name = "reloc"
    BY <1>2 DEF RelocAt, IsMade
  <2> QED BY <2>1, <1>1 DEF RoomInv, Reserved, ReservationStands
<1>4. /\ pc' \in {"save", "failed"}
      /\ UNCHANGED <<input, live, soi, base, dumped, hinted, file>>
      /\ \/ UNCHANGED <<table, secs, dynamic>>
         \/ /\ input.table <= secs[r].rsize
            /\ table' = Relocations /\ dynamic' = TRUE
            /\ secs' = [secs EXCEPT ![r].size = Announced(secs[r]),
                                    ![r].rsize = AlignUp(input.table, FA)]
  BY <1>1, <1>2, BuildIs
<1>5. /\ input.table \in Nat \ {0}
      /\ Reservation \in Nat /\ IsMultiple(Reservation, FA) /\ FA \in Nat \ {0}
  BY <1>1, InputIs, ReservationIs, SectionsOfFiles
<1>6. CASE UNCHANGED <<table, secs, dynamic>>
  BY <1>2, <1>4, <1>6
<1>7. CASE /\ input.table <= secs[r].rsize
           /\ table' = Relocations /\ dynamic' = TRUE
           /\ secs' = [secs EXCEPT ![r].size = Announced(secs[r]),
                                   ![r].rsize = AlignUp(input.table, FA)]
  <2>1. PICK n \in Nat \ {0} : n = Announced(secs[r])
    BY <1>1, <1>2, <1>5, <1>7, AnnouncedIs DEF Sound
  <2>2. PICK k \in Nat : k = AlignUp(input.table, FA) /\ k <= secs[r].rsize
    BY <1>3, <1>5, <1>7, AlignUpIs, AlignUpLeast
  <2>3. secs' = Rebuilt(r, n, k)
    BY <1>7, <2>1, <2>2, Zenon DEF Rebuilt
  <2> QED BY <1>2, <1>4, <1>7, <2>2, <2>3
<1> QED
  BY <1>4, <1>6, <1>7

LEMMA RebuiltKeeps ==
    ASSUME NEW r, NEW n \in Nat \ {0}, NEW k \in Nat, NEW ss, ss = Rebuilt(r, n, k),
           IsTable(secs), r \in 1 .. Len(secs), RelocAt(secs, r), k <= secs[r].rsize
    PROVE  /\ IsTable(ss) /\ Len(ss) = Len(secs)
           /\ \A i \in 1 .. Len(secs) :
                 /\ ss[i].kind = secs[i].kind /\ ss[i].name = secs[i].name
                 /\ ss[i].va = secs[i].va /\ ss[i].raw = secs[i].raw
                 /\ ss[i].rsize <= secs[i].rsize
                 /\ ~IsMade(secs[i]) => ss[i] = secs[i]
           /\ LiveKept(ss, secs)
<1>1. /\ IsTable(ss) /\ Len(ss) = Len(secs)
      /\ \A i \in 1 .. Len(secs) : i # r => ss[i] = secs[i]
      /\ \A i \in 1 .. Len(secs) :
            /\ ss[i].kind = secs[i].kind /\ ss[i].name = secs[i].name
            /\ ss[i].va = secs[i].va /\ ss[i].raw = secs[i].raw
      /\ ss[r].size = n /\ ss[r].rsize = k
  BY RebuiltIs
<1>2. IsMade(secs[r])
  BY DEF RelocAt, IsMade
<1>3. \A i \in 1 .. Len(secs) : ~IsMade(secs[i]) => ss[i] = secs[i]
  BY <1>1, <1>2
<1>4. \A i \in 1 .. Len(secs) : ss[i].rsize <= secs[i].rsize
  <2>1. \A i \in 1 .. Len(secs) : secs[i].rsize \in Nat
    BY TableIs, SectionIs
  <2> QED BY <2>1, <1>1
<1>5. LiveKept(ss, secs)
  <2>1. Len(secs) \in Nat
    BY TableIs
  <2> QED BY <2>1, <1>1, <1>3 DEF LiveKept, SameSection, IsMade
<1> QED
  BY <1>1, <1>3, <1>4, <1>5

LEMMA ImageTable ==
    ASSUME LayoutInv, RoomInv, ImageInv, BuildTable
    PROVE  ImageInv'
<1>1. PICK r : /\ RelocAt(secs, r)
               /\ pc' \in {"save", "failed"}
               /\ UNCHANGED <<input, live, soi, base, dumped, hinted, file>>
               /\ \/ UNCHANGED <<table, secs, dynamic>>
                  \/ \E n \in Nat \ {0}, k \in Nat :
                        /\ table' = Relocations /\ dynamic' = TRUE
                        /\ secs' = Rebuilt(r, n, k) /\ k <= secs[r].rsize
  BY TableFits
<1>2. pc \in Filed /\ pc' \in Filed
  BY <1>1 DEF BuildTable, Filed
<1>3. IsTable(secs) /\ LiveApart(secs)
  BY <1>2, LayoutIsSound DEF Sound, ImageInv
<1>4. CASE UNCHANGED <<table, secs, dynamic>>
  <2>1. LiveKept(secs, secs)
    BY <1>3, SelfStays DEF LiveStays
  <2> QED BY <2>1, <1>1, <1>2, <1>3, <1>4, ImageFiled
<1>5. ASSUME NEW n \in Nat \ {0}, NEW k \in Nat, secs' = Rebuilt(r, n, k), k <= secs[r].rsize
      PROVE  ImageInv'
  <2>1. PICK ss : ss = secs'
    OBVIOUS
  <2>2. /\ IsTable(ss) /\ Len(ss) = Len(secs) /\ LiveKept(ss, secs)
        /\ \A i \in 1 .. Len(secs) :
              /\ ss[i].kind = secs[i].kind /\ ss[i].raw = secs[i].raw
              /\ ss[i].rsize <= secs[i].rsize
              /\ ~IsMade(secs[i]) => ss[i] = secs[i]
    <3>1. r \in 1 .. Len(secs) /\ RelocAt(secs, r)
      BY <1>1 DEF RelocAt
    <3> QED BY <3>1, <1>3, <1>5, <2>1, RebuiltKeeps
  <2>3. ASSUME NEW i \in 1 .. Len(ss), NEW j \in 1 .. Len(ss), i < j, ~IsMade(ss[j])
        PROVE  RawEnd(ss[i]) <= ss[j].raw
    <3>1. RawEnd(secs[i]) <= secs[j].raw
      BY <1>3, <2>2, <2>3 DEF LiveApart, IsMade
    <3>2. /\ ss[i] \in Section /\ secs[i] \in Section /\ secs[j] \in Section
      BY <1>3, <2>2, TableIs
    <3>3. /\ secs[i].raw \in Int /\ secs[i].rsize \in Nat /\ ss[i].rsize \in Nat
          /\ secs[j].raw \in Int /\ RawEnd(secs[i]) = secs[i].raw + secs[i].rsize
      BY <3>2, SectionIs DEF RawEnd
    <3>4. RawEnd(ss[i]) = secs[i].raw + ss[i].rsize /\ ss[j].raw = secs[j].raw
          /\ ss[i].rsize <= secs[i].rsize
      BY <2>2 DEF RawEnd
    <3> QED BY <3>1, <3>3, <3>4
  <2>4. LiveApart(ss)
    BY <2>3 DEF LiveApart
  <2>5. \A i \in 1 .. Len(secs) : ~IsMade(secs[i]) => ss[i].rsize = secs[i].rsize
    BY <2>2
  <2> QED BY <1>1, <1>2, <2>1, <2>2, <2>4, <2>5, ImageFiled
<1> QED
  BY <1>1, <1>4, <1>5

LEMMA ContentTable ==
    ASSUME LayoutInv, RoomInv, ImageInv, ContentInv, BuildTable
    PROVE  ContentInv'
<1>1. PICK r : /\ RelocAt(secs, r)
               /\ pc' \in {"save", "failed"}
               /\ UNCHANGED <<input, live, soi, base, dumped, hinted, file>>
               /\ \/ UNCHANGED <<table, secs, dynamic>>
                  \/ \E n \in Nat \ {0}, k \in Nat :
                        /\ table' = Relocations /\ dynamic' = TRUE
                        /\ secs' = Rebuilt(r, n, k) /\ k <= secs[r].rsize
  BY TableFits
<1>2. pc = "table" /\ pc \in Filed /\ IsTable(secs)
  BY LayoutIsSound DEF BuildTable, Filed, Sound
<1>3. /\ InFile(secs, file) /\ (WellCut => Reaches(secs, file))
      /\ input.arch = "x64" => OneBase(secs, file)
      /\ ~dynamic /\ table = {}
  BY <1>2 DEF ContentInv, Filed
<1>4. CASE UNCHANGED <<table, secs, dynamic>>
  <2>1. PICK ss, f : ss = secs' /\ f = file'
    OBVIOUS
  <2>2. ss = secs /\ f = file /\ table' = {} /\ ~dynamic'
    BY <2>1, <1>1, <1>3, <1>4
  <2>3. WellCut' <=> WellCut
    BY <1>1, <1>4 DEF WellCut, Well, Judged, MisjudgedIn, Trimmed, Zeroed, Loose, IsMade
  <2>4. /\ Reaches(ss, f) => Reaches(secs, file)'
        /\ InFile(ss, f) => InFile(secs, file)'
        /\ OneBase(ss, f) => OneBase(secs, file)'
    BY <1>1, <2>1, ReachesNext
  <2>5. /\ InFile(secs, file)' /\ (WellCut => Reaches(secs, file))'
        /\ (input.arch = "x64" => OneBase(secs, file))'
    BY <1>1, <1>3, <2>2, <2>3, <2>4
  <2> QED BY <1>1, <2>2, <2>5 DEF ContentInv
<1>5. ASSUME NEW n \in Nat \ {0}, NEW k \in Nat, secs' = Rebuilt(r, n, k), k <= secs[r].rsize,
             table' = Relocations
      PROVE  ContentInv'
  <2>1. PICK ss, f : ss = secs' /\ f = file'
    OBVIOUS
  <2>2. /\ IsTable(ss) /\ Len(ss) = Len(secs) /\ f = file
        /\ \A i \in 1 .. Len(secs) :
              /\ ss[i].kind = secs[i].kind /\ ss[i].name = secs[i].name
              /\ ss[i].va = secs[i].va /\ ss[i].raw = secs[i].raw
              /\ ss[i].rsize <= secs[i].rsize
              /\ ~IsMade(secs[i]) => ss[i] = secs[i]
    <3>1. r \in 1 .. Len(secs) /\ RelocAt(secs, r)
      BY <1>1 DEF RelocAt
    <3> QED BY <3>1, <1>1, <1>2, <1>5, <2>1, RebuiltKeeps
  <2>3. ASSUME NEW i \in 1 .. Len(secs)
        PROVE  /\ FileRange(ss[i]) \subseteq FileRange(secs[i])
               /\ 0 .. ss[i].rsize - 1 \subseteq 0 .. secs[i].rsize - 1
    <3>1. ss[i] \in Section /\ secs[i] \in Section
      BY <1>2, <2>2, TableIs
    <3>2. PICK v \in Int, x \in Nat, y \in Nat :
             v = secs[i].raw /\ x = ss[i].rsize /\ y = secs[i].rsize
      BY <3>1, SectionIs
    <3>3. /\ FileRange(ss[i]) = v .. v + x - 1 /\ FileRange(secs[i]) = v .. v + y - 1
          /\ x <= y
      <4>1. ss[i].raw = v /\ x <= y
        BY <3>2, <2>2
      <4>2. FileRange(ss[i]) = v .. v + x - 1
        BY <4>1, <3>2 DEF FileRange, RawEnd
      <4>3. FileRange(secs[i]) = v .. v + y - 1
        BY <3>2 DEF FileRange, RawEnd
      <4> QED BY <4>1, <4>2, <4>3
    <3>4. v .. v + x - 1 \subseteq v .. v + y - 1 /\ 0 .. x - 1 \subseteq 0 .. y - 1
      BY <3>3
    <3> QED BY <3>2, <3>3, <3>4
  <2>4. InFile(ss, f)
    BY <1>3, <2>2, <2>3 DEF InFile
  <2>5. ASSUME WellCutIn(ss) PROVE WellCut
    <3>1. /\ Len(ss) = Len(secs) /\ Len(secs) \in Nat
          /\ \A i \in 1 .. Len(secs) : /\ ss[i].kind = secs[i].kind
                                       /\ ~IsMade(secs[i]) => /\ ss[i].size = secs[i].size
                                                              /\ ss[i].rsize = secs[i].rsize
      BY <1>2, <2>2, TableIs
    <3>2. Well(ss) /\ Judged(ss) /\ ShellLast
      BY <2>5 DEF WellCutIn
    <3> QED BY <3>1, <3>2, SameWell, SameJudged DEF WellCut
  <2>6. ASSUME WellCutIn(ss) PROVE Reaches(ss, f)
    <3>1. Reaches(secs, file)
      BY <2>5, <2>6, <1>3
    <3>2. ASSUME NEW i \in 1 .. Len(secs), NEW u \in 0 .. ss[i].rsize - 1
          PROVE  Stands(f[ss[i].raw + u], Held(ss[i], u))
      <4>1. u \in 0 .. secs[i].rsize - 1
        BY <2>3
      <4>2. Stands(file[secs[i].raw + u], Held(secs[i], u))
        BY <3>1, <4>1 DEF Reaches
      <4>3. Held(ss[i], u) = Held(secs[i], u) /\ ss[i].raw = secs[i].raw
        BY <2>2 DEF Held, IsMade
      <4> QED BY <4>2, <4>3, <2>2
    <3> QED BY <3>2, <2>2 DEF Reaches
  <2>7. ASSUME WellCutIn(ss), input.import > 0 PROVE input.iat \notin table'
    <3>1. WellCut /\ Reaches(secs, file)
      BY <2>5, <2>7, <1>3
    <3> QED BY <3>1, <2>7, <1>2, <1>5, TableSpared
  <2>8. ASSUME input.arch = "x64" PROVE OneBase(ss, f)
    BY <1>3, <2>2, <2>8 DEF OneBase, IsMade
  <2>9. ASSUME input.arch = "x64", NEW i \in 1 .. Len(secs), ~IsMade(ss[i]),
               NEW o \in FileRange(ss[i]), f[o] \in Pointers \union Rebased
        PROVE  ss[i].va + o - ss[i].raw \in table'
    <3>1. ~IsMade(secs[i]) /\ ss[i] = secs[i] /\ f = file
      BY <2>2, <2>9 DEF IsMade
    <3>2. secs[i].va + o - secs[i].raw \in Relocations
      BY <3>1, <1>1, <1>2, <1>3, <2>9, AllRelocated
    <3> QED BY <3>1, <3>2, <1>5
  <2>10. (input.arch = "x64" => TableHasAll(secs, file))'
    <3>1. Pointers' = Pointers /\ Rebased' = Rebased
      BY <1>1 DEF Pointers, Rebased, Kept
    <3> QED BY <3>1, <1>1, <2>1, <2>2, <2>9 DEF TableHasAll, FileRange, RawEnd, IsMade
  <2>11. WellCut' <=> WellCutIn(ss)
    BY <1>1, <2>1, WellCutNext
  <2>12. /\ Reaches(ss, f) => Reaches(secs, file)'
         /\ InFile(ss, f) => InFile(secs, file)'
         /\ OneBase(ss, f) => OneBase(secs, file)'
    BY <1>1, <2>1, ReachesNext
  <2>13. InFile(secs, file)' /\ (WellCut => Reaches(secs, file))'
    BY <2>4, <2>6, <2>11, <2>12
  <2>14. (input.arch = "x64" => OneBase(secs, file))'
    BY <1>1, <2>8, <2>12
  <2>15. (WellCut /\ input.import > 0 => input.iat \notin table)'
    BY <1>1, <2>7, <2>11
  <2> QED BY <1>1, <2>10, <2>13, <2>14, <2>15 DEF ContentInv
<1> QED
  BY <1>1, <1>4, <1>5

----------------------------------------------------------------------------
(* The content of the product *)

LEMMA ImageIsInductive ==
    ASSUME LayoutInv, RoomInv, ImageInv, [Next]_vars
    PROVE  ImageInv'
<1>1. CASE UNCHANGED vars
  <2>1. UNCHANGED <<pc, input, live, secs, dumped, hinted>>
    BY <1>1 DEF vars
  <2>2. LiveImage' /\ Inputs'
    BY <2>1, ImageOfMemory DEF ImageInv
  <2>3. Placed(secs)' <=> Placed(secs)
    BY <2>1 DEF Placed, CodeFirst, InPlace, SameSection, IsMade
  <2>4. /\ Buffered(secs)' <=> Buffered(secs)
        /\ Within(secs)' <=> Within(secs)
        /\ Mirrored(secs)' <=> Mirrored(secs)
        /\ LiveApart(secs)' <=> LiveApart(secs)
    BY <2>1 DEF Buffered, Within, Mirrored, LiveApart, IsMade
  <2>5. (Judged(secs) => \A i \in 1 .. Len(secs) : NothingCut(secs[i]))'
           <=> (Judged(secs) => \A i \in 1 .. Len(secs) : NothingCut(secs[i]))
    BY <2>1 DEF Judged, MisjudgedIn, Trimmed, Zeroed, IsMade, NothingCut, DumpBuf, Live, End
  <2> QED BY <2>1, <2>2, <2>3, <2>4, <2>5 DEF ImageInv, Early, Appending, Filed
<1>2. CASE PatchHeader \/ ShrinkSections \/ ReadImage
  BY <1>2, ImagePatch, ImageShrink, ImageRead
<1>3. CASE CreatePdata \/ CreateReloc \/ CreateImport
  BY <1>3, ImagePdata, ImageReloc, ImageImport
<1>4. CASE TrimSections \/ WriteOutput
  BY <1>4, ImageTrim, ImageWrite
<1>5. CASE FixAddresses \/ PackLayout
  BY <1>5, ImageFix, ImagePack
<1>6. CASE BuildTable \/ Save
  BY <1>6, ImageTable, ImageSave
<1> QED
  BY <1>1, <1>2, <1>3, <1>4, <1>5, <1>6 DEF Next

LEMMA ContentIsInductive ==
    ASSUME LayoutInv, LayoutInv', RoomInv, RoomInv', ImageInv, ImageInv', ContentInv,
           [Next]_vars
    PROVE  ContentInv'
<1>1. CASE UNCHANGED vars
  <2>1. UNCHANGED <<pc, input, live, secs, base, dynamic, dumped, hinted, file, table>>
    BY <1>1 DEF vars
  <2>2. PICK ss, f : ss = secs' /\ f = file'
    OBVIOUS
  <2>3. ss = secs /\ f = file
    BY <2>1, <2>2
  <2>4. WellCut' <=> WellCut
    BY <2>1 DEF WellCut, Well, Judged, MisjudgedIn, Trimmed, Zeroed, Loose, IsMade
  <2>5. /\ Reaches(secs, file) => Reaches(secs, file)'
        /\ InFile(secs, file) => InFile(secs, file)'
        /\ NoneRebased(secs, file) => NoneRebased(secs, file)'
        /\ OneBase(secs, file) => OneBase(secs, file)'
        /\ TableHasAll(secs, file) => TableHasAll(secs, file)'
    BY <2>1, <2>2, <2>3, ReachesNext
  <2> QED BY <2>1, <2>4, <2>5 DEF ContentInv, Filed
<1>2. CASE \/ PatchHeader \/ ShrinkSections \/ ReadImage
           \/ CreatePdata \/ CreateReloc \/ CreateImport \/ TrimSections
  <2>1. pc \notin Filed /\ pc' \notin Filed /\ table' = table
    BY <1>2 DEF PatchHeader, ShrinkSections, ReadImage, CreatePdata, CreateReloc,
                CreateImport, TrimSections, Step, Filed
  <2> QED BY <2>1, ContentEarly
<1>3. CASE WriteOutput
  BY <1>3, ContentWrite
<1>4. CASE FixAddresses
  BY <1>4, ContentFix
<1>5. CASE PackLayout
  BY <1>5, ContentPack
<1>6. CASE BuildTable
  BY <1>6, ContentTable
<1>7. CASE Save
  BY <1>7, ContentSave
<1> QED
  BY <1>1, <1>2, <1>3, <1>4, <1>5, <1>6, <1>7 DEF Next

\* All that is known between any two steps of dump_process
ProductInv == LayoutInv /\ RoomInv /\ ImageInv /\ ContentInv

LEMMA ProductStands ==
    ASSUME NothingAppendedIsHuge
    PROVE  Spec => []ProductInv
<1>1. Init => ProductInv
  BY LayoutInit, RoomInit, ImageInit, ContentInit DEF ProductInv
<1>2. ProductInv /\ [Next]_vars => ProductInv'
  <2> SUFFICES ASSUME ProductInv, [Next]_vars PROVE ProductInv'
    OBVIOUS
  <2>1. LayoutInv /\ RoomInv /\ ImageInv /\ ContentInv
    BY DEF ProductInv
  <2>2. LayoutInv'
    BY <2>1, LayoutIsInductive
  <2>3. RoomInv'
    BY <2>1, <2>2, RoomIsInductive
  <2>4. ImageInv'
    BY <2>1, ImageIsInductive
  <2>5. ContentInv'
    BY <2>1, <2>2, <2>3, <2>4, ContentIsInductive
  <2> QED BY <2>2, <2>3, <2>4, <2>5 DEF ProductInv
<1> QED
  BY <1>1, <1>2, PTL DEF Spec

(* On x64 every pointer of the product is for the base its header names,   *)
(* and a product that may be moved has all of them in its table, whatever  *)
(* was trimmed or packed and however the table was sized:                  *)
(* fix_hardcoded_addresses and build_relocation_table scan the same        *)
(* sections.                                                               *)
THEOREM PointersAreOfOneBase ==
    ASSUME NothingAppendedIsHuge
    PROVE  Spec => []PointersFollowTheBase64
<1>1. ASSUME ProductInv PROVE PointersFollowTheBase64
  <2> SUFFICES ASSUME input.arch = "x64", pc = "done",
                      NEW i \in DOMAIN secs, NEW o \in FileRange(secs[i]),
                      Kept(secs[i]), file[o] \in Pointers \union {-p : p \in Pointers}
               PROVE  /\ (file[o] < 0) <=> (base = "file")
                      /\ dynamic => secs[i].va + o - secs[i].raw \in table
    BY DEF PointersFollowTheBase64, PointersFollowTheBase
  <2>1. /\ OneBase(secs, file) /\ (dynamic => TableHasAll(secs, file))
        /\ LiveImage /\ IsTable(secs)
    BY <1>1, LayoutIsSound DEF ProductInv, ContentInv, ImageInv, Filed, Sound
  <2>2. i \in 1 .. Len(secs) /\ ~IsMade(secs[i])
    BY <2>1, TableIs DEF Kept, IsMade
  <2>3. file[o] \in Pointers \union Rebased
    BY DEF Rebased
  <2>4. /\ base = "file" => file[o] \in Rebased
        /\ base # "file" => file[o] \in Pointers
    BY <2>1, <2>2, <2>3 DEF OneBase
  <2>5. /\ \A p \in Pointers : p \in Nat
        /\ \A q \in Rebased : q \in Int /\ q < -3
    BY <2>1, PointersAre
  <2>6. (file[o] < 0) <=> (base = "file")
    <3>1. CASE base = "file"
      <4>1. file[o] \in Int /\ file[o] < -3
        BY <3>1, <2>4, <2>5
      <4> QED BY <4>1, <3>1
    <3>2. CASE base # "file"
      <4>1. file[o] \in Nat
        BY <3>2, <2>4, <2>5
      <4> QED BY <4>1, <3>2
    <3> QED BY <3>1, <3>2
  <2>7. dynamic => secs[i].va + o - secs[i].raw \in table
    BY <2>1, <2>2, <2>3 DEF TableHasAll
  <2> QED BY <2>6, <2>7
<1> QED
  BY <1>1, ProductStands, PTL

\* What the properties of the content speak of
LEMMA TrimmedWellIs ==
    ASSUME IsTable(secs), TrimmedWell
    PROVE  Well(secs) /\ Judged(secs)
<1>1. DOMAIN secs = 1 .. Len(secs)
  BY TableIs
<1> QED
  BY <1>1 DEF TrimmedWell, Sheared, Misjudged, Well, Judged, MisjudgedIn, Loose, IsMade

LEMMA DoneIs ==
    ASSUME ProductInv, ShellLast, pc = "done", TrimmedWell
    PROVE  /\ Known(secs) /\ LiveImage /\ Inputs /\ (hinted <=> input.import > 0)
           /\ Judged(secs) /\ Reaches(secs, file)
           /\ input.import > 0 => input.iat \notin table
<1>1. pc \in Filed /\ IsTable(secs)
  BY LayoutIsSound DEF ProductInv, Filed, Sound
<1>2. WellCut
  BY <1>1, TrimmedWellIs DEF WellCut
<1> QED
  BY <1>1, <1>2, KnownNow DEF ProductInv, ContentInv, WellCut

\* A section of memory is where it was
LEMMA StandsInPlace ==
    ASSUME ShellLast, LiveImage, NEW ss, Known(ss), NEW i \in 1 .. Len(ss), ~IsMade(ss[i])
    PROVE  /\ i \in 1 .. Len(live) /\ live[i].at = ss[i].at /\ live[i].used = ss[i].used
           /\ ss[i].at = ss[i].va /\ ss[i].used <= ss[i].size
<1>1. InPlace(ss) /\ Len(live) \in Nat
  BY TableIs DEF Known, Placed, LiveImage, OfDebuggee
<1>2. i <= Len(live) /\ SameSection(ss[i], live[i])
  BY <1>1 DEF InPlace
<1>3. i \in 1 .. Len(live)
  BY <1>1, <1>2
<1>4. live[i].at = live[i].va /\ live[i].used <= live[i].size
  BY <1>3 DEF LiveImage, OfDebuggee, Recorded
<1> QED
  BY <1>2, <1>3, <1>4 DEF SameSection

LEMMA MemoryReaches ==
    ASSUME ProductInv, ShellLast, pc = "done", TrimmedWell,
           NEW i \in 1 .. Len(secs), ~IsMade(secs[i]), ~Zeroed(secs[i]),
           NEW o \in 0 .. secs[i].used - 1
    PROVE  o < secs[i].rsize /\ file[secs[i].raw + o] \in Intended(secs[i], o)
<1>1. /\ Known(secs) /\ LiveImage /\ Inputs /\ (hinted <=> input.import > 0)
      /\ Judged(secs) /\ Reaches(secs, file)
  BY DoneIs
<1>2. /\ IsTable(secs) /\ Follows(secs) /\ Buffered(secs) /\ dumped \in Nat
      /\ NothingCut(secs[i])
  BY <1>1 DEF Known
<1>3. /\ i \in 1 .. Len(live) /\ live[i].at = secs[i].at /\ live[i].used = secs[i].used
      /\ secs[i].at = secs[i].va /\ secs[i].used <= secs[i].size
  BY <1>1, StandsInPlace
<1>4. PICK v \in Nat, z \in Nat, w \in Nat, u \in Nat, t \in Int :
         /\ v = secs[i].va /\ z = secs[i].rsize /\ w = secs[i].size
         /\ u = secs[i].used /\ t = secs[i].raw
  BY <1>2, TableIs, SectionIs
<1>5. /\ v + w <= dumped /\ End(secs[i]) = v + w /\ u <= w /\ SA <= v
      /\ SA \in Nat /\ 3 < SA
  BY <1>2, <1>3, <1>4, PlaceOf, SectionsOfFiles DEF Buffered, End
<1>6. PICK a \in Nat : a = v + o
  BY <1>4
<1>7. o \in Nat /\ o < u /\ a \in v .. v + w - 1 /\ SA <= a /\ ~(a >= dumped) /\ a # 0
  <2>1. o \in 0 .. u - 1 /\ dumped \in Nat
    BY <1>2, <1>4
  <2>2. o \in Nat /\ o < u
    BY <2>1, <1>4
  <2>3. a < v + w /\ v <= a
    BY <2>2, <1>5, <1>6
  <2>4. a \in v .. v + w - 1 /\ SA <= a /\ a # 0
    BY <2>3, <1>5
  <2>5. ~(a >= dumped)
    BY <2>1, <2>3, <1>5
  <2> QED BY <2>2, <2>4, <2>5
<1>8. Live(a) = a
  <2>1. live[i] \in ToSet(live)
    BY <1>1, <1>3, TableIs DEF LiveImage, OfDebuggee
  <2>2. live[i].at = v /\ live[i].used = u
    BY <1>3, <1>4
  <2>3. a >= v /\ a < v + u
    BY <1>6, <1>7
  <2>4. \E s \in ToSet(live) : a >= s.at /\ a < s.at + s.used
    BY <2>1, <2>2, <2>3
  <2> QED BY <2>4 DEF Live
<1>9. DumpBuf(a) = IF hinted /\ a = input.iat THEN Hint ELSE a
  BY <1>7, <1>8 DEF DumpBuf
<1>10. o < secs[i].rsize
  <2>1. DumpBuf(a) # 0
    BY <1>7, <1>9 DEF Hint
  <2>2. a < secs[i].va + secs[i].rsize
    <3>1. secs[i].va .. End(secs[i]) - 1 = v .. v + w - 1
      BY <1>4, <1>5
    <3>2. a \in secs[i].va .. End(secs[i]) - 1
      BY <3>1, <1>7
    <3> QED BY <2>1, <3>2, <1>2 DEF NothingCut
  <2>3. v + o < v + z
    BY <2>2, <1>4, <1>6
  <2>4. o < z
    BY <2>3, <1>7
  <2> QED BY <2>4, <1>4
<1>11. o \in 0 .. secs[i].rsize - 1
  <2>1. o \in 0 .. z - 1
    BY <1>4, <1>7, <1>10
  <2> QED BY <2>1, <1>4
<1>12. Stands(file[secs[i].raw + o], DumpBuf(a))
  BY <1>1, <1>4, <1>6, <1>11 DEF Reaches, Held
<1>13. secs[i].at + o = a
  BY <1>3, <1>4, <1>6
<1>14. CASE hinted /\ a = input.iat
  <2>1. file[secs[i].raw + o] = -1
    BY <1>5, <1>9, <1>12, <1>14 DEF Stands, Hint
  <2>2. Intended(secs[i], o) = {Hint}
    BY <1>13, <1>14 DEF Intended, IsMade
  <2> QED BY <1>10, <2>1, <2>2 DEF Hint
<1>15. CASE ~(hinted /\ a = input.iat)
  <2>1. input.iat # a
    <3>1. CASE hinted
      BY <3>1, <1>15
    <3>2. CASE ~hinted
      BY <3>2, <1>1, <1>7 DEF Inputs
    <3> QED BY <3>1, <3>2
  <2>2. Intended(secs[i], o) = {a, -a}
    BY <1>13, <2>1 DEF Intended, IsMade
  <2>3. file[secs[i].raw + o] = a \/ file[secs[i].raw + o] = -a
    BY <1>9, <1>12, <1>15 DEF Stands
  <2> QED BY <1>10, <2>2, <2>3
<1> QED
  BY <1>14, <1>15

LEMMA PayloadReaches ==
    ASSUME ProductInv, ShellLast, pc = "done", TrimmedWell,
           NEW i \in 1 .. Len(secs), IsMade(secs[i]), NEW o \in 0 .. secs[i].rsize - 1
    PROVE  o < secs[i].rsize /\ file[secs[i].raw + o] \in Intended(secs[i], o)
<1>1. Known(secs) /\ Reaches(secs, file)
  BY DoneIs
<1>2. IsTable(secs) /\ MadeAreNamed(secs)
  BY <1>1 DEF Known
<1>3. secs[i].rsize \in Nat
  BY <1>2, TableIs, SectionIs
<1>4. o < secs[i].rsize
  BY <1>3
<1>5. Stands(file[secs[i].raw + o], Payload(secs[i].name))
  BY <1>1 DEF Reaches, Held
<1>6. Payload(secs[i].name) \in {1, 2, 3}
  BY <1>2, PayloadIs DEF MadeAreNamed, IsMade
<1>7. SA \in Nat /\ 3 < SA
  BY SectionsOfFiles
<1>8. file[secs[i].raw + o] = Payload(secs[i].name)
  BY <1>5, <1>6, <1>7 DEF Stands
<1> QED
  BY <1>4, <1>8 DEF Intended, IsMade

LEMMA DataIsThere ==
    ASSUME ProductInv, ShellLast
    PROVE  DataReachesFile
<1> SUFFICES ASSUME pc = "done", TrimmedWell, NEW s \in ToSet(secs), ~Zeroed(s),
                    NEW o \in 0 .. (IF s.kind = "made" THEN s.rsize ELSE s.used) - 1
             PROVE  o < s.rsize /\ file[s.raw + o] \in Intended(s, o)
  BY DEF DataReachesFile
<1>1. IsTable(secs)
  BY LayoutIsSound DEF ProductInv, Sound
<1>2. PICK i \in 1 .. Len(secs) : s = secs[i]
  BY <1>1, TableIs
<1>3. CASE IsMade(s)
  <2>1. o \in 0 .. s.rsize - 1
    BY <1>3 DEF IsMade
  <2> QED BY <2>1, <1>2, <1>3, PayloadReaches
<1>4. CASE ~IsMade(s)
  <2>1. o \in 0 .. s.used - 1
    BY <1>4 DEF IsMade
  <2> QED BY <2>1, <1>2, <1>4, MemoryReaches
<1> QED
  BY <1>3, <1>4

LEMMA ImportsAreThere ==
    ASSUME ProductInv, ShellLast
    PROVE  ImportsInPlace
<1> DEFINE holds(t) == t.kind = "data" /\ input.iat \in t.at .. t.at + t.size - 1
           s == CHOOSE t \in ToSet(secs) : holds(t)
<1> SUFFICES ASSUME pc = "done", TrimmedWell, input.import > 0
             PROVE  file[s.raw + input.iat - s.at] = Hint /\ s.va + input.iat - s.at \notin table
  BY Zenon DEF ImportsInPlace
<1>1. /\ Known(secs) /\ LiveImage /\ Inputs /\ hinted /\ Judged(secs)
      /\ Reaches(secs, file) /\ input.iat \notin table
  BY DoneIs
<1>2. IsTable(secs) /\ Follows(secs)
  BY <1>1 DEF Known
<1>3. PICK i \in 1 .. Len(secs) : TableAt(secs, i)
  BY <1>1, TableStands
<1>4. /\ ~IsMade(secs[i]) /\ secs[i].kind = "data" /\ secs[i].at = secs[i].va
      /\ input.iat = secs[i].va + 1 /\ input.iat < End(secs[i])
      /\ DumpBuf(input.iat) = Hint /\ 1 < secs[i].rsize
  BY <1>3 DEF TableAt
<1>5. \A k \in 1 .. Len(secs) : /\ secs[k].va \in Nat /\ secs[k].size \in Nat
                                /\ secs[k].rsize \in Nat /\ secs[k].raw \in Int
                                /\ End(secs[k]) = secs[k].va + secs[k].size
  BY <1>2, TableIs, SectionIs DEF End
<1>6. holds(secs[i]) /\ secs[i] \in ToSet(secs)
  BY <1>2, <1>4, <1>5, TableIs
<1>7. s \in ToSet(secs) /\ holds(s)
  BY <1>6
<1>8. PICK j \in 1 .. Len(secs) : s = secs[j]
  BY <1>2, <1>7, TableIs
<1> HIDE DEF s
<1>9. secs[j].at = secs[j].va
  <2>1. ~IsMade(secs[j])
    BY <1>7, <1>8 DEF IsMade
  <2> QED BY <2>1, <1>1, StandsInPlace
<1>10. input.iat \in Int /\ secs[j].va <= input.iat /\ input.iat < End(secs[j])
       /\ secs[i].va <= input.iat
  BY SMTT(60), <1>4, <1>5, <1>7, <1>8, <1>9
<1>11. \A k \in 1 .. Len(secs) : End(secs[k]) \in Int /\ secs[k].va \in Int
  BY SMTT(60), <1>5
<1>12. i = j
  <2>1. i < j => End(secs[i]) <= secs[j].va
    BY <1>2, PlaceOf
  <2>2. j < i => End(secs[j]) <= secs[i].va
    BY <1>2, PlaceOf
  <2>3. ~(i < j)
    BY <2>1, <1>4, <1>10, <1>11
  <2>4. ~(j < i)
    BY <2>2, <1>10, <1>11
  <2> QED BY <2>3, <2>4
<1>13. PICK t \in Int, v \in Nat : t = s.raw /\ v = s.va /\ v = s.at /\ input.iat = v + 1
  BY <1>4, <1>5, <1>8, <1>9, <1>12
<1>14. s.raw + input.iat - s.at = s.raw + 1 /\ s.va + input.iat - s.at = input.iat
  BY <1>13
<1>15. 1 \in 0 .. secs[i].rsize - 1
  BY <1>4, <1>5
<1>16. Stands(file[secs[i].raw + 1], Hint)
  BY <1>1, <1>4, <1>15 DEF Reaches, Held
<1>17. file[secs[i].raw + 1] = Hint
  <2>1. SA \in Nat
    BY SectionsOfFiles
  <2> QED BY <2>1, <1>16 DEF Stands, Hint
<1> QED
  BY <1>1, <1>8, <1>12, <1>14, <1>17

(* With the shell behind all other sections nothing is lost: every unit of *)
(* data the program had in memory is where the section table of the        *)
(* product says, whatever was removed, trimmed, rebased and packed; what   *)
(* was appended is there; and each slot of the import table holds its hint *)
(* with no relocation applied to it.  (A section behind the shell is moved *)
(* in the table only, its data is read from where it was: then it is not   *)
(* so.)                                                                    *)
THEOREM WhatWasInMemoryIsThere ==
    ASSUME NothingAppendedIsHuge, ShellLast
    PROVE  Spec => []NothingLost
<1>1. ASSUME ProductInv PROVE NothingLost
  BY <1>1, DataIsThere, ImportsAreThere DEF NothingLost
<1> QED
  BY <1>1, ProductStands, PTL
=============================================================================
