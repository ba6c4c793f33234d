-------------------------- MODULE FrontEnds_proofs --------------------------
(***************************************************************************)
(* For every value of the constants: of the image dump of a running process, *)
(* what has settled was one moment of the process, and a sample in hand is    *)
(* written; what a front-end asks for and the guided mode shows is what the   *)
(* parser reads; what the guided mode suggests passes the gate of the unpack  *)
(* command; and of the run a front-end starts, the verdict it shows is true.  *)
(***************************************************************************)
EXTENDS Static, RunJob, DataInduction, FiniteSetTheorems

-----------------------------------------------------------------------------
(* The image dump *)

Form == Nat

Outcomes == {"none", "once", "settled", "timeout", "gone"}

(* Whether the sampler waits is whatever the command line says.            *)
SamplerType(wait) ==
    [pc : {"idle", "read", "carve"}, wait : {wait}, known : BOOLEAN, n : Nat,
     k : Nat, cur : Seq(Form), prev : Seq(Form), same : Nat,
     between : [Pages -> Form] \cup {<<>>}, whole : BOOLEAN, outcome : Outcomes]

Sampling == dump.pc \in {"idle", "read", "carve"}

DumpTyped ==
    /\ dump.pc \in {"off", "idle", "read", "carve", "over"}
    /\ alive \in BOOLEAN
    /\ Sampling =>
        /\ dump \in SamplerType(dump.wait)
        /\ mem \in [first : [Pages -> Form], now : [Pages -> Form]]

(* A sample is as long as the image, and the present one as far as it got. *)
SampleLengths ==
    /\ dump.pc \in {"idle", "read"} =>
        /\ dump.prev = <<>> \/ Len(dump.prev) = PageCount
        /\ dump.prev = <<>> => dump.same = 0
    /\ dump.pc = "read" =>
        /\ dump.k \in 1 .. PageCount + 1
        /\ Len(dump.cur) = dump.k - 1
        /\ dump.between \in [Pages -> Form]

(* While the process lives its pages only go forward.  So the sample       *)
(* before this one is behind what was there between the two, and that is   *)
(* behind every page that this one has read since.                         *)
BehindEachOther ==
    alive =>
        /\ dump.pc = "idle" /\ dump.prev # <<>> =>
            \A p \in Pages : dump.prev[p] <= Content(p)
        /\ dump.pc = "read" =>
            /\ dump.prev # <<>> =>
                \A p \in Pages : dump.prev[p] <= dump.between[p]
            /\ \A p \in Pages : dump.between[p] <= Content(p)
            /\ \A p \in 1 .. dump.k - 1 :
                dump.between[p] <= dump.cur[p] /\ dump.cur[p] <= Content(p)

DumpInv ==
    /\ DumpTyped
    /\ SampleLengths
    /\ BehindEachOther
    /\ SettledIsASnapshot
    /\ dump.pc = "carve" => dump.outcome # "error"

-----------------------------------------------------------------------------
LEMMA DumpInvInit == Init => DumpInv
BY DEF Init, DumpInit, DumpInv, DumpTyped, Sampling, SampleLengths,
       BehindEachOther, SettledIsASnapshot

(* The commands that have nothing to do with the dump.                     *)
LEMMA DumpUntouched == DumpInv /\ UNCHANGED dumpVars => DumpInv'
BY DEF dumpVars, DumpInv, DumpTyped, Sampling, SamplerType, SampleLengths,
       BehindEachOther, SettledIsASnapshot, Content

LEMMA ContentType ==
    ASSUME mem \in [first : [Pages -> Form], now : [Pages -> Form]],
           NEW p \in Pages
    PROVE  Content(p) \in Nat
BY DEF Content, Form

(* The process goes forward, or ends.                                      *)
LEMMA ProcessKeeps == DumpInv /\ (Decrypt \/ Commit \/ Exit) => DumpInv'
<1> SUFFICES ASSUME DumpInv, Decrypt \/ Commit \/ Exit PROVE DumpInv'
  OBVIOUS
<1>1. dump.pc \in {"idle", "read"} /\ dump' = dump
  BY DEF Decrypt, Commit, Exit
<1>2. /\ dump \in SamplerType(dump.wait)
      /\ mem \in [first : [Pages -> Form], now : [Pages -> Form]]
  BY <1>1 DEF DumpInv, DumpTyped, Sampling
<1>3. /\ mem' \in [first : [Pages -> Form], now : [Pages -> Form]]
      /\ alive' => \A p \in Pages : Content(p) <= Content(p)'
  <2>1. CASE Decrypt
    <3>1. PICK p \in PayloadPages :
            mem' = [mem EXCEPT !.now[p] = IF @ = 0 THEN 2 ELSE @ + 1]
      BY <2>1 DEF Decrypt
    <3>2. /\ mem'.first = mem.first
          /\ mem'.now = [mem.now EXCEPT
                           ![p] = IF mem.now[p] = 0 THEN 2 ELSE mem.now[p] + 1]
          /\ mem' = [first |-> mem'.first, now |-> mem'.now]
      BY <1>2, <3>1
    <3>3. mem'.now \in [Pages -> Form]
      <4>1. mem.now \in [Pages -> Nat]
        BY <1>2 DEF Form
      <4>2. CASE p \in Pages
        <5>1. (IF mem.now[p] = 0 THEN 2 ELSE mem.now[p] + 1) \in Nat
          BY <4>1, <4>2
        <5> QED
          BY <3>2, <4>1, <5>1 DEF Form
      <4>3. CASE p \notin Pages
        BY <3>2, <4>1, <4>3 DEF Form
      <4> QED
        BY <4>2, <4>3
    <3>4. \A q \in Pages : mem.now[q] <= mem'.now[q]
      BY <1>2, <3>2 DEF Form
    <3>5. mem' \in [first : [Pages -> Form], now : [Pages -> Form]]
      BY <1>2, <3>2, <3>3
    <3>6. committed' = committed /\ alive' = alive
      BY <2>1 DEF Decrypt
    <3>7. ASSUME NEW q \in Pages PROVE Content(q) <= Content(q)'
      BY <3>4, <3>6 DEF Content
    <3> QED
      BY <3>5, <3>7
  <2>2. CASE Commit
    BY <1>2, <2>2 DEF Commit, Content, Form
  <2>3. CASE Exit
    BY <1>2, <2>3 DEF Exit
  <2> QED
    BY <2>1, <2>2, <2>3
<1>4. alive' => alive
  BY DEF Decrypt, Commit, Exit
<1>5. \A p \in Pages : Content(p) \in Nat /\ Content(p)' \in Nat
  BY <1>2, <1>3 DEF Content, Form
<1>6. BehindEachOther'
  <2> SUFFICES ASSUME alive' PROVE BehindEachOther'
    BY DEF BehindEachOther
  <2>1. alive /\ BehindEachOther
    BY <1>4 DEF DumpInv
  <2>2. CASE dump.pc = "idle"
    <3>1. ASSUME dump.prev # <<>>, NEW p \in Pages
          PROVE  dump.prev[p] <= Content(p)'
      <4>1. dump.prev[p] \in Nat
        <5>1. dump.prev \in Seq(Nat) /\ Len(dump.prev) = PageCount
          BY <1>2, <2>2, <3>1 DEF DumpInv, SampleLengths, SamplerType, Form
        <5> QED
          BY <5>1, SamplerAssumption DEF Pages
      <4>2. dump.prev[p] <= Content(p) /\ Content(p) <= Content(p)'
        BY <1>3, <2>1, <2>2, <3>1 DEF BehindEachOther
      <4> QED
        BY <1>5, <4>1, <4>2
    <3> QED
      BY <1>1, <2>2, <3>1 DEF BehindEachOther
  <2>3. CASE dump.pc = "read"
    <3>1. /\ dump.k \in 1 .. PageCount + 1 /\ Len(dump.cur) = dump.k - 1
          /\ dump.between \in [Pages -> Form] /\ dump.cur \in Seq(Form)
      BY <1>2, <2>3 DEF DumpInv, SampleLengths, SamplerType
    <3>2. ASSUME NEW p \in Pages PROVE dump.between[p] <= Content(p)'
      <4>1. dump.between[p] <= Content(p) /\ Content(p) <= Content(p)'
        BY <1>3, <2>1, <2>3 DEF BehindEachOther
      <4> QED
        BY <1>5, <3>1, <4>1 DEF Form
    <3>3. ASSUME NEW p \in 1 .. dump.k - 1
          PROVE  dump.between[p] <= dump.cur[p] /\ dump.cur[p] <= Content(p)'
      <4>1. p \in Pages /\ dump.cur[p] \in Nat
        BY <3>1, SamplerAssumption DEF Pages, Form
      <4>2. /\ dump.between[p] <= dump.cur[p] /\ dump.cur[p] <= Content(p)
            /\ Content(p) <= Content(p)'
        BY <1>3, <2>1, <2>3, <4>1 DEF BehindEachOther
      <4> QED
        BY <1>5, <4>1, <4>2
    <3> QED
      BY <1>1, <2>1, <2>3, <3>2, <3>3 DEF BehindEachOther
  <2> QED
    BY <1>1, <2>2, <2>3
<1>7. DumpTyped' /\ SampleLengths'
  BY <1>1, <1>2, <1>3
  DEF Decrypt, Commit, Exit, DumpInv, DumpTyped, Sampling, SamplerType,
      SampleLengths
<1> QED
  BY <1>1, <1>6, <1>7 DEF DumpInv, SettledIsASnapshot

-----------------------------------------------------------------------------
(* The sampler, from the command that starts it to the product.            *)
LEMMA BeginKeeps == DumpInv /\ StartDump => DumpInv'
<1> SUFFICES ASSUME DumpInv, StartDump PROVE DumpInv'
  OBVIOUS
<1>1. PICK known \in BOOLEAN :
        dump' = [pc |-> "idle", wait |-> cmd.wait, known |-> known, n |-> 0,
                 k |-> 0, cur |-> <<>>, prev |-> <<>>, same |-> 0,
                 between |-> <<>>, whole |-> FALSE, outcome |-> "none"]
  BY Zenon DEF StartDump, BeginDump
<1>2. mem' \in [first : [Pages -> Form], now : [Pages -> Form]]
  <2>1. PICK inFile \in BOOLEAN :
          LET first == [p \in Pages |->
                          IF p \in PayloadPages /\ ~inFile THEN 0 ELSE 1]
          IN mem' = [first |-> first, now |-> first]
    BY Zenon DEF StartDump, BeginDump
  <2>2. [p \in Pages |-> IF p \in PayloadPages /\ ~inFile THEN 0 ELSE 1]
            \in [Pages -> Form]
    BY DEF Form
  <2> QED
    BY <2>1, <2>2
<1>3. dump' \in SamplerType(dump'.wait)
  <2>1. /\ <<>> \in Seq(Form) /\ <<>> \in [Pages -> Form] \cup {<<>>}
        /\ 0 \in Nat /\ "none" \in Outcomes
    BY DEF Outcomes
  <2>2. known \in BOOLEAN /\ FALSE \in BOOLEAN
        /\ "idle" \in {"idle", "read", "carve"}
    OBVIOUS
  <2>3. dump' = [pc |-> "idle", wait |-> dump'.wait, known |-> known, n |-> 0,
                 k |-> 0, cur |-> <<>>, prev |-> <<>>, same |-> 0,
                 between |-> <<>>, whole |-> FALSE, outcome |-> "none"]
    BY <1>1
  <2>4. \A w : [pc |-> "idle", wait |-> w, known |-> known, n |-> 0, k |-> 0,
                cur |-> <<>>, prev |-> <<>>, same |-> 0, between |-> <<>>,
                whole |-> FALSE, outcome |-> "none"] \in SamplerType(w)
    BY <2>1, <2>2 DEF SamplerType
  <2> QED
    BY <2>3, <2>4, Zenon
<1>4. alive' \in BOOLEAN
  BY Zenon DEF DumpInv, DumpTyped, StartDump, BeginDump
<1> QED
  BY <1>1, <1>2, <1>3, <1>4
  DEF DumpInv, DumpTyped, Sampling, SampleLengths, BehindEachOther,
      SettledIsASnapshot

LEMMA BeginSampleKeeps == DumpInv /\ BeginSample => DumpInv'
<1> SUFFICES ASSUME DumpInv, BeginSample PROVE DumpInv'
  OBVIOUS
<1>1. /\ dump.pc = "idle" /\ alive /\ UNCHANGED <<mem, committed, alive>>
      /\ dump \in SamplerType(dump.wait)
      /\ mem \in [first : [Pages -> Form], now : [Pages -> Form]]
  BY DEF BeginSample, DumpInv, DumpTyped, Sampling
<1>2. /\ dump'.pc = "read" /\ dump'.k = 1 /\ dump'.cur = <<>>
      /\ dump'.between = [p \in Pages |-> Content(p)]
      /\ dump'.prev = dump.prev /\ dump'.same = dump.same
      /\ dump'.outcome = dump.outcome
  BY <1>1 DEF BeginSample, SamplerType
<1>3. [p \in Pages |-> Content(p)] \in [Pages -> Form]
  BY <1>1, ContentType DEF Form
<1>4. dump' \in SamplerType(dump'.wait)
  <2>1. dump' = [pc |-> "read", wait |-> dump.wait, known |-> dump.known,
                 n |-> dump.n + 1, k |-> 1, cur |-> <<>>, prev |-> dump.prev,
                 same |-> dump.same, between |-> [p \in Pages |-> Content(p)],
                 whole |-> dump.whole, outcome |-> dump.outcome]
    BY <1>1 DEF BeginSample, SamplerType
  <2>2. /\ dump.n + 1 \in Nat /\ <<>> \in Seq(Form)
        /\ dump.known \in BOOLEAN /\ dump.prev \in Seq(Form)
        /\ dump.same \in Nat /\ dump.whole \in BOOLEAN
        /\ dump.outcome \in Outcomes
    BY <1>1 DEF SamplerType
  <2> QED
    BY <1>3, <2>1, <2>2 DEF SamplerType
<1>5. SampleLengths'
  BY <1>1, <1>2, <1>3, SamplerAssumption DEF DumpInv, SampleLengths
<1>6. BehindEachOther'
  <2>1. \A p \in Pages : Content(p) \in Nat /\ Content(p)' = Content(p)
    BY <1>1, ContentType DEF Content
  <2>2. dump'.prev # <<>> =>
          \A p \in Pages : dump'.prev[p] <= dump'.between[p]
    BY <1>1, <1>2 DEF DumpInv, BehindEachOther
  <2>3. \A p \in Pages : dump'.between[p] <= Content(p)'
    BY <1>2, <2>1
  <2>4. 1 .. dump'.k - 1 = {}
    BY <1>2
  <2> QED
    BY <1>2, <2>2, <2>3, <2>4 DEF BehindEachOther
<1> QED
  BY <1>1, <1>2, <1>4, <1>5, <1>6
  DEF DumpInv, DumpTyped, Sampling, SettledIsASnapshot

LEMMA ReadPageKeeps == DumpInv /\ ReadPage => DumpInv'
<1> SUFFICES ASSUME DumpInv, ReadPage PROVE DumpInv'
  OBVIOUS
<1>1. /\ dump.pc = "read" /\ dump.k <= PageCount
      /\ UNCHANGED <<mem, committed, alive>>
      /\ dump \in SamplerType(dump.wait)
      /\ mem \in [first : [Pages -> Form], now : [Pages -> Form]]
  BY DEF ReadPage, DumpInv, DumpTyped, Sampling
<1>2. /\ dump.k \in 1 .. PageCount + 1 /\ Len(dump.cur) = dump.k - 1
      /\ dump.between \in [Pages -> Form]
      /\ dump.cur \in Seq(Nat) /\ dump.k \in Pages
  <2>1. dump.k \in 1 .. PageCount + 1 /\ Len(dump.cur) = dump.k - 1
        /\ dump.between \in [Pages -> Form]
    BY <1>1 DEF DumpInv, SampleLengths
  <2>2. dump.cur \in Seq(Nat)
    BY <1>1 DEF SamplerType, Form
  <2>3. dump.k \in Pages
    BY <1>1, <2>1, SamplerAssumption DEF Pages
  <2> QED
    BY <2>1, <2>2, <2>3
<1>3. Content(dump.k) \in Nat
  BY <1>1, <1>2, ContentType
<1>4. /\ dump'.pc = "read" /\ dump'.k = dump.k + 1
      /\ dump'.cur = Append(dump.cur, Content(dump.k))
      /\ dump'.between = dump.between
      /\ dump'.prev = dump.prev /\ dump'.same = dump.same
      /\ dump'.outcome = dump.outcome
  BY <1>1 DEF ReadPage, SamplerType
<1>5. /\ dump'.cur \in Seq(Nat) /\ Len(dump'.cur) = dump.k
      /\ dump'.cur[dump.k] = Content(dump.k)
      /\ \A p \in 1 .. dump.k - 1 : dump'.cur[p] = dump.cur[p]
  BY <1>2, <1>3, <1>4
<1>6. dump' \in SamplerType(dump'.wait)
  <2>1. dump' = [pc |-> "read", wait |-> dump.wait, known |-> dump.known,
                 n |-> dump.n, k |-> dump.k + 1, cur |-> dump'.cur,
                 prev |-> dump.prev, same |-> dump.same,
                 between |-> dump.between, whole |-> dump.whole,
                 outcome |-> dump.outcome]
    BY <1>1 DEF ReadPage, SamplerType
  <2>2. dump.k + 1 \in Nat /\ dump'.cur \in Seq(Form)
    BY <1>2, <1>5 DEF Form
  <2> QED
    BY <1>1, <2>1, <2>2 DEF SamplerType
<1>7. SampleLengths'
  <2>1. /\ dump.prev = <<>> \/ Len(dump.prev) = PageCount
        /\ dump.prev = <<>> => dump.same = 0
    BY <1>1 DEF DumpInv, SampleLengths
  <2>2. dump.k + 1 \in 1 .. PageCount + 1 /\ dump.k = (dump.k + 1) - 1
    BY <1>1, <1>2, SamplerAssumption
  <2> QED
    BY <1>2, <1>4, <1>5, <2>1, <2>2 DEF SampleLengths
<1>8. BehindEachOther'
  <2> SUFFICES ASSUME alive PROVE BehindEachOther'
    BY <1>1 DEF BehindEachOther
  <2>1. /\ dump.prev # <<>> =>
            \A p \in Pages : dump.prev[p] <= dump.between[p]
        /\ \A p \in Pages : dump.between[p] <= Content(p)
        /\ \A p \in 1 .. dump.k - 1 :
            dump.between[p] <= dump.cur[p] /\ dump.cur[p] <= Content(p)
    BY <1>1 DEF DumpInv, BehindEachOther
  <2>2. \A p \in Pages : Content(p)' = Content(p)
    BY <1>1 DEF Content
  <2>3. ASSUME NEW p \in 1 .. dump.k
        PROVE  dump.between[p] <= dump'.cur[p] /\ dump'.cur[p] <= Content(p)
    <3>1. CASE p = dump.k
      BY <1>2, <1>3, <1>5, <2>1, <3>1
    <3>2. CASE p \in 1 .. dump.k - 1
      BY <1>5, <2>1, <3>2
    <3> QED
      BY <1>2, <3>1, <3>2
  <2>4. 1 .. dump'.k - 1 = 1 .. dump.k /\ 1 .. dump.k \subseteq Pages
    <3>1. dump'.k - 1 = dump.k
      BY <1>2, <1>4
    <3> QED
      BY <1>1, <1>2, <3>1, SamplerAssumption DEF Pages
  <2> QED
    BY <1>4, <2>1, <2>2, <2>3, <2>4 DEF BehindEachOther
<1> QED
  BY <1>1, <1>4, <1>6, <1>7, <1>8
  DEF DumpInv, DumpTyped, Sampling, SettledIsASnapshot

(* What is written is of the type of the sampler and no error.             *)
LEMMA WriteType ==
    ASSUME dump \in SamplerType(dump.wait),
           NEW outcome \in Outcomes, NEW image \in Seq(Form)
    PROVE  /\ Write(outcome, image) \in SamplerType(dump.wait)
           /\ Write(outcome, image).pc = "carve"
           /\ Write(outcome, image).wait = dump.wait
           /\ Write(outcome, image).outcome = outcome
           /\ Write(outcome, image).prev = image
           /\ Write(outcome, image).between = dump.between
           /\ Write(outcome, image).whole = dump.whole
<1>1. Write(outcome, image) =
        [pc |-> "carve", wait |-> dump.wait, known |-> dump.known, n |-> 0,
         k |-> 0, cur |-> <<>>, prev |-> image, same |-> 0,
         between |-> dump.between, whole |-> dump.whole, outcome |-> outcome]
  <2> DEFINE w == Write(outcome, image)
  <2>1. DOMAIN dump = {"pc", "wait", "known", "n", "k", "cur", "prev", "same",
                       "between", "whole", "outcome"}
    BY DEF SamplerType
  <2>2. DOMAIN w = DOMAIN dump
    BY <2>1 DEF Write
  <2>3. /\ w.pc = "carve" /\ w.wait = dump.wait /\ w.known = dump.known
        /\ w.n = 0 /\ w.k = 0 /\ w.cur = <<>> /\ w.prev = image /\ w.same = 0
        /\ w.between = dump.between /\ w.whole = dump.whole
        /\ w.outcome = outcome
    BY <2>1 DEF Write
  <2>4. w = [x \in DOMAIN w |-> w[x]]
    BY DEF Write
  <2> QED
    BY <2>1, <2>2, <2>3, <2>4
<1>2. /\ dump.known \in BOOLEAN /\ dump.whole \in BOOLEAN
      /\ dump.between \in [Pages -> Form] \cup {<<>>} /\ <<>> \in Seq(Form)
  BY DEF SamplerType
<1> QED
  BY <1>1, <1>2 DEF SamplerType

LEMMA SampleFailsKeeps == DumpInv /\ SampleFails => DumpInv'
<1> SUFFICES ASSUME DumpInv, SampleFails PROVE DumpInv'
  OBVIOUS
<1>1. /\ dump.pc = "idle" /\ UNCHANGED <<mem, committed, alive>>
      /\ dump \in SamplerType(dump.wait)
      /\ mem \in [first : [Pages -> Form], now : [Pages -> Form]]
  BY DEF SampleFails, DumpInv, DumpTyped, Sampling
<1>2. CASE dump.prev = <<>>
  <2>1. dump'.pc = "over" /\ dump'.prev = <<>>
    BY <1>1, <1>2 DEF SampleFails, SamplerType
  <2> QED
    BY <1>1, <2>1
    DEF DumpInv, DumpTyped, Sampling, SampleLengths, BehindEachOther,
        SettledIsASnapshot
<1>3. CASE dump.prev # <<>>
  <2>1. dump' = Write("gone", dump.prev)
    BY <1>3 DEF SampleFails
  <2>2. "gone" \in Outcomes /\ dump.prev \in Seq(Form)
    BY <1>1 DEF Outcomes, SamplerType
  <2>3. /\ dump'.pc = "carve" /\ dump'.outcome = "gone"
        /\ dump'.wait = dump.wait /\ dump' \in SamplerType(dump.wait)
    BY <1>1, <2>1, <2>2, WriteType
  <2> QED
    BY <1>1, <2>3
    DEF DumpInv, DumpTyped, Sampling, SampleLengths, BehindEachOther,
        SettledIsASnapshot
<1> QED
  BY <1>2, <1>3

(* Two equal samples of a process that lived through the second: what was  *)
(* there between them lies between the two, and is the same.               *)
LEMMA EqualSamples ==
    ASSUME DumpInv, dump.pc = "read", dump.k > PageCount, alive,
           Same(dump.cur) >= 1
    PROVE  dump.cur = [p \in Pages |-> dump.between[p]]
<1>1. /\ dump.k = PageCount + 1 /\ Len(dump.cur) = PageCount
      /\ dump.between \in [Pages -> Nat]
      /\ PageCount \in Nat
  BY SamplerAssumption DEF DumpInv, SampleLengths, Form
<1>2. dump.cur \in Seq(Nat) /\ dump.prev \in Seq(Nat) /\ dump.same \in Nat
  BY DEF DumpInv, DumpTyped, Sampling, SamplerType, Form
<1>3. dump.prev # <<>> /\ dump.prev = dump.cur
  <2>1. dump.prev = <<>> => dump.same = 0
    BY DEF DumpInv, SampleLengths
  <2>2. dump.cur # <<>>
    BY <1>1, SamplerAssumption
  <2>3. CASE dump.prev = <<>>
    BY <2>1, <2>2, <2>3 DEF Same
  <2>4. CASE dump.prev # <<>>
    BY <2>4 DEF Same
  <2> QED
    BY <2>3, <2>4
<1>4. ASSUME NEW p \in Pages PROVE dump.cur[p] = dump.between[p]
  <2>1. p \in 1 .. dump.k - 1
    BY <1>1 DEF Pages
  <2>2. dump.prev[p] <= dump.between[p] /\ dump.between[p] <= dump.cur[p]
    BY <1>3, <2>1 DEF DumpInv, BehindEachOther
  <2>3. dump.cur[p] \in Nat /\ dump.between[p] \in Nat
    BY <1>1, <1>2 DEF Pages
  <2> QED
    BY <1>3, <2>2, <2>3
<1>5. dump.cur \in [Pages -> Nat]
  BY <1>1, <1>2 DEF Pages
<1> QED
  BY <1>4, <1>5

LEMMA SampleDoneKeeps == DumpInv /\ SampleDone => DumpInv'
<1> SUFFICES ASSUME DumpInv, SampleDone PROVE DumpInv'
  OBVIOUS
<1>1. /\ dump.pc = "read" /\ dump.k > PageCount
      /\ UNCHANGED <<mem, committed, alive>>
      /\ dump \in SamplerType(dump.wait)
      /\ mem \in [first : [Pages -> Form], now : [Pages -> Form]]
  BY DEF SampleDone, DumpInv, DumpTyped, Sampling
<1>2. /\ dump.cur \in Seq(Form) /\ Len(dump.cur) = PageCount
      /\ dump.k = PageCount + 1
  BY <1>1, SamplerAssumption DEF DumpInv, SampleLengths, SamplerType
<1>3. ASSUME NEW outcome \in {"once", "settled", "timeout"},
             dump' = [Write(outcome, dump.cur) EXCEPT !.whole = alive],
             outcome = "settled" => Same(dump.cur) >= 1
      PROVE  DumpInv'
  <2> DEFINE w == Write(outcome, dump.cur)
  <2>1. outcome \in Outcomes /\ outcome # "error" /\ alive \in BOOLEAN
    BY DEF Outcomes, DumpInv, DumpTyped
  <2>2. /\ w \in SamplerType(dump.wait) /\ w.pc = "carve" /\ w.wait = dump.wait
        /\ w.outcome = outcome /\ w.prev = dump.cur
        /\ w.between = dump.between
    BY <1>1, <1>2, <2>1, WriteType
  <2> HIDE DEF w
  <2>3. dump' = [w EXCEPT !.whole = alive]
    BY <1>3 DEF w
  <2>4. /\ dump' \in SamplerType(dump.wait) /\ dump'.pc = "carve"
        /\ dump'.wait = dump.wait /\ dump'.outcome = outcome
        /\ dump'.prev = dump.cur /\ dump'.between = dump.between
        /\ dump'.whole = alive
    BY <2>1, <2>2, <2>3 DEF SamplerType
  <2>5. SettledIsASnapshot'
    <3>1. outcome = "settled" /\ alive =>
            dump.cur = [p \in Pages |-> dump.between[p]]
      BY <1>1, <1>3, EqualSamples
    <3> QED
      BY <2>4, <3>1 DEF SettledIsASnapshot
  <2> QED
    BY <1>1, <2>1, <2>4, <2>5
    DEF DumpInv, DumpTyped, Sampling, SampleLengths, BehindEachOther
(* Another sample: this one becomes the one before.                        *)
<1>4. ASSUME dump' = [dump EXCEPT !.pc = "idle", !.prev = dump.cur,
                                  !.cur = <<>>, !.k = 0,
                                  !.same = Same(dump.cur), !.whole = alive]
      PROVE  DumpInv'
  <2>1. alive \in BOOLEAN /\ <<>> \in Seq(Form) /\ Same(dump.cur) \in Nat
    BY <1>1 DEF DumpInv, DumpTyped, Same, SamplerType
  <2>2. /\ dump' \in SamplerType(dump.wait) /\ dump'.pc = "idle"
        /\ dump'.wait = dump.wait /\ dump'.prev = dump.cur
    BY <1>1, <1>2, <1>4, <2>1 DEF SamplerType
  <2>3. dump'.prev # <<>> /\ Len(dump'.prev) = PageCount
    BY <1>2, <2>2, SamplerAssumption
  <2>4. ASSUME alive, NEW p \in Pages PROVE dump.cur[p] <= Content(p)'
    <3>1. p \in 1 .. dump.k - 1
      BY <1>2, SamplerAssumption DEF Pages
    <3>2. dump.cur[p] <= Content(p)
      BY <1>1, <2>4, <3>1 DEF DumpInv, BehindEachOther
    <3> QED
      BY <1>1, <3>2 DEF Content
  <2>5. BehindEachOther'
    BY <1>1, <2>2, <2>4 DEF BehindEachOther
  <2> QED
    BY <1>1, <2>1, <2>2, <2>3, <2>5
    DEF DumpInv, DumpTyped, Sampling, SampleLengths, SettledIsASnapshot
<1> QED
  BY <1>3, <1>4 DEF SampleDone

LEMMA CarveKeeps == DumpInv /\ Carve => DumpInv'
<1> SUFFICES ASSUME DumpInv, Carve PROVE DumpInv'
  OBVIOUS
<1>1. /\ dump.pc = "carve" /\ UNCHANGED <<mem, committed, alive>>
      /\ dump \in SamplerType(dump.wait) /\ dump.outcome # "error"
  BY DEF Carve, DumpInv, DumpTyped, Sampling
<1>2. dump'.pc = "over" /\ dump'.outcome = dump.outcome
  BY <1>1 DEF Carve, SamplerType
<1> QED
  BY <1>1, <1>2
  DEF DumpInv, DumpTyped, Sampling, SampleLengths, BehindEachOther,
      SettledIsASnapshot

LEMMA DumpInvStep == DumpInv /\ [Next]_vars => DumpInv'
<1> SUFFICES ASSUME DumpInv, [Next]_vars PROVE DumpInv'
  OBVIOUS
<1>1. CASE DumpNext
  BY <1>1, ProcessKeeps, BeginSampleKeeps, ReadPageKeeps, SampleFailsKeeps,
     SampleDoneKeeps, CarveKeeps
  DEF DumpNext
<1>2. CASE StartDump
  BY <1>2, BeginKeeps
<1>3. CASE UNCHANGED dumpVars
  BY <1>3, DumpUntouched
<1>4. UpxReturns \/ DumpReturns \/ StartUpx => UNCHANGED dumpVars
  BY Zenon DEF UpxReturns, DumpReturns, StartUpx, dumpVars
<1> QED
  BY <1>1, <1>2, <1>3, <1>4 DEF Next, vars

-----------------------------------------------------------------------------
LEMMA DumpInvariant == Spec => []DumpInv
BY DumpInvInit, DumpInvStep, PTL DEF Spec

(* Two equal samples are a moment of the process, for any number of pages, *)
(* payloads and samples (dump_stable_inner).                               *)
THEOREM SettledWasOneMoment == Spec => []SettledIsASnapshot
<1>1. DumpInv => SettledIsASnapshot
  BY DEF DumpInv
<1> QED
  BY <1>1, DumpInvariant, PTL

(* Where the last sample that was read to its end is to be found.          *)
TakenIsKept ==
    /\ dump.pc = "idle" => taken = dump.prev
    /\ dump.pc = "read" =>
        taken = IF dump.k > PageCount THEN dump.cur ELSE dump.prev
    /\ dump.pc = "carve" => taken # <<>> /\ taken = dump.prev
    /\ dump.pc = "over" /\ dump.outcome = "error" => taken = <<>>

LEMMA TakenStarts == Init => TakenIsKept
BY DEF Init, DumpInit, TakenIsKept

LEMMA TakenStays == TakenIsKept /\ UNCHANGED <<dump, taken>> => TakenIsKept'
BY DEF TakenIsKept

(* Reading, and what becomes of a sample.                                  *)
LEMMA SamplerKeepsTaken ==
    ASSUME DumpInv, TakenIsKept,
           BeginSample \/ ReadPage \/ SampleFails \/ SampleDone \/ Carve
    PROVE  TakenIsKept'
<1>1. /\ dump \in SamplerType(dump.wait) /\ PageCount \in Nat \ {0}
      /\ dump.pc \in {"idle", "read", "carve"}
  BY SamplerAssumption
  DEF BeginSample, ReadPage, SampleFails, SampleDone, Carve, DumpInv, DumpTyped,
      Sampling
<1>2. CASE BeginSample
  <2>1. /\ dump.pc = "idle" /\ UNCHANGED taken /\ dump'.pc = "read"
        /\ dump'.k = 1 /\ dump'.prev = dump.prev
    BY <1>1, <1>2 DEF BeginSample, SamplerType
  <2> QED
    BY <1>1, <2>1 DEF TakenIsKept
<1>3. CASE ReadPage
  <2>1. /\ dump.pc = "read" /\ dump.k <= PageCount /\ dump.k \in Nat
        /\ dump'.pc = "read" /\ dump'.k = dump.k + 1 /\ dump'.prev = dump.prev
        /\ taken' = IF dump.k = PageCount THEN dump'.cur ELSE taken
    BY <1>1, <1>3 DEF ReadPage, SamplerType
  <2> QED
    BY <1>1, <2>1 DEF TakenIsKept
<1>4. CASE SampleFails
  <2>1. dump.pc = "idle" /\ UNCHANGED taken /\ taken = dump.prev
    BY <1>4 DEF SampleFails, TakenIsKept
  <2>2. CASE dump.prev = <<>>
    <3>1. dump'.pc = "over"
      BY <1>1, <1>4, <2>2 DEF SampleFails, SamplerType
    <3> QED
      BY <2>1, <2>2, <3>1 DEF TakenIsKept
  <2>3. CASE dump.prev # <<>>
    <3>1. dump'.pc = "carve" /\ dump'.prev = dump.prev
      <4>1. "gone" \in Outcomes /\ dump.prev \in Seq(Form)
        BY <1>1 DEF Outcomes, SamplerType
      <4> QED
        BY <1>1, <1>4, <2>3, <4>1, WriteType DEF SampleFails
    <3> QED
      BY <2>1, <2>3, <3>1 DEF TakenIsKept
  <2> QED
    BY <2>2, <2>3
<1>5. CASE SampleDone
  <2>1. /\ dump.pc = "read" /\ UNCHANGED taken /\ taken = dump.cur
        /\ dump.cur \in Seq(Form)
    BY <1>1, <1>5 DEF SampleDone, TakenIsKept, SamplerType
  <2>2. dump.cur # <<>>
    BY <1>1, <1>5, <2>1 DEF SampleDone, DumpInv, SampleLengths
  <2>3. \/ dump'.pc = "carve" /\ dump'.prev = dump.cur
        \/ dump'.pc = "idle" /\ dump'.prev = dump.cur
    <3>1. ASSUME NEW outcome \in {"once", "settled", "timeout"},
                 dump' = [Write(outcome, dump.cur) EXCEPT !.whole = alive]
          PROVE  dump'.pc = "carve" /\ dump'.prev = dump.cur
      <4> DEFINE w == Write(outcome, dump.cur)
      <4>1. w \in SamplerType(dump.wait) /\ w.pc = "carve" /\ w.prev = dump.cur
        BY <1>1, <2>1, WriteType DEF Outcomes
      <4> HIDE DEF w
      <4>2. dump' = [w EXCEPT !.whole = alive]
        BY <3>1 DEF w
      <4> QED
        BY <4>1, <4>2 DEF SamplerType
    <3>2. ASSUME dump' = [dump EXCEPT !.pc = "idle", !.prev = dump.cur,
                                      !.cur = <<>>, !.k = 0,
                                      !.same = Same(dump.cur), !.whole = alive]
          PROVE  dump'.pc = "idle" /\ dump'.prev = dump.cur
      BY <1>1, <3>2 DEF SamplerType
    <3> QED
      BY <1>5, <3>1, <3>2 DEF SampleDone
  <2> QED
    BY <2>1, <2>2, <2>3 DEF TakenIsKept
<1>6. CASE Carve
  <2>1. dump'.pc = "over" /\ taken' = <<>>
    BY <1>1, <1>6 DEF Carve, SamplerType
  <2> QED
    BY <2>1 DEF TakenIsKept
<1> QED
  BY <1>2, <1>3, <1>4, <1>5, <1>6

LEMMA TakenStep == DumpInv /\ TakenIsKept /\ [Next]_vars => TakenIsKept'
<1> SUFFICES ASSUME DumpInv, TakenIsKept, [Next]_vars PROVE TakenIsKept'
  OBVIOUS
<1>1. CASE BeginSample \/ ReadPage \/ SampleFails \/ SampleDone \/ Carve
  BY <1>1, SamplerKeepsTaken
<1>2. CASE Decrypt \/ Commit \/ Exit
  BY <1>2, TakenStays DEF Decrypt, Commit, Exit
<1>3. CASE StartDump
  <2>1. PICK known \in BOOLEAN :
          dump' = [pc |-> "idle", wait |-> cmd.wait, known |-> known, n |-> 0,
                   k |-> 0, cur |-> <<>>, prev |-> <<>>, same |-> 0,
                   between |-> <<>>, whole |-> FALSE, outcome |-> "none"]
    BY <1>3, Zenon DEF StartDump, BeginDump
  <2>2. taken' = <<>>
    BY <1>3, Zenon DEF StartDump, BeginDump
  <2> QED
    BY <2>1, <2>2 DEF TakenIsKept
<1>4. CASE UNCHANGED dumpVars
  BY <1>4, TakenStays DEF dumpVars
<1>5. UpxReturns \/ DumpReturns \/ StartUpx => UNCHANGED dumpVars
  BY Zenon DEF UpxReturns, DumpReturns, StartUpx, dumpVars
<1> QED
  BY <1>1, <1>2, <1>3, <1>4, <1>5 DEF Next, DumpNext, vars

(* No sample is lost, for any number of pages, payloads and samples: the   *)
(* command fails only when none was ever read to its end, and writes the   *)
(* last that was (dump_stable_inner).                                      *)
THEOREM WritesTheSampleInHand == Spec => []SampleInHandIsWritten
<1>1. TakenIsKept => SampleInHandIsWritten
  BY DEF TakenIsKept, SampleInHandIsWritten
<1> QED
  BY <1>1, TakenStarts, TakenStep, DumpInvariant, PTL DEF Spec

-----------------------------------------------------------------------------
(* The command line *)

ParseBegin(command) == [due |-> "none", cmd |-> command]

\* The loop over the tokens, one round after the other
LEMMA TokenRunIs ==
    ASSUME NEW word, NEW command, NEW toks, Len(toks) \in Nat
    PROVE  LET run == TokenRun(word, command, toks)
           IN /\ run[0] = ParseBegin(command)
              /\ \A n \in 1 .. Len(toks) : run[n] = Token(word, run[n - 1], toks[n])
<1> DEFINE L == Len(toks)
           a == ParseBegin(command)
           Runs(f, m) == f = [n \in 0 .. m |-> IF n = 0 THEN a ELSE Token(word, f[n - 1], toks[n])]
           T == {m \in 0 .. L : \E f : Runs(f, m)}
           run == TokenRun(word, command, toks)
<1>1. 0 \in T
  <2> DEFINE f == [n \in 0 .. 0 |-> a]
  <2>1. Runs(f, 0)
    OBVIOUS
  <2> HIDE DEF f, Runs
  <2> QED BY <2>1
<1>2. ASSUME NEW m \in 0 .. L - 1, m \in T PROVE m + 1 \in T
  <2>1. PICK f : Runs(f, m)
    BY <1>2
  <2> DEFINE g == [n \in 0 .. m + 1 |-> IF n = m + 1 THEN Token(word, f[m], toks[m + 1]) ELSE f[n]]
             h == [n \in 0 .. m + 1 |-> IF n = 0 THEN a ELSE Token(word, g[n - 1], toks[n])]
  <2>2. \A n \in 0 .. m : f[n] = IF n = 0 THEN a ELSE Token(word, f[n - 1], toks[n])
    <3>1. f = [n \in 0 .. m |-> IF n = 0 THEN a ELSE Token(word, f[n - 1], toks[n])]
      BY <2>1
    <3> HIDE DEF a
    <3> QED BY <3>1
  <2>3. ASSUME NEW n \in 0 .. m + 1 PROVE g[n] = h[n]
    <3>1. CASE n = m + 1
      <4>1. m \in 0 .. m + 1 /\ m # m + 1 /\ n # 0 /\ n - 1 = m
        BY <3>1
      <4>2. g[m] = f[m]
        BY <4>1
      <4>3. h[n] = Token(word, g[m], toks[m + 1])
        <5> HIDE DEF g
        <5> QED BY <3>1, <4>1
      <4>4. g[n] = Token(word, f[m], toks[m + 1])
        BY <3>1
      <4> HIDE DEF g, h
      <4> QED BY <4>2, <4>3, <4>4
    <3>2. CASE n # m + 1 /\ n # 0
      <4>1. n \in 0 .. m /\ n - 1 \in 0 .. m + 1 /\ n - 1 # m + 1
        BY <3>2
      <4>2. g[n] = f[n] /\ g[n - 1] = f[n - 1]
        BY <3>2, <4>1
      <4>3. h[n] = Token(word, g[n - 1], toks[n])
        <5> HIDE DEF g
        <5> QED BY <3>2
      <4>4. f[n] = Token(word, f[n - 1], toks[n])
        BY <2>2, <3>2, <4>1
      <4> HIDE DEF g, h
      <4> QED BY <4>2, <4>3, <4>4
    <3>3. CASE n = 0
      BY <2>2, <3>3
    <3> QED BY <3>1, <3>2, <3>3
  <2>4. g = h
    <3>1. g = [n \in 0 .. m + 1 |-> g[n]] /\ h = [n \in 0 .. m + 1 |-> h[n]]
      OBVIOUS
    <3> HIDE DEF g, h
    <3> QED BY <2>3, <3>1
  <2>5. Runs(g, m + 1)
    <3> HIDE DEF g
    <3> QED BY <2>4
  <2>6. m + 1 \in 0 .. L
    OBVIOUS
  <2> HIDE DEF g, Runs
  <2> QED BY <2>5, <2>6
<1>3. L \in T
  <2>1. \A m \in 0 .. L - 1 : m \in T => m + 1 \in T
    BY <1>2
  <2>2. 0 \in Int /\ L \in Int
    OBVIOUS
  <2> HIDE DEF T
  <2>3. \A m \in 0 .. L : m \in T
    BY <1>1, <2>1, <2>2, UpFrom
  <2> QED BY <2>3
<1>4. PICK f : Runs(f, L)
  BY <1>3
<1>5. run = CHOOSE g : Runs(g, L)
  BY DEF TokenRun, ParseBegin
<1>6. Runs(run, L)
  <2> HIDE DEF Runs, run
  <2> QED BY <1>4, <1>5, Zenon
<1> HIDE DEF run
<1>7. \A n \in 0 .. L : run[n] = IF n = 0 THEN a ELSE Token(word, run[n - 1], toks[n])
  <2>1. run = [n \in 0 .. L |-> IF n = 0 THEN a ELSE Token(word, run[n - 1], toks[n])]
    BY <1>6
  <2> HIDE DEF a
  <2> QED BY <2>1
<1>8. run[0] = a /\ \A n \in 1 .. L : run[n] = Token(word, run[n - 1], toks[n])
  BY <1>7
<1> QED
  BY <1>8 DEF run

\* The tokens a front-end puts behind the output, and where each begins
Packed(opts) == If(opts.packer # "auto", <<"--packer", opts.packer>>)
DataTok(opts) == If(opts.data, <<"--data-sections">>)
ShrinkTok(opts) == If(~opts.shrink, <<"--no-shrink">>)
VerboseTok(opts) == If(opts.verbose, <<"-v">>)

\* What stands where in a line that is put together
LEMMA ConcatAt ==
    ASSUME NEW S, NEW s \in Seq(S), NEW t \in Seq(S)
    PROVE  /\ s \o t \in Seq(S) /\ Len(s \o t) = Len(s) + Len(t)
           /\ \A i \in 1 .. Len(s) : (s \o t)[i] = s[i]
           /\ \A i \in 1 .. Len(t) : (s \o t)[Len(s) + i] = t[i]
OBVIOUS

LEMMA TokIf ==
    ASSUME NEW S, NEW c \in BOOLEAN, NEW x \in S
    PROVE  /\ If(c, <<x>>) \in Seq(S)
           /\ c => Len(If(c, <<x>>)) = 1 /\ If(c, <<x>>)[1] = x
           /\ ~c => Len(If(c, <<x>>)) = 0
BY DEF If

LEMMA JoinTok ==
    ASSUME NEW S, NEW s \in Seq(S), NEW t \in Seq(S)
    PROVE  Len(t) = 1 =>
             /\ s \o t \in Seq(S) /\ Len(s \o t) = Len(s) + 1
             /\ \A i \in 1 .. Len(s) : (s \o t)[i] = s[i]
             /\ (s \o t)[Len(s) + 1] = t[1]
<1> DEFINE u == s \o t
<1>1. u \in Seq(S) /\ Len(u) = Len(s) + Len(t)
  OBVIOUS
<1>2. \A i \in 1 .. Len(s) : u[i] = s[i]
  OBVIOUS
<1>3. \A i \in 1 .. Len(t) : u[Len(s) + i] = t[i]
  OBVIOUS
<1> HIDE DEF u
<1>4. Len(t) = 1 => 1 \in 1 .. Len(t)
  OBVIOUS
<1>5. Len(t) = 1 => u[Len(s) + 1] = t[1]
  BY <1>3, <1>4
<1> QED BY <1>1, <1>2, <1>5 DEF u

LEMMA JoinNone ==
    ASSUME NEW S, NEW s \in Seq(S), NEW t \in Seq(S), Len(t) = 0
    PROVE  /\ s \o t \in Seq(S) /\ Len(s \o t) = Len(s)
           /\ \A i \in 1 .. Len(s) : (s \o t)[i] = s[i]
OBVIOUS

LEMMA JoinOne ==
    ASSUME NEW S, NEW s \in Seq(S), NEW n \in Nat, Len(s) = n, NEW t \in Seq(S),
           NEW c \in BOOLEAN, NEW x, NEW m, m = IF c THEN n + 1 ELSE n,
           c => Len(t) = 1 /\ t[1] = x, ~c => Len(t) = 0
    PROVE  /\ s \o t \in Seq(S) /\ Len(s \o t) = m
           /\ \A i \in 1 .. n : (s \o t)[i] = s[i]
           /\ c => (s \o t)[m] = x
<1>1. CASE c
  <2>1. Len(t) = 1 /\ t[1] = x /\ m = n + 1
    BY <1>1
  <2> QED BY <2>1, JoinTok
<1>2. CASE ~c
  <2>1. Len(t) = 0 /\ m = n
    BY <1>2
  <2> QED BY <1>2, <2>1, JoinNone
<1> QED BY <1>1, <1>2

Toks(input, output, opts) ==
    {"/unpack", "-o", "--packer", "--data-sections", "--no-shrink", "-v", input, output, opts.packer}

\* Where each of the arguments of a front-end stands: what is asked for by
\* default takes no place
LEMMA ArgsAt ==
    ASSUME NEW input, NEW output, NEW opts \in SpawnOptions
    PROVE  LET args == UnpackArgs(input, output, opts)
               p == IF opts.packer # "auto" THEN 6 ELSE 4
               d == IF opts.data THEN p + 1 ELSE p
               s == IF ~opts.shrink THEN d + 1 ELSE d
               v == IF opts.verbose THEN s + 1 ELSE s
           IN /\ args \in Seq(Toks(input, output, opts)) /\ Len(args) = v /\ v \in Nat
              /\ args[1] = "/unpack" /\ args[2] = input /\ args[3] = "-o" /\ args[4] = output
              /\ opts.packer # "auto" => args[5] = "--packer" /\ args[6] = opts.packer
              /\ opts.data => args[d] = "--data-sections"
              /\ ~opts.shrink => args[s] = "--no-shrink"
              /\ opts.verbose => args[v] = "-v"
<1> DEFINE S == Toks(input, output, opts)
           a0 == <<"/unpack", input, "-o", output>>
           a1 == a0 \o Packed(opts)
           a2 == a1 \o DataTok(opts)
           a3 == a2 \o ShrinkTok(opts)
           a4 == a3 \o VerboseTok(opts)
           p == IF opts.packer # "auto" THEN 6 ELSE 4
           d == IF opts.data THEN p + 1 ELSE p
           s == IF ~opts.shrink THEN d + 1 ELSE d
           v == IF opts.verbose THEN s + 1 ELSE s
<1>1. UnpackArgs(input, output, opts) = a4
  BY DEF UnpackArgs, Packed, DataTok, ShrinkTok, VerboseTok
<1>0. {"/unpack", "-o", "--packer", "--data-sections", "--no-shrink", "-v", input, output, opts.packer} \subseteq S
  BY DEF Toks
<1>2. opts.data \in BOOLEAN /\ opts.shrink \in BOOLEAN /\ opts.verbose \in BOOLEAN
  BY DEF SpawnOptions
<1>3. /\ a0 \in Seq(S) /\ Len(a0) = 4
      /\ a0[1] = "/unpack" /\ a0[2] = input /\ a0[3] = "-o" /\ a0[4] = output
  BY <1>0
<1>4. /\ Packed(opts) \in Seq(S)
      /\ opts.packer # "auto" => /\ Len(Packed(opts)) = 2
                                 /\ Packed(opts)[1] = "--packer" /\ Packed(opts)[2] = opts.packer
      /\ ~(opts.packer # "auto") => Len(Packed(opts)) = 0
  <2>1. CASE opts.packer # "auto"
    <3>1. Packed(opts) = <<"--packer", opts.packer>>
      BY <2>1 DEF Packed, If
    <3>2. <<"--packer", opts.packer>> \in Seq(S)
      BY <1>0
    <3> HIDE DEF S
    <3> QED BY <2>1, <3>1, <3>2
  <2>2. CASE ~(opts.packer # "auto")
    <3>1. Packed(opts) = <<>>
      BY <2>2 DEF Packed, If
    <3> HIDE DEF S
    <3> QED BY <2>2, <3>1
  <2> QED BY <2>1, <2>2
<1>5. /\ DataTok(opts) \in Seq(S)
      /\ opts.data => Len(DataTok(opts)) = 1 /\ DataTok(opts)[1] = "--data-sections"
      /\ ~opts.data => Len(DataTok(opts)) = 0
  BY <1>0, <1>2, TokIf DEF DataTok
<1>6. /\ ShrinkTok(opts) \in Seq(S)
      /\ ~opts.shrink => Len(ShrinkTok(opts)) = 1 /\ ShrinkTok(opts)[1] = "--no-shrink"
      /\ opts.shrink => Len(ShrinkTok(opts)) = 0
  BY <1>0, <1>2, TokIf DEF ShrinkTok
<1>7. /\ VerboseTok(opts) \in Seq(S)
      /\ opts.verbose => Len(VerboseTok(opts)) = 1 /\ VerboseTok(opts)[1] = "-v"
      /\ ~opts.verbose => Len(VerboseTok(opts)) = 0
  BY <1>0, <1>2, TokIf DEF VerboseTok
<1> HIDE DEF a0, S
<1>8. /\ a1 \in Seq(S) /\ Len(a1) = p /\ \A i \in 1 .. 4 : a1[i] = a0[i]
      /\ opts.packer # "auto" => a1[5] = "--packer" /\ a1[6] = opts.packer
  <2>1. /\ a1 \in Seq(S) /\ Len(a1) = Len(a0) + Len(Packed(opts))
        /\ \A i \in 1 .. Len(a0) : a1[i] = a0[i]
        /\ \A i \in 1 .. Len(Packed(opts)) : a1[Len(a0) + i] = Packed(opts)[i]
    <3> DEFINE t == Packed(opts)
    <3>1. a0 \in Seq(S) /\ t \in Seq(S)
      BY <1>3, <1>4
    <3> HIDE DEF t
    <3>2. /\ a0 \o t \in Seq(S) /\ Len(a0 \o t) = Len(a0) + Len(t)
          /\ \A i \in 1 .. Len(a0) : (a0 \o t)[i] = a0[i]
          /\ \A i \in 1 .. Len(t) : (a0 \o t)[Len(a0) + i] = t[i]
      BY <3>1, ConcatAt
    <3> QED BY <3>2 DEF t
  <2> HIDE DEF a1
  <2>2. CASE opts.packer # "auto"
    <3>1. a1[4 + 1] = "--packer" /\ a1[4 + 2] = opts.packer
      BY <1>3, <1>4, <2>1, <2>2
    <3>2. p = 6 /\ Len(a1) = 6
      <4>1. p = 6
        BY <2>2
      <4>2. Len(a0) = 4 /\ Len(Packed(opts)) = 2
        BY <1>3, <1>4, <2>2
      <4> HIDE DEF p
      <4> QED BY <2>1, <4>1, <4>2
    <3>3. \A i \in 1 .. 4 : a1[i] = a0[i]
      BY <1>3, <2>1
    <3>4. a1[5] = "--packer" /\ a1[6] = opts.packer
      BY <3>1
    <3>5. a1 \in Seq(S) /\ Len(a1) = p
      BY <2>1, <3>2
    <3> HIDE DEF p
    <3> QED BY <3>3, <3>4, <3>5
  <2>3. CASE ~(opts.packer # "auto")
    BY <1>3, <1>4, <2>1, <2>3
  <2> QED BY <2>2, <2>3
<1> HIDE DEF a1
<1>9. p \in 4 .. 6
  OBVIOUS
<1> HIDE DEF p
<1>10. /\ a2 \in Seq(S) /\ Len(a2) = d /\ \A i \in 1 .. p : a2[i] = a1[i]
       /\ opts.data => a2[d] = "--data-sections"
  <2> DEFINE t == DataTok(opts)
             c == opts.data
  <2>1. /\ a1 \in Seq(S) /\ p \in Nat /\ Len(a1) = p /\ t \in Seq(S) /\ c \in BOOLEAN
        /\ c => Len(t) = 1 /\ t[1] = "--data-sections"
        /\ ~c => Len(t) = 0
    BY <1>2, <1>5, <1>8, <1>9
  <2>2. d = IF c THEN p + 1 ELSE p
    BY <1>2 DEF d
  <2> HIDE DEF t, c, d
  <2>3. /\ a1 \o t \in Seq(S) /\ Len(a1 \o t) = d
        /\ \A i \in 1 .. p : (a1 \o t)[i] = a1[i]
        /\ c => (a1 \o t)[d] = "--data-sections"
    BY <2>1, <2>2, JoinOne
  <2> QED BY <2>3 DEF t, c
<1> HIDE DEF a2
<1>11. d \in p .. p + 1
  BY <1>9
<1> HIDE DEF d
<1>12. /\ a3 \in Seq(S) /\ Len(a3) = s /\ \A i \in 1 .. d : a3[i] = a2[i]
       /\ ~opts.shrink => a3[s] = "--no-shrink"
  <2> DEFINE t == ShrinkTok(opts)
             c == (~opts.shrink)
  <2>1. /\ a2 \in Seq(S) /\ d \in Nat /\ Len(a2) = d /\ t \in Seq(S) /\ c \in BOOLEAN
        /\ c => Len(t) = 1 /\ t[1] = "--no-shrink"
        /\ ~c => Len(t) = 0
    BY <1>2, <1>6, <1>9, <1>10, <1>11
  <2>2. s = IF c THEN d + 1 ELSE d
    BY <1>2 DEF s
  <2> HIDE DEF t, c, s
  <2>3. /\ a2 \o t \in Seq(S) /\ Len(a2 \o t) = s
        /\ \A i \in 1 .. d : (a2 \o t)[i] = a2[i]
        /\ c => (a2 \o t)[s] = "--no-shrink"
    BY <2>1, <2>2, JoinOne
  <2> QED BY <2>3 DEF t, c
<1> HIDE DEF a3
<1>13. s \in d .. d + 1
  BY <1>9, <1>11
<1> HIDE DEF s
<1>14. /\ a4 \in Seq(S) /\ Len(a4) = v /\ \A i \in 1 .. s : a4[i] = a3[i]
       /\ opts.verbose => a4[v] = "-v"
  <2> DEFINE t == VerboseTok(opts)
             c == opts.verbose
  <2>1. /\ a3 \in Seq(S) /\ s \in Nat /\ Len(a3) = s /\ t \in Seq(S) /\ c \in BOOLEAN
        /\ c => Len(t) = 1 /\ t[1] = "-v"
        /\ ~c => Len(t) = 0
    BY <1>2, <1>7, <1>9, <1>11, <1>12, <1>13
  <2>2. v = IF c THEN s + 1 ELSE s
    BY <1>2 DEF v
  <2> HIDE DEF t, c, v
  <2>3. /\ a3 \o t \in Seq(S) /\ Len(a3 \o t) = v
        /\ \A i \in 1 .. s : (a3 \o t)[i] = a3[i]
        /\ c => (a3 \o t)[v] = "-v"
    BY <2>1, <2>2, JoinOne
  <2> QED BY <2>3 DEF t, c
<1> HIDE DEF a4
<1>15. v \in s .. s + 1
  BY <1>9, <1>11, <1>13
<1> HIDE DEF v
<1>16. /\ a4[1] = a0[1] /\ a4[2] = a0[2] /\ a4[3] = a0[3] /\ a4[4] = a0[4]
       /\ p = 6 => a4[5] = a1[5] /\ a4[6] = a1[6]
       /\ a4[d] = a2[d] /\ a4[s] = a3[s]
  <2>1. \A i \in 1 .. p : a4[i] = a1[i]
    BY <1>9, <1>10, <1>11, <1>12, <1>13, <1>14
  <2>2. a4[d] = a2[d]
    BY <1>9, <1>11, <1>12, <1>13, <1>14
  <2>3. a4[s] = a3[s]
    BY <1>9, <1>11, <1>13, <1>14
  <2>4. \A i \in 1 .. 4 : a4[i] = a0[i]
    BY <1>8, <1>9, <2>1
  <2> QED BY <2>1, <2>2, <2>3, <2>4
<1>17. opts.packer # "auto" => p = 6
  BY DEF p
<1>18. /\ a4 \in Seq(S) /\ Len(a4) = v /\ v \in Nat
       /\ a4[1] = "/unpack" /\ a4[2] = input /\ a4[3] = "-o" /\ a4[4] = output
       /\ opts.packer # "auto" => a4[5] = "--packer" /\ a4[6] = opts.packer
       /\ opts.data => a4[d] = "--data-sections"
       /\ ~opts.shrink => a4[s] = "--no-shrink"
       /\ opts.verbose => a4[v] = "-v"
  BY <1>3, <1>8, <1>9, <1>10, <1>11, <1>12, <1>13, <1>14, <1>15, <1>16, <1>17
<1> QED
  BY <1>1, <1>18 DEF p, d, s, v, S

LEMMA RestAt ==
    ASSUME NEW S, NEW args \in Seq(S), Len(args) >= 3
    PROVE  LET rest == SubSeq(args, 3, Len(args))
           IN /\ rest \in Seq(S) /\ Len(rest) = Len(args) - 2
              /\ \A i \in 1 .. Len(args) - 2 : rest[i] = args[i + 2]
OBVIOUS

\* One token of /unpack each
LEMMA UnpackTokens ==
    ASSUME NEW acc, acc.cmd # Error, NEW tok
    PROVE  /\ acc.due = "-o" => UnpackToken(acc, tok) = ParseBegin([acc.cmd EXCEPT !.output = tok])
           /\ acc.due = "--packer" /\ tok \in {"auto", "themida", "vmprotect", "upx"} =>
                 UnpackToken(acc, tok) = ParseBegin([acc.cmd EXCEPT !.packer = tok])
           /\ acc.due = "none" /\ tok \in {"-o", "--packer"} => UnpackToken(acc, tok) = [due |-> tok, cmd |-> acc.cmd]
           /\ acc.due = "none" /\ tok = "--data-sections" =>
                 UnpackToken(acc, tok) = ParseBegin([acc.cmd EXCEPT !.data = TRUE])
           /\ acc.due = "none" /\ tok = "--no-shrink" =>
                 UnpackToken(acc, tok) = ParseBegin([acc.cmd EXCEPT !.shrink = FALSE])
           /\ acc.due = "none" /\ tok = "-v" =>
                 UnpackToken(acc, tok) = ParseBegin([acc.cmd EXCEPT !.verbose = TRUE])
<1> DEFINE c == acc.cmd
           due == acc.due
<1>3. due = "-o" => UnpackToken(acc, tok) = ParseBegin([c EXCEPT !.output = tok])
  BY DEF UnpackToken, ParseBegin
<1>4. due = "--packer" /\ tok \in {"auto", "themida", "vmprotect", "upx"} =>
         UnpackToken(acc, tok) = ParseBegin([c EXCEPT !.packer = tok])
  <2>1. ASSUME tok \in {"auto", "themida", "vmprotect", "upx"} PROVE tok \in DOMAIN Packers /\ Packers[tok] = tok
    BY <2>1 DEF Packers
  <2> QED BY <2>1 DEF UnpackToken, ParseBegin
<1>5. due = "none" /\ tok \in {"-o", "--packer"} => UnpackToken(acc, tok) = [due |-> tok, cmd |-> c]
  BY DEF UnpackToken, IsOption
<1>6. due = "none" /\ tok = "--data-sections" => UnpackToken(acc, tok) = ParseBegin([c EXCEPT !.data = TRUE])
  BY DEF UnpackToken, IsOption, ParseBegin
<1>7. due = "none" /\ tok = "--no-shrink" => UnpackToken(acc, tok) = ParseBegin([c EXCEPT !.shrink = FALSE])
  BY DEF UnpackToken, IsOption, ParseBegin
<1>8. due = "none" /\ tok = "-v" => UnpackToken(acc, tok) = ParseBegin([c EXCEPT !.verbose = TRUE])
  BY DEF UnpackToken, IsOption, ParseBegin
<1> QED BY <1>3, <1>4, <1>5, <1>6, <1>7, <1>8

\* The commands /unpack can parse to, with operands from S
UnpackCmds(S) ==
    [do : {"unpack"}, input : S, output : S, data : BOOLEAN, shrink : BOOLEAN,
     verbose : BOOLEAN, packer : S, noScylla : BOOLEAN]

LEMMA OutputSet ==
    ASSUME NEW S, NEW x \in S, NEW c \in UnpackCmds(S)
    PROVE  LET d == [c EXCEPT !.output = x]
           IN /\ d \in UnpackCmds(S)
              /\ d.input = c.input /\ d.output = x /\ d.data = c.data /\ d.shrink = c.shrink
              /\ d.verbose = c.verbose /\ d.packer = c.packer /\ d.noScylla = c.noScylla
<1> DEFINE d == [c EXCEPT !.output = x]
<1>1. d \in UnpackCmds(S)
  BY DEF UnpackCmds
<1>2. d.input = c.input /\ d.output = x /\ d.data = c.data /\ d.shrink = c.shrink
  BY DEF UnpackCmds
<1>3. d.verbose = c.verbose /\ d.packer = c.packer /\ d.noScylla = c.noScylla
  BY DEF UnpackCmds
<1> QED BY <1>1, <1>2, <1>3

LEMMA PackerSet ==
    ASSUME NEW S, NEW x \in S, NEW c \in UnpackCmds(S)
    PROVE  LET d == [c EXCEPT !.packer = x]
           IN /\ d \in UnpackCmds(S)
              /\ d.input = c.input /\ d.output = c.output /\ d.data = c.data /\ d.shrink = c.shrink
              /\ d.verbose = c.verbose /\ d.packer = x /\ d.noScylla = c.noScylla
<1> DEFINE d == [c EXCEPT !.packer = x]
<1>1. d \in UnpackCmds(S)
  BY DEF UnpackCmds
<1>2. d.input = c.input /\ d.output = c.output /\ d.data = c.data /\ d.shrink = c.shrink
  BY DEF UnpackCmds
<1>3. d.verbose = c.verbose /\ d.packer = x /\ d.noScylla = c.noScylla
  BY DEF UnpackCmds
<1> QED BY <1>1, <1>2, <1>3

LEMMA DataSet ==
    ASSUME NEW S, NEW c \in UnpackCmds(S)
    PROVE  LET d == [c EXCEPT !.data = TRUE]
           IN /\ d \in UnpackCmds(S)
              /\ d.input = c.input /\ d.output = c.output /\ d.data /\ d.shrink = c.shrink
              /\ d.verbose = c.verbose /\ d.packer = c.packer /\ d.noScylla = c.noScylla
<1> DEFINE d == [c EXCEPT !.data = TRUE]
<1>1. d \in UnpackCmds(S)
  BY DEF UnpackCmds
<1>2. d.input = c.input /\ d.output = c.output /\ d.data /\ d.shrink = c.shrink
  BY DEF UnpackCmds
<1>3. d.verbose = c.verbose /\ d.packer = c.packer /\ d.noScylla = c.noScylla
  BY DEF UnpackCmds
<1> QED BY <1>1, <1>2, <1>3

LEMMA ShrinkSet ==
    ASSUME NEW S, NEW c \in UnpackCmds(S)
    PROVE  LET d == [c EXCEPT !.shrink = FALSE]
           IN /\ d \in UnpackCmds(S)
              /\ d.input = c.input /\ d.output = c.output /\ d.data = c.data /\ ~d.shrink
              /\ d.verbose = c.verbose /\ d.packer = c.packer /\ d.noScylla = c.noScylla
<1> DEFINE d == [c EXCEPT !.shrink = FALSE]
<1>1. d \in UnpackCmds(S)
  BY DEF UnpackCmds
<1>2. d.input = c.input /\ d.output = c.output /\ d.data = c.data /\ ~d.shrink
  BY DEF UnpackCmds
<1>3. d.verbose = c.verbose /\ d.packer = c.packer /\ d.noScylla = c.noScylla
  BY DEF UnpackCmds
<1> QED BY <1>1, <1>2, <1>3

LEMMA VerboseSet ==
    ASSUME NEW S, NEW c \in UnpackCmds(S)
    PROVE  LET d == [c EXCEPT !.verbose = TRUE]
           IN /\ d \in UnpackCmds(S)
              /\ d.input = c.input /\ d.output = c.output /\ d.data = c.data /\ d.shrink = c.shrink
              /\ d.verbose /\ d.packer = c.packer /\ d.noScylla = c.noScylla
<1> DEFINE d == [c EXCEPT !.verbose = TRUE]
<1>1. d \in UnpackCmds(S)
  BY DEF UnpackCmds
<1>2. d.input = c.input /\ d.output = c.output /\ d.data = c.data /\ d.shrink = c.shrink
  BY DEF UnpackCmds
<1>3. d.verbose /\ d.packer = c.packer /\ d.noScylla = c.noScylla
  BY DEF UnpackCmds
<1> QED BY <1>1, <1>2, <1>3

LEMMA DefaultCmd ==
    ASSUME NEW S, NEW x \in S, "default" \in S, "auto" \in S
    PROVE  LET c == Unpack(x)
           IN /\ c \in UnpackCmds(S) /\ c.input = x /\ c.output = "default" /\ ~c.data /\ c.shrink
              /\ ~c.verbose /\ c.packer = "auto" /\ ~c.noScylla
BY DEF UnpackCmds, Unpack

LEMMA OptionsRead ==
    ASSUME NEW S, NEW c \in UnpackCmds(S), NEW tok
    PROVE  /\ Token("/unpack", Token("/unpack", ParseBegin(c), "-o"), tok) = ParseBegin([c EXCEPT !.output = tok])
           /\ tok \in {"auto", "themida", "vmprotect", "upx"} =>
                 Token("/unpack", Token("/unpack", ParseBegin(c), "--packer"), tok)
                 = ParseBegin([c EXCEPT !.packer = tok])
           /\ Token("/unpack", ParseBegin(c), "--data-sections") = ParseBegin([c EXCEPT !.data = TRUE])
           /\ Token("/unpack", ParseBegin(c), "--no-shrink") = ParseBegin([c EXCEPT !.shrink = FALSE])
           /\ Token("/unpack", ParseBegin(c), "-v") = ParseBegin([c EXCEPT !.verbose = TRUE])
<1>1. c # Error
  <2>1. c.do = "unpack" /\ Error.do = "error"
    BY DEF UnpackCmds, Error
  <2> QED BY <2>1
<1> DEFINE a == ParseBegin(c)
           o == [due |-> "-o", cmd |-> c]
           p == [due |-> "--packer", cmd |-> c]
<1>2. /\ a.due = "none" /\ a.cmd = c /\ o.due = "-o" /\ o.cmd = c /\ p.due = "--packer" /\ p.cmd = c
  BY DEF ParseBegin
<1>3. \A acc, t : Token("/unpack", acc, t) = UnpackToken(acc, t)
  BY DEF Token
<1> HIDE DEF a
<1>4. Token("/unpack", a, "-o") = o
  <2>1. UnpackToken(a, "-o") = [due |-> "-o", cmd |-> a.cmd]
    BY <1>1, <1>2, UnpackTokens
  <2> QED BY <1>2, <1>3, <2>1
<1>5. Token("/unpack", a, "--packer") = p
  <2>1. UnpackToken(a, "--packer") = [due |-> "--packer", cmd |-> a.cmd]
    BY <1>1, <1>2, UnpackTokens
  <2> QED BY <1>2, <1>3, <2>1
<1>6. /\ Token("/unpack", a, "--data-sections") = ParseBegin([c EXCEPT !.data = TRUE])
      /\ Token("/unpack", a, "--no-shrink") = ParseBegin([c EXCEPT !.shrink = FALSE])
      /\ Token("/unpack", a, "-v") = ParseBegin([c EXCEPT !.verbose = TRUE])
  <2>1. UnpackToken(a, "--data-sections") = ParseBegin([a.cmd EXCEPT !.data = TRUE])
    BY <1>1, <1>2, UnpackTokens
  <2>2. UnpackToken(a, "--no-shrink") = ParseBegin([a.cmd EXCEPT !.shrink = FALSE])
    BY <1>1, <1>2, UnpackTokens
  <2>3. UnpackToken(a, "-v") = ParseBegin([a.cmd EXCEPT !.verbose = TRUE])
    BY <1>1, <1>2, UnpackTokens
  <2> QED BY <1>2, <1>3, <2>1, <2>2, <2>3
<1> HIDE DEF o, p
<1>7. Token("/unpack", o, tok) = ParseBegin([c EXCEPT !.output = tok])
  <2>1. UnpackToken(o, tok) = ParseBegin([o.cmd EXCEPT !.output = tok])
    BY <1>1, <1>2, UnpackTokens
  <2> QED BY <1>2, <1>3, <2>1
<1>8. tok \in {"auto", "themida", "vmprotect", "upx"} =>
         Token("/unpack", p, tok) = ParseBegin([c EXCEPT !.packer = tok])
  <2>1. ASSUME tok \in {"auto", "themida", "vmprotect", "upx"}
        PROVE  UnpackToken(p, tok) = ParseBegin([p.cmd EXCEPT !.packer = tok])
    BY <1>1, <1>2, <2>1, UnpackTokens
  <2> QED BY <1>2, <1>3, <2>1
<1> QED BY <1>4, <1>5, <1>6, <1>7, <1>8 DEF a

\* What a front-end's arguments are read as
LEMMA RequestRead ==
    ASSUME NEW input \in Inputs, NEW opts \in SpawnOptions
    PROVE  LET c == ParseFrom(UnpackArgs(input, "out.exe", opts))
           IN /\ c.do = "unpack" /\ c.output = "out.exe" /\ ~c.noScylla
              /\ [verbose |-> c.verbose, packer |-> c.packer, data |-> c.data, shrink |-> c.shrink] = opts
<1> DEFINE args == UnpackArgs(input, "out.exe", opts)
           p == IF opts.packer # "auto" THEN 6 ELSE 4
           d == IF opts.data THEN p + 1 ELSE p
           s == IF ~opts.shrink THEN d + 1 ELSE d
           v == IF opts.verbose THEN s + 1 ELSE s
           rest == SubSeq(args, 3, Len(args))
           run == TokenRun("/unpack", Unpack(input), rest)
           S == {input, "out.exe", "default", "auto", opts.packer}
<1>1. /\ args \in Seq(Toks(input, "out.exe", opts)) /\ Len(args) = v /\ v \in Nat
      /\ args[1] = "/unpack" /\ args[2] = input /\ args[3] = "-o" /\ args[4] = "out.exe"
      /\ opts.packer # "auto" => args[5] = "--packer" /\ args[6] = opts.packer
      /\ opts.data => args[d] = "--data-sections"
      /\ ~opts.shrink => args[s] = "--no-shrink"
      /\ opts.verbose => args[v] = "-v"
  BY ArgsAt
<1>2. /\ opts.data \in BOOLEAN /\ opts.shrink \in BOOLEAN /\ opts.verbose \in BOOLEAN
      /\ opts.packer \in {"auto", "themida", "vmprotect", "upx"}
  BY DEF SpawnOptions
<1> HIDE DEF args
<1>3. p \in {4, 6} /\ (opts.packer # "auto" => p = 6) /\ (opts.packer = "auto" => p = 4)
  OBVIOUS
<1> HIDE DEF p
<1>4. p \in Nat /\ d \in p .. p + 1 /\ (opts.data => d = p + 1) /\ (~opts.data => d = p)
  BY <1>2, <1>3
<1> HIDE DEF d
<1>5. d \in Nat /\ s \in d .. d + 1 /\ (~opts.shrink => s = d + 1) /\ (opts.shrink => s = d)
  BY <1>2, <1>4
<1> HIDE DEF s
<1>6. s \in Nat /\ v \in s .. s + 1 /\ (opts.verbose => v = s + 1) /\ (~opts.verbose => v = s)
  BY <1>2, <1>5
<1> HIDE DEF v
<1>7. v >= 4
  BY <1>3, <1>4, <1>5, <1>6
<1>8. Len(rest) = v - 2 /\ \A i \in 1 .. v - 2 : rest[i] = args[i + 2]
  <2>1. Len(args) >= 3
    BY <1>1, <1>7
  <2> QED BY <1>1, <2>1, RestAt
<1>9. ParseFrom(args) = Complete(run[v - 2])
  <2>1. Len(args) >= 2 /\ args # <<>>
    BY <1>1, <1>7
  <2>2. ParseFrom(args) = ParseWord(args)
    BY <2>1 DEF ParseFrom
  <2>3. ParseWord(args) = UnpackOptions(Unpack(args[2]), rest)
    BY <1>1, <2>1 DEF ParseWord
  <2> QED BY <1>1, <1>8, <2>2, <2>3 DEF UnpackOptions
<1> HIDE DEF rest
<1>10. /\ run[0] = ParseBegin(Unpack(input))
       /\ \A n \in 1 .. v - 2 : run[n] = Token("/unpack", run[n - 1], args[n + 2])
  <2>1. Len(rest) \in Nat
    BY <1>7, <1>8
  <2>2. /\ run[0] = ParseBegin(Unpack(input))
        /\ \A n \in 1 .. Len(rest) : run[n] = Token("/unpack", run[n - 1], rest[n])
    BY <2>1, TokenRunIs
  <2> HIDE DEF run
  <2> QED BY <1>8, <2>2
<1> HIDE DEF run
\* The command as the options come in
<1> DEFINE c0 == Unpack(input)
           c1 == [c0 EXCEPT !.output = "out.exe"]
           c2 == IF opts.packer # "auto" THEN [c1 EXCEPT !.packer = opts.packer] ELSE c1
           c3 == IF opts.data THEN [c2 EXCEPT !.data = TRUE] ELSE c2
           c4 == IF ~opts.shrink THEN [c3 EXCEPT !.shrink = FALSE] ELSE c3
           c5 == IF opts.verbose THEN [c4 EXCEPT !.verbose = TRUE] ELSE c4
<1>11. /\ c0 \in UnpackCmds(S) /\ ~c0.data /\ c0.shrink /\ ~c0.verbose /\ c0.packer = "auto" /\ ~c0.noScylla
  BY DefaultCmd
<1>s. "out.exe" \in S /\ opts.packer \in S
  OBVIOUS
<1> HIDE DEF S, c0
<1>12. /\ c1 \in UnpackCmds(S) /\ c1.output = "out.exe"
       /\ ~c1.data /\ c1.shrink /\ ~c1.verbose /\ c1.packer = "auto" /\ ~c1.noScylla
  BY <1>11, <1>s, OutputSet
<1>13. run[2] = ParseBegin(c1)
  <2>1. run[1] = Token("/unpack", ParseBegin(c0), "-o")
    BY <1>1, <1>7, <1>10 DEF c0
  <2>2. run[2] = Token("/unpack", run[1], "out.exe")
    BY <1>1, <1>7, <1>10
  <2>3. Token("/unpack", Token("/unpack", ParseBegin(c0), "-o"), "out.exe") = ParseBegin(c1)
    BY <1>11, OptionsRead
  <2> HIDE DEF c1
  <2> QED BY <2>1, <2>2, <2>3
<1> HIDE DEF c1
<1>14. /\ c2 \in UnpackCmds(S) /\ c2.output = "out.exe"
       /\ ~c2.data /\ c2.shrink /\ ~c2.verbose /\ c2.packer = opts.packer /\ ~c2.noScylla
  <2>1. CASE opts.packer # "auto"
    <3> DEFINE e == [c1 EXCEPT !.packer = opts.packer]
    <3>1. /\ e \in UnpackCmds(S) /\ e.output = "out.exe"
          /\ ~e.data /\ e.shrink /\ ~e.verbose /\ e.packer = opts.packer /\ ~e.noScylla
      BY <1>12, <1>s, PackerSet
    <3>2. c2 = e
      BY <2>1
    <3> HIDE DEF e, c2
    <3> QED BY <3>1, <3>2
  <2>2. CASE opts.packer = "auto"
    <3>1. c2 = c1
      BY <2>2
    <3> HIDE DEF c2
    <3> QED BY <1>12, <2>2, <3>1
  <2> QED BY <2>1, <2>2
<1>15. run[p - 2] = ParseBegin(c2)
  <2>0. opts.packer = "auto" => c2 = c1
    OBVIOUS
  <2>1. CASE opts.packer # "auto"
    <3>1. p = 6 /\ v - 2 >= 4
      BY <1>3, <1>4, <1>5, <1>6, <2>1
    <3>2. run[3] = Token("/unpack", ParseBegin(c1), "--packer")
      BY <1>1, <1>6, <1>10, <1>13, <2>1, <3>1
    <3>3. run[4] = Token("/unpack", run[3], opts.packer)
      BY <1>1, <1>6, <1>10, <2>1, <3>1
    <3>4. Token("/unpack", Token("/unpack", ParseBegin(c1), "--packer"), opts.packer) = ParseBegin(c2)
      BY <1>2, <1>12, <2>1, OptionsRead
    <3> HIDE DEF c2
    <3> QED BY <3>1, <3>2, <3>3, <3>4
  <2> HIDE DEF c2
  <2>2. CASE opts.packer = "auto"
    <3>1. p - 2 = 2
      BY <1>3, <2>2
    <3> QED BY <1>13, <2>0, <2>2, <3>1
  <2> QED BY <2>1, <2>2
<1> HIDE DEF c2
<1>16. /\ c3 \in UnpackCmds(S) /\ c3.output = "out.exe"
       /\ (c3.data <=> opts.data) /\ c3.shrink /\ ~c3.verbose /\ c3.packer = opts.packer /\ ~c3.noScylla
  <2>1. CASE opts.data
    <3> DEFINE e == [c2 EXCEPT !.data = TRUE]
    <3>1. /\ e \in UnpackCmds(S) /\ e.output = "out.exe"
          /\ e.data /\ e.shrink /\ ~e.verbose /\ e.packer = opts.packer /\ ~e.noScylla
      BY <1>14, DataSet
    <3>2. c3 = e
      BY <2>1
    <3> HIDE DEF e, c3
    <3> QED BY <1>2, <2>1, <3>1, <3>2
  <2>2. CASE ~(opts.data)
    <3>1. c3 = c2
      BY <2>2
    <3> HIDE DEF c3
    <3> QED BY <1>2, <1>14, <2>2, <3>1
  <2> QED BY <2>1, <2>2
<1>17. run[d - 2] = ParseBegin(c3)
  <2>0. ~(opts.data) => c3 = c2
    OBVIOUS
  <2>1. (opts.data) => c3 = [c2 EXCEPT !.data = TRUE]
    OBVIOUS
  <2> HIDE DEF c3
  <2>2. CASE opts.data
    <3>1. d = p + 1 /\ d - 2 \in 1 .. v - 2 /\ (d - 2) - 1 = p - 2 /\ (d - 2) + 2 = d
      BY <1>3, <1>4, <1>5, <1>6, <2>2
    <3>2. run[d - 2] = Token("/unpack", run[(d - 2) - 1], args[(d - 2) + 2])
      BY <1>10, <3>1
    <3>3. run[d - 2] = Token("/unpack", ParseBegin(c2), "--data-sections")
      BY <1>1, <1>15, <2>2, <3>1, <3>2
    <3>4. Token("/unpack", ParseBegin(c2), "--data-sections") = ParseBegin([c2 EXCEPT !.data = TRUE])
      BY <1>14, OptionsRead
    <3> QED BY <2>1, <2>2, <3>3, <3>4
  <2>3. CASE ~(opts.data)
    <3>1. d - 2 = p - 2
      BY <1>3, <1>4, <1>5, <1>6, <2>3
    <3> QED BY <1>15, <2>0, <2>3, <3>1
  <2> QED BY <2>2, <2>3
<1> HIDE DEF c3
<1>18. /\ c4 \in UnpackCmds(S) /\ c4.output = "out.exe"
       /\ (c4.data <=> opts.data) /\ (c4.shrink <=> opts.shrink) /\ ~c4.verbose /\ c4.packer = opts.packer /\ ~c4.noScylla
  <2>1. CASE ~opts.shrink
    <3> DEFINE e == [c3 EXCEPT !.shrink = FALSE]
    <3>1. /\ e \in UnpackCmds(S) /\ e.output = "out.exe"
          /\ (e.data <=> opts.data) /\ ~e.shrink /\ ~e.verbose /\ e.packer = opts.packer /\ ~e.noScylla
      BY <1>16, ShrinkSet
    <3>2. c4 = e
      BY <2>1
    <3> HIDE DEF e, c4
    <3> QED BY <1>2, <2>1, <3>1, <3>2
  <2>2. CASE ~(~opts.shrink)
    <3>1. c4 = c3
      BY <2>2
    <3> HIDE DEF c4
    <3> QED BY <1>2, <1>16, <2>2, <3>1
  <2> QED BY <2>1, <2>2
<1>19. run[s - 2] = ParseBegin(c4)
  <2>0. ~(~opts.shrink) => c4 = c3
    OBVIOUS
  <2>1. (~opts.shrink) => c4 = [c3 EXCEPT !.shrink = FALSE]
    OBVIOUS
  <2> HIDE DEF c4
  <2>2. CASE ~opts.shrink
    <3>1. s = d + 1 /\ s - 2 \in 1 .. v - 2 /\ (s - 2) - 1 = d - 2 /\ (s - 2) + 2 = s
      BY <1>3, <1>4, <1>5, <1>6, <2>2
    <3>2. run[s - 2] = Token("/unpack", run[(s - 2) - 1], args[(s - 2) + 2])
      BY <1>10, <3>1
    <3>3. run[s - 2] = Token("/unpack", ParseBegin(c3), "--no-shrink")
      BY <1>1, <1>17, <2>2, <3>1, <3>2
    <3>4. Token("/unpack", ParseBegin(c3), "--no-shrink") = ParseBegin([c3 EXCEPT !.shrink = FALSE])
      BY <1>16, OptionsRead
    <3> QED BY <2>1, <2>2, <3>3, <3>4
  <2>3. CASE ~(~opts.shrink)
    <3>1. s - 2 = d - 2
      BY <1>3, <1>4, <1>5, <1>6, <2>3
    <3> QED BY <1>17, <2>0, <2>3, <3>1
  <2> QED BY <2>2, <2>3
<1> HIDE DEF c4
<1>20. /\ c5 \in UnpackCmds(S) /\ c5.output = "out.exe"
       /\ (c5.data <=> opts.data) /\ (c5.shrink <=> opts.shrink) /\ (c5.verbose <=> opts.verbose) /\ c5.packer = opts.packer /\ ~c5.noScylla
  <2>1. CASE opts.verbose
    <3> DEFINE e == [c4 EXCEPT !.verbose = TRUE]
    <3>1. /\ e \in UnpackCmds(S) /\ e.output = "out.exe"
          /\ (e.data <=> opts.data) /\ (e.shrink <=> opts.shrink) /\ e.verbose /\ e.packer = opts.packer /\ ~e.noScylla
      BY <1>18, VerboseSet
    <3>2. c5 = e
      BY <2>1
    <3> HIDE DEF e, c5
    <3> QED BY <1>2, <2>1, <3>1, <3>2
  <2>2. CASE ~(opts.verbose)
    <3>1. c5 = c4
      BY <2>2
    <3> HIDE DEF c5
    <3> QED BY <1>2, <1>18, <2>2, <3>1
  <2> QED BY <2>1, <2>2
<1>21. run[v - 2] = ParseBegin(c5)
  <2>0. ~(opts.verbose) => c5 = c4
    OBVIOUS
  <2>1. (opts.verbose) => c5 = [c4 EXCEPT !.verbose = TRUE]
    OBVIOUS
  <2> HIDE DEF c5
  <2>2. CASE opts.verbose
    <3>1. v = s + 1 /\ v - 2 \in 1 .. v - 2 /\ (v - 2) - 1 = s - 2 /\ (v - 2) + 2 = v
      BY <1>3, <1>4, <1>5, <1>6, <2>2
    <3>2. run[v - 2] = Token("/unpack", run[(v - 2) - 1], args[(v - 2) + 2])
      BY <1>10, <3>1
    <3>3. run[v - 2] = Token("/unpack", ParseBegin(c4), "-v")
      BY <1>1, <1>19, <2>2, <3>1, <3>2
    <3>4. Token("/unpack", ParseBegin(c4), "-v") = ParseBegin([c4 EXCEPT !.verbose = TRUE])
      BY <1>18, OptionsRead
    <3> QED BY <2>1, <2>2, <3>3, <3>4
  <2>3. CASE ~(opts.verbose)
    <3>1. v - 2 = s - 2
      BY <1>3, <1>4, <1>5, <1>6, <2>3
    <3> QED BY <1>19, <2>0, <2>3, <3>1
  <2> QED BY <2>2, <2>3
<1> HIDE DEF c5
<1>22. ParseFrom(args) = c5
  BY <1>9, <1>21 DEF Complete, ParseBegin
<1>23. /\ c5.do = "unpack" /\ c5.output = "out.exe" /\ ~c5.noScylla
       /\ [verbose |-> c5.verbose, packer |-> c5.packer, data |-> c5.data, shrink |-> c5.shrink] = opts
  <2>1. opts = [verbose |-> opts.verbose, packer |-> opts.packer, data |-> opts.data, shrink |-> opts.shrink]
    BY DEF SpawnOptions
  <2>2. c5.do = "unpack"
    BY <1>20 DEF UnpackCmds
  <2>3. /\ c5.data \in BOOLEAN /\ c5.shrink \in BOOLEAN /\ c5.verbose \in BOOLEAN
    BY <1>20 DEF UnpackCmds
  <2>4. /\ c5.data = opts.data /\ c5.shrink = opts.shrink /\ c5.verbose = opts.verbose
    BY <1>2, <1>20, <2>3
  <2> QED BY <1>20, <2>1, <2>2, <2>4
<1> QED BY <1>22, <1>23 DEF args

LEMMA SameCmd ==
    ASSUME NEW S, NEW c \in UnpackCmds(S), NEW d \in UnpackCmds(S),
           c.input = d.input, c.output = d.output, c.data = d.data, c.shrink = d.shrink,
           c.verbose = d.verbose, c.packer = d.packer, c.noScylla = d.noScylla
    PROVE  c = d
<1>1. c.do = d.do
  BY DEF UnpackCmds
<1>2. c = [do |-> c.do, input |-> c.input, output |-> c.output, data |-> c.data, shrink |-> c.shrink,
           verbose |-> c.verbose, packer |-> c.packer, noScylla |-> c.noScylla]
  BY DEF UnpackCmds
<1>3. d = [do |-> d.do, input |-> d.input, output |-> d.output, data |-> d.data, shrink |-> d.shrink,
           verbose |-> d.verbose, packer |-> d.packer, noScylla |-> d.noScylla]
  BY DEF UnpackCmds
<1> QED BY <1>1, <1>2, <1>3, Zenon

\* A suggestion of the guided mode, however its fields were set
LEMMA SuggestedCmd ==
    ASSUME NEW S, NEW input \in S, NEW path \in S, NEW packer \in S, "default" \in S, "auto" \in S
    PROVE  LET c == [Unpack(input) EXCEPT !.output = path, !.packer = packer]
           IN /\ c \in UnpackCmds(S) /\ c.input = input /\ c.output = path /\ c.packer = packer
              /\ ~c.data /\ c.shrink /\ ~c.verbose /\ ~c.noScylla
<1> DEFINE c0 == Unpack(input)
           c == [c0 EXCEPT !.output = path, !.packer = packer]
<1>1. c0 \in UnpackCmds(S) /\ c0.input = input /\ ~c0.data /\ c0.shrink /\ ~c0.verbose /\ ~c0.noScylla
  BY DefaultCmd
<1> HIDE DEF c0
<1>2. c \in UnpackCmds(S)
  BY <1>1 DEF UnpackCmds
<1>3. c.input = input /\ c.output = path /\ c.packer = packer
  BY <1>1 DEF UnpackCmds
<1>4. ~c.data /\ c.shrink /\ ~c.verbose /\ ~c.noScylla
  BY <1>1 DEF UnpackCmds
<1> HIDE DEF c
<1> QED BY <1>2, <1>3, <1>4 DEF c, c0

AnalyzeCmds(S) == [do : {"analyze"}, input : S, extract : S, verbose : BOOLEAN]

AnalyzeCmd(input, path) == [do |-> "analyze", input |-> input, extract |-> path, verbose |-> FALSE]

LEMMA ExtractSet ==
    ASSUME NEW input, NEW path
    PROVE  [AnalyzeCmd(input, "none") EXCEPT !.extract = path] = AnalyzeCmd(input, path)
<1> DEFINE c == AnalyzeCmd(input, "none")
           d == [c EXCEPT !.extract = path]
           S == {input, "none", path}
<1>1. c \in AnalyzeCmds(S) /\ c.input = input /\ ~c.verbose
  BY DEF AnalyzeCmd, AnalyzeCmds
<1> HIDE DEF c, S
<1>2. d \in AnalyzeCmds(S) /\ d.input = input /\ ~d.verbose /\ d.extract = path
  <2>1. path \in S
    BY DEF S
  <2> QED BY <1>1, <2>1 DEF AnalyzeCmds
<1> HIDE DEF d
<1>3. d = [do |-> "analyze", input |-> d.input, extract |-> d.extract, verbose |-> d.verbose]
  BY <1>2 DEF AnalyzeCmds
<1>4. d.verbose = FALSE
  BY <1>2 DEF AnalyzeCmds
<1> QED BY <1>2, <1>3, <1>4 DEF AnalyzeCmd, d, c

LEMMA ExtractRead ==
    ASSUME NEW input, NEW path
    PROVE  Token("/analyze", Token("/analyze", ParseBegin(AnalyzeCmd(input, "none")), "--extract"), path)
           = ParseBegin(AnalyzeCmd(input, path))
<1> DEFINE c == AnalyzeCmd(input, "none")
           a == ParseBegin(c)
           e == [due |-> "--extract", cmd |-> c]
<1>1. a.due = "none" /\ a.cmd = c /\ e.due = "--extract" /\ e.cmd = c
  BY DEF ParseBegin
<1>2. c # Error
  <2>1. c.do = "analyze" /\ Error.do = "error"
    BY DEF AnalyzeCmd, Error
  <2> HIDE DEF c
  <2> QED BY <2>1
<1> HIDE DEF a, c
<1>3. AnalyzeToken(a, "--extract") = e
  BY <1>1, <1>2 DEF AnalyzeToken
<1> HIDE DEF e
<1>4. AnalyzeToken(e, path) = ParseBegin([c EXCEPT !.extract = path])
  BY <1>1, <1>2 DEF AnalyzeToken, ParseBegin
<1>5. [c EXCEPT !.extract = path] = AnalyzeCmd(input, path)
  BY ExtractSet DEF c
<1> QED BY <1>3, <1>4, <1>5 DEF Token, a, c

LEMMA TwoToks ==
    ASSUME NEW S, NEW x \in S, NEW y \in S
    PROVE  LET t == <<x>> \o <<y>>
           IN t \in Seq(S) /\ Len(t) = 2 /\ t[1] = x /\ t[2] = y
OBVIOUS

\* An option and its value behind a line
LEMMA TwoMore ==
    ASSUME NEW S, NEW s \in Seq(S), NEW x \in S, NEW y \in S
    PROVE  LET u == (s \o <<x>>) \o <<y>>
               n == Len(s)
           IN /\ u \in Seq(S) /\ Len(u) = n + 2 /\ n \in Nat
              /\ \A i \in 1 .. n : u[i] = s[i]
              /\ u[n + 1] = x /\ u[n + 2] = y
<1> DEFINE t == s \o <<x>>
           u == t \o <<y>>
           n == Len(s)
           a == <<x>>
           b == <<y>>
<1>1. a \in Seq(S) /\ Len(a) = 1 /\ a[1] = x /\ b \in Seq(S) /\ Len(b) = 1 /\ b[1] = y /\ n \in Nat
  OBVIOUS
<1> HIDE DEF a, b
<1>2. /\ s \o a \in Seq(S) /\ Len(s \o a) = n + 1
      /\ \A i \in 1 .. n : (s \o a)[i] = s[i]
      /\ (s \o a)[n + 1] = x
  BY <1>1, JoinTok
<1>3. /\ t \in Seq(S) /\ Len(t) = n + 1
      /\ \A i \in 1 .. n : t[i] = s[i]
      /\ t[n + 1] = x
  BY <1>2 DEF a
<1> HIDE DEF t
<1>4. /\ t \o b \in Seq(S) /\ Len(t \o b) = Len(t) + 1
      /\ \A i \in 1 .. Len(t) : (t \o b)[i] = t[i]
      /\ (t \o b)[Len(t) + 1] = y
  BY <1>1, <1>3, JoinTok
<1>5. /\ u \in Seq(S) /\ Len(u) = n + 2
      /\ \A i \in 1 .. n : u[i] = s[i]
      /\ u[n + 1] = x /\ u[n + 2] = y
  <2>1. Len(t) + 1 = n + 2 /\ n + 1 \in 1 .. Len(t) /\ 1 .. n \subseteq 1 .. Len(t)
    BY <1>1, <1>3
  <2>2. u = t \o b
    BY DEF b
  <2> HIDE DEF u
  <2> QED BY <1>3, <1>4, <2>1, <2>2
<1> HIDE DEF u
<1> QED BY <1>1, <1>5 DEF u, t

LEMMA TwoInOne ==
    ASSUME NEW S, NEW s \in Seq(S), NEW x \in S, NEW y \in S
    PROVE  LET u == s \o <<x, y>>
               n == Len(s)
           IN /\ u \in Seq(S) /\ Len(u) = n + 2 /\ n \in Nat
              /\ \A i \in 1 .. n : u[i] = s[i]
              /\ u[n + 1] = x /\ u[n + 2] = y
<1> DEFINE t == <<x, y>>
           u == s \o t
           n == Len(s)
<1>1. t \in Seq(S) /\ t[1] = x /\ t[2] = y /\ n \in Nat /\ Len(t) = 2
  OBVIOUS
<1> HIDE DEF t
<1>2. u \in Seq(S) /\ Len(u) = n + Len(t)
  <2>1. t \in Seq(S)
    BY <1>1
  <2> QED BY <2>1
<1>3. \A i \in 1 .. n : u[i] = s[i]
  BY <1>1
<1>4. \A i \in 1 .. Len(t) : u[n + i] = t[i]
  <2>1. t \in Seq(S)
    BY <1>1
  <2> QED BY <2>1
<1> HIDE DEF u
<1>5. Len(u) = n + 2 /\ u[n + 1] = x /\ u[n + 2] = y
  BY <1>1, <1>2, <1>4
<1> HIDE DEF n
<1> QED BY <1>1, <1>2, <1>3, <1>5 DEF u, t, n

LEMMA UnpackShown ==
    ASSUME Spaced = {}, NEW input \in Inputs, NEW path, NEW packer \in {"auto", "upx"},
           NEW shown, shown = [Unpack(input) EXCEPT !.output = path, !.packer = packer]
    PROVE  ParseFrom(Described(shown)) = shown
<1> DEFINE c == [Unpack(input) EXCEPT !.output = path, !.packer = packer]
           S == {"/unpack", "-o", "--packer", "default", "auto", "upx", input, path}
           b2 == <<"/unpack">> \o <<input>>
           b3 == b2 \o If(packer # "auto", <<"--packer", packer>>)
           args == (b3 \o <<"-o">>) \o <<path>>
           m == IF packer # "auto" THEN 4 ELSE 2
           rest == SubSeq(args, 3, Len(args))
           run == TokenRun("/unpack", Unpack(input), rest)
<1>1. /\ {"/unpack", "-o", "--packer", "default", "auto", input, path, packer} \subseteq S
  OBVIOUS
<1> HIDE DEF S
<1>2. /\ c \in UnpackCmds(S) /\ c.input = input /\ c.output = path /\ c.packer = packer
      /\ ~c.data /\ c.shrink /\ ~c.verbose /\ ~c.noScylla
  BY <1>1, SuggestedCmd, Zenon
<1>3. c.do = "unpack"
  BY <1>2 DEF UnpackCmds
<1> HIDE DEF c
<1>4. Described(c) = args
  BY <1>2, <1>3 DEF Described, Words
<1>5. b2 \in Seq(S) /\ Len(b2) = 2 /\ b2[1] = "/unpack" /\ b2[2] = input
  BY <1>1, TwoToks
<1> HIDE DEF b2
<1>6. /\ b3 \in Seq(S) /\ Len(b3) = m /\ b3[1] = "/unpack" /\ b3[2] = input
      /\ packer # "auto" => b3[3] = "--packer" /\ b3[4] = packer
  <2>1. CASE packer # "auto"
    <3> DEFINE u == b2 \o <<"--packer", packer>>
    <3>1. /\ u \in Seq(S) /\ Len(u) = Len(b2) + 2
          /\ \A i \in 1 .. Len(b2) : u[i] = b2[i]
          /\ u[Len(b2) + 1] = "--packer" /\ u[Len(b2) + 2] = packer
      <4>1. b2 \in Seq(S) /\ "--packer" \in S /\ packer \in S
        BY <1>1, <1>5
      <4> QED BY <4>1, TwoInOne
    <3>2. b3 = u
      BY <2>1 DEF If
    <3>3. m = 4 /\ Len(b2) = 2
      BY <1>5, <2>1
    <3> HIDE DEF u, b3, m
    <3>4. u \in Seq(S) /\ Len(u) = 4 /\ u[1] = b2[1] /\ u[2] = b2[2] /\ u[3] = "--packer" /\ u[4] = packer
      BY <3>1, <3>3
    <3> QED BY <1>5, <3>2, <3>3, <3>4
  <2>2. CASE packer = "auto"
    <3> DEFINE u == b2 \o <<>>
    <3>1. u \in Seq(S) /\ Len(u) = 2 /\ u[1] = b2[1] /\ u[2] = b2[2]
      <4> DEFINE e == <<>>
      <4>1. e \in Seq(S) /\ Len(e) = 0
        OBVIOUS
      <4> HIDE DEF e
      <4>2. /\ b2 \o e \in Seq(S) /\ Len(b2 \o e) = Len(b2)
            /\ \A i \in 1 .. Len(b2) : (b2 \o e)[i] = b2[i]
        BY <1>5, <4>1, JoinNone
      <4> QED BY <1>5, <4>2 DEF e
    <3>2. b3 = u /\ m = 2
      BY <2>2 DEF If
    <3> HIDE DEF u, b3, m
    <3> QED BY <1>5, <2>2, <3>1, <3>2
  <2> HIDE DEF b3, m
  <2> QED BY <2>1, <2>2
<1>7. m \in {2, 4} /\ (packer # "auto" => m = 4) /\ (packer = "auto" => m = 2)
  OBVIOUS
<1> HIDE DEF b3, m
<1>8. /\ args \in Seq(S) /\ Len(args) = m + 2
      /\ \A i \in 1 .. m : args[i] = b3[i]
      /\ args[m + 1] = "-o" /\ args[m + 2] = path
  <2>1. /\ args \in Seq(S) /\ Len(args) = Len(b3) + 2
        /\ \A i \in 1 .. Len(b3) : args[i] = b3[i]
        /\ args[Len(b3) + 1] = "-o" /\ args[Len(b3) + 2] = path
    BY <1>1, <1>6, TwoMore
  <2> HIDE DEF args
  <2> QED BY <1>6, <2>1
<1> HIDE DEF args
<1>9. args[1] = "/unpack" /\ args[2] = input /\ (packer # "auto" => args[3] = "--packer" /\ args[4] = packer)
  BY <1>6, <1>7, <1>8
<1>10. Len(rest) = m /\ \A i \in 1 .. m : rest[i] = args[i + 2]
  <2>1. Len(args) >= 3 /\ Len(args) - 2 = m
    BY <1>7, <1>8
  <2>2. Len(rest) = Len(args) - 2 /\ \A i \in 1 .. Len(args) - 2 : rest[i] = args[i + 2]
    BY <1>8, <2>1, RestAt
  <2> HIDE DEF rest
  <2> QED BY <2>1, <2>2
<1>11. ParseFrom(args) = Complete(run[m])
  <2>1. Len(args) >= 2 /\ args # <<>>
    BY <1>7, <1>8
  <2>2. ParseFrom(args) = ParseWord(args)
    BY <2>1 DEF ParseFrom
  <2>3. ParseWord(args) = UnpackOptions(Unpack(args[2]), rest)
    BY <1>9, <2>1 DEF ParseWord
  <2> QED BY <1>9, <1>10, <2>2, <2>3 DEF UnpackOptions
<1> HIDE DEF rest
<1>12. /\ run[0] = ParseBegin(Unpack(input))
       /\ \A n \in 1 .. m : run[n] = Token("/unpack", run[n - 1], args[n + 2])
  <2>1. Len(rest) \in Nat
    BY <1>7, <1>10
  <2>2. /\ run[0] = ParseBegin(Unpack(input))
        /\ \A n \in 1 .. Len(rest) : run[n] = Token("/unpack", run[n - 1], rest[n])
    BY <2>1, TokenRunIs
  <2> HIDE DEF run
  <2> QED BY <1>10, <2>2
<1> HIDE DEF run
<1> DEFINE c0 == Unpack(input)
           c1 == IF packer # "auto" THEN [c0 EXCEPT !.packer = packer] ELSE c0
           c2 == [c1 EXCEPT !.output = path]
<1>13. /\ c0 \in UnpackCmds(S) /\ c0.input = input /\ ~c0.data /\ c0.shrink /\ ~c0.verbose
       /\ c0.packer = "auto" /\ ~c0.noScylla
  BY <1>1, DefaultCmd
<1> HIDE DEF c0
<1>14. /\ c1 \in UnpackCmds(S) /\ c1.input = input /\ ~c1.data /\ c1.shrink /\ ~c1.verbose
       /\ c1.packer = packer /\ ~c1.noScylla
  <2>1. CASE packer # "auto"
    <3> DEFINE e == [c0 EXCEPT !.packer = packer]
    <3>1. /\ e \in UnpackCmds(S) /\ e.input = input /\ ~e.data /\ e.shrink /\ ~e.verbose
          /\ e.packer = packer /\ ~e.noScylla
      BY <1>1, <1>13, PackerSet
    <3>2. c1 = e
      BY <2>1
    <3> HIDE DEF e, c1
    <3> QED BY <3>1, <3>2
  <2>2. CASE packer = "auto"
    <3>1. c1 = c0
      BY <2>2
    <3> HIDE DEF c1
    <3> QED BY <1>13, <2>2, <3>1
  <2> HIDE DEF c1
  <2> QED BY <2>1, <2>2
<1>15. run[m - 2] = ParseBegin(c1)
  <2>0. (packer # "auto" => c1 = [c0 EXCEPT !.packer = packer]) /\ (packer = "auto" => c1 = c0)
    OBVIOUS
  <2> HIDE DEF c1
  <2>1. CASE packer # "auto"
    <3>1. m = 4
      BY <1>7, <2>1
    <3>2. run[1] = Token("/unpack", ParseBegin(c0), "--packer")
      BY <1>9, <1>12, <2>1, <3>1 DEF c0
    <3>3. run[2] = Token("/unpack", run[1], packer)
      BY <1>9, <1>12, <2>1, <3>1
    <3>4. Token("/unpack", Token("/unpack", ParseBegin(c0), "--packer"), packer) = ParseBegin([c0 EXCEPT !.packer = packer])
      BY <1>13, OptionsRead
    <3> QED BY <2>0, <2>1, <3>1, <3>2, <3>3, <3>4
  <2>2. CASE packer = "auto"
    <3>1. m - 2 = 0
      BY <1>7, <2>2
    <3> QED BY <1>12, <2>0, <2>2, <3>1 DEF c0
  <2> QED BY <2>1, <2>2
<1> HIDE DEF c1
<1>16. run[m] = ParseBegin(c2)
  <2>1. m - 1 \in 1 .. m /\ m \in 1 .. m /\ (m - 1) - 1 = m - 2 /\ (m - 1) + 2 = m + 1
    BY <1>7
  <2>2. run[m - 1] = Token("/unpack", ParseBegin(c1), "-o")
    <3>1. run[m - 1] = Token("/unpack", run[(m - 1) - 1], args[(m - 1) + 2])
      BY <1>12, <2>1
    <3> QED BY <1>8, <1>15, <2>1, <3>1
  <2>3. run[m] = Token("/unpack", run[m - 1], path)
    BY <1>8, <1>12, <2>1
  <2>4. Token("/unpack", Token("/unpack", ParseBegin(c1), "-o"), path) = ParseBegin(c2)
    BY <1>14, OptionsRead
  <2> HIDE DEF c2
  <2> QED BY <2>2, <2>3, <2>4
<1>17. /\ c2 \in UnpackCmds(S) /\ c2.input = input /\ ~c2.data /\ c2.shrink /\ ~c2.verbose
       /\ c2.packer = packer /\ ~c2.noScylla /\ c2.output = path
  BY <1>1, <1>14, OutputSet
<1> HIDE DEF c2
<1>18. c2 = c
  <2>1. /\ c2.data \in BOOLEAN /\ c2.shrink \in BOOLEAN /\ c2.verbose \in BOOLEAN /\ c2.noScylla \in BOOLEAN
        /\ c.data \in BOOLEAN /\ c.shrink \in BOOLEAN /\ c.verbose \in BOOLEAN /\ c.noScylla \in BOOLEAN
    BY <1>2, <1>17 DEF UnpackCmds
  <2>2. c2.data = c.data /\ c2.shrink = c.shrink /\ c2.verbose = c.verbose /\ c2.noScylla = c.noScylla
    BY <1>2, <1>17, <2>1
  <2>3. c2.input = c.input /\ c2.output = c.output /\ c2.packer = c.packer
    BY <1>2, <1>17
  <2> QED BY <1>2, <1>17, <2>2, <2>3, SameCmd
<1>19. ParseFrom(args) = c2
  BY <1>11, <1>16 DEF Complete, ParseBegin
<1>20. shown = c
  BY DEF c
<1> QED BY <1>4, <1>18, <1>19, <1>20

LEMMA AnalyzeShown ==
    ASSUME Spaced = {}, NEW input \in Inputs, NEW path
    PROVE  LET c == AnalyzeCmd(input, path) IN ParseFrom(Described(c)) = c
<1> DEFINE c == AnalyzeCmd(input, path)
           S == {"/analyze", "--extract", input, path}
           b2 == <<"/analyze">> \o <<input>>
           args == (b2 \o <<"--extract">>) \o <<path>>
           rest == SubSeq(args, 3, Len(args))
           run == TokenRun("/analyze", AnalyzeCmd(input, "none"), rest)
<1>1. {"/analyze", "--extract", input, path} \subseteq S
  OBVIOUS
<1> HIDE DEF S
<1>2. c.do = "analyze" /\ c.input = input /\ c.extract = path
  BY DEF AnalyzeCmd
<1> HIDE DEF c
<1>3. Described(c) = args
  BY <1>2 DEF Described, Words
<1>4. b2 \in Seq(S) /\ Len(b2) = 2 /\ b2[1] = "/analyze" /\ b2[2] = input
  BY <1>1, TwoToks
<1> HIDE DEF b2
<1>5. /\ args \in Seq(S) /\ Len(args) = 4
      /\ args[1] = "/analyze" /\ args[2] = input /\ args[3] = "--extract" /\ args[4] = path
  <2>1. /\ args \in Seq(S) /\ Len(args) = Len(b2) + 2
        /\ \A i \in 1 .. Len(b2) : args[i] = b2[i]
        /\ args[Len(b2) + 1] = "--extract" /\ args[Len(b2) + 2] = path
    <3>1. b2 \in Seq(S) /\ "--extract" \in S /\ path \in S
      BY <1>1, <1>4
    <3> QED BY <3>1, TwoMore
  <2> HIDE DEF args
  <2> QED BY <1>4, <2>1
<1> HIDE DEF args
<1>6. Len(rest) = 2 /\ rest[1] = "--extract" /\ rest[2] = path
  <2>1. Len(args) >= 3 /\ Len(args) - 2 = 2
    BY <1>5
  <2>2. Len(rest) = Len(args) - 2 /\ \A i \in 1 .. Len(args) - 2 : rest[i] = args[i + 2]
    BY <1>5, <2>1, RestAt
  <2> HIDE DEF rest
  <2>3. Len(rest) = 2 /\ rest[1] = args[3] /\ rest[2] = args[4]
    BY <2>1, <2>2
  <2> QED BY <1>5, <2>3
<1>7. ParseFrom(args) = Complete(run[2])
  <2>1. Len(args) >= 2 /\ args # <<>>
    BY <1>5
  <2>2. ParseFrom(args) = ParseWord(args)
    BY <2>1 DEF ParseFrom
  <2>3. ParseWord(args) = AnalyzeOptions(AnalyzeCmd(args[2], "none"), rest)
    BY <1>5, <2>1 DEF ParseWord, AnalyzeCmd
  <2> QED BY <1>5, <1>6, <2>2, <2>3 DEF AnalyzeOptions
<1> HIDE DEF rest
<1>8. run[2] = ParseBegin(c)
  <2>1. Len(rest) \in Nat
    BY <1>6
  <2>2. /\ run[0] = ParseBegin(AnalyzeCmd(input, "none"))
        /\ \A n \in 1 .. Len(rest) : run[n] = Token("/analyze", run[n - 1], rest[n])
    BY <2>1, TokenRunIs
  <2> HIDE DEF run
  <2>3. run[1] = Token("/analyze", run[0], rest[1]) /\ run[2] = Token("/analyze", run[1], rest[2])
    BY <1>6, <2>2
  <2> QED BY <1>6, <2>2, <2>3, ExtractRead DEF c
<1> HIDE DEF run
<1> QED BY <1>3, <1>7, <1>8 DEF Complete, ParseBegin, c

LEMMA VerifyShown ==
    ASSUME Spaced = {}, NEW unpacked \in Inputs, NEW reference \in Inputs
    PROVE  LET c == [do |-> "verify", unpacked |-> unpacked, reference |-> reference]
           IN ParseFrom(Described(c)) = c
<1> DEFINE c == [do |-> "verify", unpacked |-> unpacked, reference |-> reference]
           S == {"/verify", unpacked, reference}
           b1 == <<"/verify">>
           args == (b1 \o <<unpacked>>) \o <<reference>>
<1>1. c.do = "verify" /\ c.unpacked = unpacked /\ c.reference = reference
  OBVIOUS
<1> HIDE DEF c
<1>2. Described(c) = args
  BY <1>1 DEF Described, Words
<1>3. b1 \in Seq(S) /\ unpacked \in S /\ reference \in S /\ Len(b1) = 1 /\ b1[1] = "/verify"
  OBVIOUS
<1> HIDE DEF S, b1
<1>4. Len(args) = 3 /\ args[1] = "/verify" /\ args[2] = unpacked /\ args[3] = reference
  <2>1. /\ Len(args) = Len(b1) + 2
        /\ \A i \in 1 .. Len(b1) : args[i] = b1[i]
        /\ args[Len(b1) + 1] = unpacked /\ args[Len(b1) + 2] = reference
    <3>1. b1 \in Seq(S) /\ unpacked \in S /\ reference \in S
      BY <1>3
    <3> QED BY <3>1, TwoMore
  <2> HIDE DEF args
  <2> QED BY <1>3, <2>1
<1> HIDE DEF args
<1>5. args # <<>>
  BY <1>4
<1>6. ParseFrom(args) = ParseWord(args)
  BY <1>5 DEF ParseFrom
<1>7. ParseWord(args) = [do |-> "verify", unpacked |-> args[2], reference |-> args[3]]
  BY <1>4 DEF ParseWord
<1> QED BY <1>2, <1>4, <1>6, <1>7 DEF c

\* What the guided mode asks to confirm
Confirmable(c) ==
    \/ \E input \in Inputs : \E packer \in {"auto", "upx"}, answer \in {DefaultOutput(input), "out.exe", "q"} :
          c = [Unpack(input) EXCEPT !.output = answer, !.packer = packer]
    \/ \E input \in Inputs : \E answer \in {DefaultOutput(input), "out.exe", "q"} : c = AnalyzeCmd(input, answer)
    \/ \E unpacked \in Inputs, reference \in Inputs :
          c = [do |-> "verify", unpacked |-> unpacked, reference |-> reference]

\* Where a request is still to arrive, and what stands behind a question
ReadInv ==
    /\ request # Nothing => stage \in {"arguments", "dispatch", "exit"}
    /\ stage = "arguments" /\ request # Nothing =>
          \E opts \in SpawnOptions, input \in Inputs :
             request = opts /\ argv = UnpackArgs(input, "out.exe", opts)
    /\ stage \in {"path", "reference"} => cmd.input \in Inputs
    /\ stage = "confirm" => Confirmable(cmd)
    /\ RequestArrives

LEMMA ConfirmableRead ==
    ASSUME NEW c, Confirmable(c), Spaced = {}
    PROVE  ParseFrom(Described(c)) = c
<1>1. ASSUME NEW input \in Inputs, NEW packer \in {"auto", "upx"}, NEW answer,
             c = [Unpack(input) EXCEPT !.output = answer, !.packer = packer]
      PROVE  ParseFrom(Described(c)) = c
  BY <1>1, UnpackShown, Zenon
<1>2. ASSUME NEW input \in Inputs, NEW answer, c = AnalyzeCmd(input, answer)
      PROVE  ParseFrom(Described(c)) = c
  BY <1>2, AnalyzeShown
<1>3. ASSUME NEW unpacked \in Inputs, NEW reference \in Inputs,
             c = [do |-> "verify", unpacked |-> unpacked, reference |-> reference]
      PROVE  ParseFrom(Described(c)) = c
  BY <1>3, VerifyShown
<1> QED BY <1>1, <1>2, <1>3 DEF Confirmable

LEMMA SuggestedConfirmable ==
    ASSUME NEW pe, NEW input \in Inputs, NEW answer \in {"", "out.exe", "q"}
    PROVE  Confirmable(Suggested(pe, input, answer))
<1> DEFINE path == IF answer = "" THEN DefaultOutput(input) ELSE answer
           packer == IF Verdict(pe) = "upx" THEN "upx" ELSE "auto"
<1>1. path \in {DefaultOutput(input), "out.exe", "q"} /\ packer \in {"auto", "upx"}
  BY Zenon
<1>2. \/ Suggested(pe, input, answer) = [Unpack(input) EXCEPT !.output = path, !.packer = packer]
      \/ Suggested(pe, input, answer) = AnalyzeCmd(input, path)
  BY Zenon DEF Suggested, AnalyzeCmd
<1> HIDE DEF path, packer
<1> QED BY <1>1, <1>2 DEF Confirmable

LEMMA ReadInvInit == Init => ReadInv
BY DEF Init, CliInit, ReadInv, RequestArrives

LEMMA LeaveReads == ASSUME ReadInv, NEW ok, Leave(ok) PROVE ReadInv'
BY DEF Leave, ReadInv, RequestArrives

LEMMA FinishReads ==
    ASSUME ReadInv, stage = "running" \/ request = Nothing, NEW ok, Finish(ok)
    PROVE  ReadInv'
<1>1. CASE home = "wizard"
  BY <1>1 DEF Finish, ReadInv, RequestArrives
<1>2. CASE home # "wizard"
  BY <1>2, LeaveReads DEF Finish
<1> QED BY <1>1, <1>2

LEMMA RunReads ==
    ASSUME NEW c, NEW pe, NEW verdict, Run(c, pe, verdict)
    PROVE  ReadInv'
BY DEF Run, ReadInv, RequestArrives

LEMMA ParseReads ==
    ASSUME ReadInv, Parse
    PROVE  ReadInv'
<1>1. stage = "arguments" /\ stage' = "dispatch" /\ request' = request /\ cmd' = ParseFrom(argv)
  BY DEF Parse
<1>2. CASE request = Nothing
  BY <1>1, <1>2 DEF ReadInv, RequestArrives
<1>3. CASE request # Nothing
  <2>1. PICK opts \in SpawnOptions, input \in Inputs : request = opts /\ argv = UnpackArgs(input, "out.exe", opts)
    BY <1>1, <1>3 DEF ReadInv
  <2>2. LET c == ParseFrom(UnpackArgs(input, "out.exe", opts))
        IN /\ c.do = "unpack" /\ c.output = "out.exe" /\ ~c.noScylla
           /\ [verbose |-> c.verbose, packer |-> c.packer, data |-> c.data, shrink |-> c.shrink] = opts
    BY RequestRead
  <2>3. /\ cmd'.do = "unpack" /\ cmd'.output = "out.exe" /\ ~cmd'.noScylla
        /\ [verbose |-> cmd'.verbose, packer |-> cmd'.packer, data |-> cmd'.data, shrink |-> cmd'.shrink] = request'
    BY <1>1, <2>1, <2>2
  <2>4. RequestArrives'
    BY <2>3 DEF RequestArrives
  <2> QED BY <1>1, <2>4 DEF ReadInv
<1> QED BY <1>2, <1>3

LEMMA CliReads ==
    ASSUME ReadInv, CliNext
    PROVE  ReadInv'
<1>1. CASE Parse
  BY <1>1, ParseReads
<1>2. CASE DispatchUnpack
  BY <1>2, RunReads, Zenon DEF DispatchUnpack
<1>3. CASE DispatchAnalyze
  BY <1>3, RunReads DEF DispatchAnalyze
<1>4. CASE DispatchOther
  BY <1>4, RunReads DEF DispatchOther
<1>5. CASE DispatchError
  BY <1>5, LeaveReads DEF DispatchError
<1>6. CASE DispatchInteractive
  <2>1. CASE Leave(TRUE)
    BY <2>1, LeaveReads, Zenon
  <2>2. CASE stage' = "mode" /\ request' = Nothing
    BY <2>2 DEF ReadInv, RequestArrives
  <2> QED BY <1>6, <2>1, <2>2 DEF DispatchInteractive
<1>7. CASE RunEnds
  BY <1>7, FinishReads, Zenon DEF RunEnds
<1>8. CASE EndOfInput
  BY <1>8, LeaveReads, Zenon DEF EndOfInput
<1>9. ASSUME NEW question \in {"mode", "file", "unpacked", "again"}, Ask(question), request = Nothing
      PROVE  ReadInv'
  BY <1>9 DEF Ask, ReadInv, RequestArrives
<1>10. CASE AnswerMode
  BY <1>9, <1>10, LeaveReads DEF AnswerMode, ReadInv
<1>11. CASE AnswerFile
  <2>1. CASE Leave(TRUE)
    BY <2>1, LeaveReads, Zenon
  <2>2. ASSUME NEW input \in Inputs, Ask("path"), cmd' = [do |-> "chosen", input |-> input]
        PROVE  ReadInv'
    BY <1>11, <2>2 DEF AnswerFile, Ask, ReadInv, RequestArrives
  <2>3. CASE Ask("again")
    BY <1>9, <1>11, <2>3 DEF AnswerFile, ReadInv
  <2> QED BY <1>11, <2>1, <2>2, <2>3 DEF AnswerFile
<1>12. CASE AnswerPath
  <2>1. PICK answer \in {"", "out.exe", "q"} : cmd' = Suggested(target, cmd.input, answer)
    BY <1>12, Zenon DEF AnswerPath
  <2>2. cmd.input \in Inputs /\ request = Nothing /\ stage' = "confirm" /\ request' = request
    BY <1>12, Zenon DEF AnswerPath, Ask, ReadInv
  <2>3. Confirmable(cmd')
    BY <2>1, <2>2, SuggestedConfirmable, Zenon
  <2> QED BY <2>2, <2>3, Zenon DEF ReadInv, RequestArrives
<1>13. CASE AnswerUnpacked
  <2>1. CASE Leave(TRUE)
    BY <2>1, LeaveReads, Zenon
  <2>2. ASSUME NEW path \in Inputs, Ask("reference"), cmd' = [do |-> "chosen", input |-> path]
        PROVE  ReadInv'
    BY <1>13, <2>2 DEF AnswerUnpacked, Ask, ReadInv, RequestArrives
  <2> QED BY <1>13, <2>1, <2>2 DEF AnswerUnpacked
<1>14. CASE AnswerReference
  <2>1. CASE Leave(TRUE)
    BY <2>1, LeaveReads, Zenon
  <2>2. ASSUME NEW path \in Inputs, Ask("confirm"),
               cmd' = [do |-> "verify", unpacked |-> cmd.input, reference |-> path]
        PROVE  ReadInv'
    <3>1. cmd.input \in Inputs /\ request = Nothing /\ stage' = "confirm" /\ request' = request
      BY <1>14, <2>2 DEF AnswerReference, Ask, ReadInv
    <3>2. Confirmable(cmd')
      BY <2>2, <3>1, Zenon DEF Confirmable
    <3> QED BY <3>1, <3>2 DEF ReadInv, RequestArrives
  <2> QED BY <1>14, <2>1, <2>2 DEF AnswerReference
<1>15. CASE AnswerConfirm
  BY <1>9, <1>15 DEF AnswerConfirm, Ask, ReadInv, RequestArrives
<1>16. CASE AnswerAgain
  BY <1>9, <1>16, LeaveReads DEF AnswerAgain, ReadInv
<1> QED
  BY <1>1, <1>2, <1>3, <1>4, <1>5, <1>6, <1>7, <1>8, <1>10, <1>11, <1>12,
     <1>13, <1>14, <1>15, <1>16 DEF CliNext

\* The unpacker runs only when a request has been taken up
NoRequestMeanwhile == phase # "off" => request = Nothing

LEMMA ReadInvStep == ReadInv /\ NoRequestMeanwhile /\ [Next]_vars => ReadInv' /\ NoRequestMeanwhile'
<1> SUFFICES ASSUME ReadInv, NoRequestMeanwhile, [Next]_vars PROVE ReadInv' /\ NoRequestMeanwhile'
  OBVIOUS
<1>1. CASE CliNext /\ UNCHANGED upxVars
  <2>1. ReadInv'
    BY <1>1, CliReads
  <2>2. request' \in {request, Nothing}
    BY <1>1, Zenon DEF CliNext, Parse, DispatchUnpack, DispatchAnalyze, DispatchOther, DispatchError, Run,
                DispatchInteractive, RunEnds, Finish, Leave, EndOfInput, AnswerMode, AnswerFile, AnswerPath,
                AnswerUnpacked, AnswerReference, AnswerConfirm, AnswerAgain, Ask
  <2> QED BY <1>1, <2>1, <2>2 DEF NoRequestMeanwhile, upxVars
<1>2. CASE StartUpx
  <2>1. stage = "running"
    BY <1>2, Zenon DEF StartUpx
  <2>2. request' = request /\ request = Nothing
    BY <1>2, <2>1, Zenon DEF StartUpx, Forget, ReadInv
  <2>3. ReadInv'
    BY <1>2, Zenon DEF StartUpx, Forget, ReadInv, RequestArrives
  <2> QED BY <2>2, <2>3 DEF NoRequestMeanwhile
<1>3. CASE StartDump
  BY <1>3, Zenon DEF StartDump, Forget, ReadInv, RequestArrives, NoRequestMeanwhile, upxVars
<1>4. CASE UpxReturns
  <2>1. request = Nothing /\ phase' = "off"
    BY <1>4 DEF UpxReturns, NoRequestMeanwhile
  <2> QED BY <1>4, <2>1, FinishReads DEF UpxReturns, NoRequestMeanwhile
<1>5. CASE DumpReturns
  <2>1. request = Nothing /\ phase' = phase /\ request' = request
    BY <1>5 DEF DumpReturns, ReadInv, upxVars, Finish, Leave
  <2> QED BY <1>5, <2>1, FinishReads DEF DumpReturns, NoRequestMeanwhile
<1>6. CASE UNCHANGED cliVars
  <2>1. ReadInv' /\ request' = request
    BY <1>6 DEF cliVars, ReadInv, RequestArrives
  <2>2. CASE UpxNext
    <3>1. phase # "off"
      <4>1. CASE FindHeader
        BY <4>1 DEF FindHeader
      <4>2. CASE Decode
        BY <4>2 DEF Decode
      <4>3. CASE Unfilter
        BY <4>3 DEF Unfilter
      <4>4. CASE BeginImports
        BY <4>4 DEF BeginImports
      <4>5. CASE RebuildDll
        BY <4>5 DEF RebuildDll
      <4>6. CASE BeginRelocs
        BY <4>6 DEF BeginRelocs
      <4>7. CASE DecodeDelta
        BY <4>7 DEF DecodeDelta
      <4>8. CASE BuildBlocks
        BY <4>8 DEF BuildBlocks
      <4>9. CASE BeginResources
        BY <4>9 DEF BeginResources
      <4>10. CASE BuildNode
        BY <4>10 DEF BuildNode
      <4>11. CASE PhaseDone
        BY <4>11 DEF PhaseDone, PhaseOver
      <4>12. CASE Assemble
        BY <4>12 DEF Assemble
      <4> QED BY <2>2, <4>1, <4>2, <4>3, <4>4, <4>5, <4>6, <4>7, <4>8, <4>9, <4>10, <4>11, <4>12 DEF UpxNext
    <3> QED BY <2>1, <3>1 DEF NoRequestMeanwhile
  <2>3. CASE phase' = phase
    BY <2>1, <2>3 DEF NoRequestMeanwhile
  <2>4. UpxNext \/ phase' = phase \/ StartUpx \/ UpxReturns
    BY Zenon DEF Next, vars, upxVars, StartDump, DumpReturns
  <2> QED BY <1>2, <1>4, <2>2, <2>3, <2>4
<1> QED
  BY <1>1, <1>2, <1>3, <1>4, <1>5, <1>6 DEF Next, vars

\* What a front-end asks for reaches the program whatever the options are, and
\* the line the guided mode shows for an answer parses to the command it will
\* run, when no file name has a space in it.  (job.rs, args.rs, interactive.rs)
THEOREM CommandsReadBack == Spec => []CommandsAreReadBack
<1>1. Init => NoRequestMeanwhile
  BY DEF Init, UpxInit, NoRequestMeanwhile
<1>2. ReadInv => CommandsAreReadBack
  BY ConfirmableRead DEF ReadInv, CommandsAreReadBack, ShownLineIsTheCommand
<1> QED
  BY <1>1, <1>2, ReadInvInit, ReadInvStep, PTL DEF Spec

-----------------------------------------------------------------------------
(* The guided mode *)

\* What the guided mode has found out before it dispatches a command
Suggestion(c, pe) ==
    /\ pe.readable /\ ~IsVmp(pe)
    /\ c.packer = IF IsUpx(pe) THEN "upx" ELSE "auto"

WizardInv ==
    /\ stage = "arguments" => home = "program"
    /\ stage = "path" => target.readable
    /\ stage \in {"confirm", "dispatch"} /\ home = "wizard" /\ cmd.do = "unpack" =>
          Suggestion(cmd, target)
    /\ SuggestionPassesTheGate

LEMMA SuggestedPasses ==
    ASSUME NEW pe, NEW input, NEW answer, pe.readable,
           Suggested(pe, input, answer).do = "unpack"
    PROVE  Suggestion(Suggested(pe, input, answer), pe)
<1>1. CASE IsVmp(pe)
  <2>1. Verdict(pe) = "vmprotect"
    BY <1>1 DEF Verdict
  <2> QED BY <2>1, Zenon DEF Suggested
<1>2. CASE ~IsVmp(pe) /\ IsUpx(pe)
  <2>1. Verdict(pe) = "upx"
    BY <1>2 DEF Verdict
  <2> QED BY <1>2, <2>1 DEF Suggested, Unpack, Suggestion
<1>3. CASE ~IsVmp(pe) /\ ~IsUpx(pe)
  <2>1. Verdict(pe) \in {"themida", "unknown"}
    BY <1>3 DEF Verdict
  <2> QED BY <1>3, <2>1, Zenon DEF Suggested, Unpack, Suggestion
<1> QED BY <1>1, <1>2, <1>3

LEMMA GatePasses ==
    ASSUME NEW c, NEW pe, Suggestion(c, pe)
    PROVE  /\ IsUpx(pe) => Gate(c.packer, pe) = [route |-> "static"]
           /\ ~IsUpx(pe) => Gate(c.packer, pe).route = "live"
<1>1. CASE IsUpx(pe)
  BY <1>1 DEF Suggestion, Gate
<1>2. CASE ~IsUpx(pe)
  <2>1. Gate(c.packer, pe) = Live("themida")
    BY <1>2 DEF Suggestion, Gate, Detected
  <2> QED BY <1>2, <2>1 DEF Live
<1> QED BY <1>1, <1>2

LEMMA WizardInvInit == Init => WizardInv
BY DEF Init, CliInit, WizardInv, SuggestionPassesTheGate

LEMMA LeaveKeeps == ASSUME NEW ok, Leave(ok) PROVE WizardInv'
BY DEF Leave, WizardInv, SuggestionPassesTheGate

LEMMA FinishKeeps ==
    ASSUME WizardInv, NEW ok, Finish(ok)
    PROVE  WizardInv'
<1>1. CASE home = "wizard"
  BY <1>1 DEF Finish, WizardInv, SuggestionPassesTheGate
<1>2. CASE home # "wizard"
  BY <1>2, LeaveKeeps DEF Finish
<1> QED BY <1>1, <1>2

LEMMA DispatchUnpackKeeps ==
    ASSUME WizardInv, DispatchUnpack
    PROVE  WizardInv'
<1>1. PICK pe \in Candidates :
        LET gate == Gate(cmd.packer, pe)
        IN Run([do |-> "unpack", packer |-> cmd.packer], pe,
               CASE ~pe.readable -> [route |-> "unreadable"]
                 [] pe.readable /\ gate.route = "live" /\ pe.entryInFirst -> [route |-> "not themida"]
                 [] OTHER -> gate)
  BY Zenon DEF DispatchUnpack
<1>2. stage' = "running" /\ target' = pe /\ home' = home
  BY <1>1, Zenon DEF Run
<1>3. CASE home = "wizard"
  <2>1. pe = target /\ Suggestion(cmd, pe)
    BY <1>3, Zenon DEF Candidates, DispatchUnpack, WizardInv
  <2>2. pe.readable
    BY <2>1 DEF Suggestion
  <2>3. CASE IsUpx(pe)
    <3>1. Gate(cmd.packer, pe) = [route |-> "static"]
      BY <2>1, <2>3, GatePasses
    <3>2. result' = [route |-> "static"]
      BY <1>1, <2>2, <3>1 DEF Run
    <3> QED BY <1>2, <2>3, <3>2 DEF WizardInv, SuggestionPassesTheGate
  <2>4. CASE ~IsUpx(pe)
    <3>1. Gate(cmd.packer, pe).route = "live"
      BY <2>1, <2>4, GatePasses
    <3>2. result'.route \in {"live", "not themida"}
      BY <1>1, <2>2, <3>1, Zenon DEF Run
    <3> QED BY <1>2, <2>4, <3>2, Zenon DEF WizardInv, SuggestionPassesTheGate
  <2> QED BY <2>3, <2>4
<1>4. CASE home # "wizard"
  BY <1>2, <1>4 DEF WizardInv, SuggestionPassesTheGate
<1> QED BY <1>3, <1>4

LEMMA CliKeeps ==
    ASSUME WizardInv, CliNext
    PROVE  WizardInv'
<1>1. CASE Parse
  BY <1>1 DEF Parse, WizardInv, SuggestionPassesTheGate
<1>2. CASE DispatchUnpack
  BY <1>2, DispatchUnpackKeeps
<1>3. CASE DispatchAnalyze
  BY <1>3 DEF DispatchAnalyze, Run, WizardInv, SuggestionPassesTheGate
<1>4. CASE DispatchOther
  BY <1>4 DEF DispatchOther, Run, WizardInv, SuggestionPassesTheGate
<1>5. CASE DispatchError
  BY <1>5, LeaveKeeps DEF DispatchError
<1>6. CASE DispatchInteractive
  <2>1. CASE Leave(TRUE)
    BY <2>1, LeaveKeeps, Zenon
  <2>2. CASE stage' = "mode"
    BY <2>2 DEF WizardInv, SuggestionPassesTheGate
  <2> QED BY <1>6, <2>1, <2>2 DEF DispatchInteractive
<1>7. CASE RunEnds
  BY <1>7, FinishKeeps, Zenon DEF RunEnds
<1>8. CASE EndOfInput
  BY <1>8, LeaveKeeps, Zenon DEF EndOfInput
<1>9. CASE AnswerMode
  BY <1>9, LeaveKeeps DEF AnswerMode, Ask, WizardInv, SuggestionPassesTheGate
<1>10. CASE AnswerFile
  BY <1>10, LeaveKeeps DEF AnswerFile, Ask, WizardInv, SuggestionPassesTheGate
<1>11. CASE AnswerPath
  <2>1. PICK answer \in {"", "out.exe", "q"} : cmd' = Suggested(target, cmd.input, answer)
    BY <1>11, Zenon DEF AnswerPath
  <2>2. target.readable /\ stage' = "confirm" /\ target' = target
    BY <1>11, Zenon DEF AnswerPath, Ask, WizardInv
  <2>3. cmd'.do = "unpack" => Suggestion(cmd', target)
    BY <2>1, <2>2, SuggestedPasses, Zenon
  <2> QED BY <2>2, <2>3, Zenon DEF WizardInv, SuggestionPassesTheGate
<1>12. CASE AnswerUnpacked
  <2>1. CASE Leave(TRUE)
    BY <2>1, LeaveKeeps, Zenon
  <2>2. CASE stage' = "reference"
    BY <2>2 DEF WizardInv, SuggestionPassesTheGate
  <2> QED BY <1>12, <2>1, <2>2 DEF AnswerUnpacked, Ask
<1>13. CASE AnswerReference
  <2>1. CASE Leave(TRUE)
    BY <2>1, LeaveKeeps, Zenon
  <2>2. ASSUME NEW path \in Inputs, Ask("confirm"),
               cmd' = [do |-> "verify", unpacked |-> cmd.input, reference |-> path]
        PROVE  WizardInv'
    BY <2>2 DEF Ask, WizardInv, SuggestionPassesTheGate
  <2> QED BY <1>13, <2>1, <2>2 DEF AnswerReference
<1>14. CASE AnswerConfirm
  BY <1>14 DEF AnswerConfirm, Ask, WizardInv, SuggestionPassesTheGate
<1>15. CASE AnswerAgain
  BY <1>15, LeaveKeeps DEF AnswerAgain, Ask, WizardInv, SuggestionPassesTheGate
<1> QED
  BY <1>1, <1>2, <1>3, <1>4, <1>5, <1>6, <1>7, <1>8, <1>9, <1>10, <1>11,
     <1>12, <1>13, <1>14, <1>15 DEF CliNext

LEMMA WizardInvStep == WizardInv /\ [Next]_vars => WizardInv'
<1> SUFFICES ASSUME WizardInv, [Next]_vars PROVE WizardInv'
  OBVIOUS
<1>1. CASE CliNext
  BY <1>1, CliKeeps
<1>2. CASE StartUpx
  BY <1>2, Zenon DEF StartUpx, Forget, WizardInv, SuggestionPassesTheGate, Nothing
<1>3. CASE StartDump
  BY <1>3, Zenon DEF StartDump, Forget, WizardInv, SuggestionPassesTheGate, Nothing
<1>4. CASE UpxReturns
  BY <1>4, FinishKeeps DEF UpxReturns
<1>5. CASE DumpReturns
  BY <1>5, FinishKeeps DEF DumpReturns
<1>6. CASE UNCHANGED cliVars
  BY <1>6 DEF cliVars, WizardInv, SuggestionPassesTheGate
<1> QED
  BY <1>1, <1>2, <1>3, <1>4, <1>5, <1>6 DEF Next, vars

\* A suggestion the user confirms is never turned away by the test of the unpack
\* command, because the file is still the one the detection has read and the
\* suggestion names the packer the gate will find.  (interactive.rs, main.rs)
THEOREM SuggestionsPassTheGate == Spec => []SuggestionPassesTheGate
<1>1. WizardInv => SuggestionPassesTheGate
  BY DEF WizardInv
<1> QED
  BY <1>1, WizardInvInit, WizardInvStep, PTL DEF Spec

-----------------------------------------------------------------------------
(* The run of a front-end, for every amount of output and every number of      *)
(* drain rounds                                                                *)

(* What Append and Tail do to the lines in a queue.                        *)
LEMMA HasAppend ==
    ASSUME NEW S, NEW queue \in Seq(S), NEW x \in S, NEW line
    PROVE  /\ Append(queue, x) \in Seq(S)
           /\ Has(Append(queue, x), line) <=> Has(queue, line) \/ x = line
<1> DEFINE longer == Append(queue, x)
<1>1. /\ longer \in Seq(S)
      /\ DOMAIN longer = 1 .. Len(queue) + 1 /\ DOMAIN queue = 1 .. Len(queue)
      /\ Len(queue) \in Nat
      /\ longer[Len(queue) + 1] = x
      /\ \A i \in 1 .. Len(queue) : longer[i] = queue[i]
    OBVIOUS
<1>2. Has(longer, line) => Has(queue, line) \/ x = line
  <2> SUFFICES ASSUME NEW i \in DOMAIN longer, longer[i] = line
               PROVE  Has(queue, line) \/ x = line
      BY DEF Has
  <2>1. CASE i = Len(queue) + 1 BY <1>1, <2>1
  <2>2. CASE i # Len(queue) + 1
    <3>1. i \in DOMAIN queue BY <1>1, <2>2
    <3> QED BY <1>1, <3>1 DEF Has
  <2> QED BY <2>1, <2>2
<1>3. Has(queue, line) => Has(longer, line)
  <2> SUFFICES ASSUME NEW i \in DOMAIN queue, queue[i] = line
               PROVE  Has(longer, line)
      BY DEF Has
  <2>1. i \in DOMAIN longer /\ longer[i] = line BY <1>1
  <2> QED BY <2>1 DEF Has
<1>4. x = line => Has(longer, line)
  <2>1. Len(queue) + 1 \in DOMAIN longer BY <1>1
  <2> QED BY <1>1, <2>1 DEF Has
<1> QED BY <1>1, <1>2, <1>3, <1>4

LEMMA HasTail ==
    ASSUME NEW S, NEW queue \in Seq(S), queue # <<>>, NEW line
    PROVE  /\ Tail(queue) \in Seq(S) /\ Head(queue) \in S
           /\ Has(queue, line) <=> Head(queue) = line \/ Has(Tail(queue), line)
<1> DEFINE rest == Tail(queue)
<1>1. /\ rest \in Seq(S) /\ Head(queue) \in S
      /\ Len(queue) \in Nat \ {0}
      /\ DOMAIN queue = 1 .. Len(queue) /\ DOMAIN rest = 1 .. Len(queue) - 1
      /\ Head(queue) = queue[1]
      /\ \A i \in 1 .. Len(queue) - 1 : rest[i] = queue[i + 1]
    OBVIOUS
<1>2. Has(queue, line) => Head(queue) = line \/ Has(rest, line)
  <2> SUFFICES ASSUME NEW i \in DOMAIN queue, queue[i] = line, i # 1
               PROVE  Has(rest, line)
      BY <1>1 DEF Has
  <2>1. i - 1 \in DOMAIN rest /\ rest[i - 1] = line BY <1>1
  <2> QED BY <2>1 DEF Has
<1>3. Has(rest, line) => Has(queue, line)
  <2> SUFFICES ASSUME NEW i \in DOMAIN rest, rest[i] = line
               PROVE  Has(queue, line)
      BY DEF Has
  <2>1. i + 1 \in DOMAIN queue /\ queue[i + 1] = line BY <1>1
  <2> QED BY <2>1 DEF Has
<1>4. Head(queue) = line => Has(queue, line)
  <2>1. 1 \in DOMAIN queue BY <1>1
  <2> QED BY <1>1, <2>1 DEF Has
<1> QED BY <1>1, <1>2, <1>3, <1>4

(***************************************************************************)
(* Type correctness.                                                       *)
(***************************************************************************)
Queues == pipe \in Seq(Lines) /\ chan \in Seq(Lines \cup {"exited"})

LEMMA QueuesTyped == TypeOK /\ [JobNext]_jobVars => Queues'
<1> SUFFICES ASSUME TypeOK, [JobNext]_jobVars PROVE Queues'
    OBVIOUS
<1> DEFINE Said == Lines \cup {"exited"}
<1>0. /\ pipe \in Seq(Lines) /\ chan \in Seq(Said)
      /\ \A line \in Lines : Append(pipe, line) \in Seq(Lines)
    BY HasAppend DEF TypeOK
<1>1. CASE \E line \in Lines : Says(line)
    BY <1>0, <1>1 DEF Says, Queues
<1>2. CASE ReaderSends
  <2>1. CASE chan' = chan /\ pipe' = pipe BY <1>0, <2>1 DEF Queues
  <2>2. CASE pipe # <<>> /\ chan' = Append(chan, Head(pipe)) /\ pipe' = Tail(pipe)
    <3>1. Tail(pipe) \in Seq(Lines) /\ Head(pipe) \in Said BY <1>0, <2>2, HasTail
    <3>2. Append(chan, Head(pipe)) \in Seq(Said) BY <1>0, <3>1, HasAppend
    <3> QED BY <2>2, <3>1, <3>2 DEF Queues
  <2> QED BY <1>2, <2>1, <2>2 DEF ReaderSends
<1>3. CASE WaiterSends
  <2>1. Append(chan, "exited") \in Seq(Said) BY <1>0, HasAppend
  <2> QED BY <1>0, <1>3, <2>1 DEF WaiterSends, Queues
<1>4. CASE PumpLine \/ PumpExited
  <2>1. chan # <<>> /\ chan' = Tail(chan) /\ pipe' = pipe
      BY <1>4 DEF PumpLine, PumpExited
  <2>2. Tail(chan) \in Seq(Said) BY <1>0, <2>1, HasTail
  <2> QED BY <1>0, <2>1, <2>2 DEF Queues
<1>5. CASE pipe' = pipe /\ chan' = chan
    BY <1>0, <1>5 DEF Queues
<1>6. \/ \E line \in Lines : Says(line)
      \/ ReaderSends \/ WaiterSends \/ PumpLine \/ PumpExited
      \/ pipe' = pipe /\ chan' = chan
    BY DEF JobNext, Child, Job, Answering, jobVars, threads, elsewhere, Lines,
           CliLogs, CliWrites, CliDone, CliFails, CliExits, CliCrashes,
           ReaderEnds, ExitSeen, PumpReturns, GuiFinish, McpPublish, DrainLook, DrainRound, GuiCancel, ClientLeaves,
           StatusCall, CancelCall, StatusWaited, TakeDone, NoReport, LockForReport,
           ReadReport, LockForFields, CopyFields, Kill, WriteAnswer, WriteFails,
           ServerExits, Dropped
<1> QED BY <1>1, <1>2, <1>3, <1>4, <1>5, <1>6

Rounds == at = "gone" \/ round < DrainRounds

(* The run job stays within its types: the drain counter within its bound, *)
(* an answer made of verdicts and exit codes.                              *)
THEOREM TypeCorrect == JobSpec => []TypeOK
<1>1. JobInit => TypeOK /\ Rounds
  <2>1. JobInit => Rounds BY JobAssumption DEF JobInit, Rounds
  <2>2. NoAnswer \in [done : ExitCodes, ok : Verdicts, summary : Verdicts]
      BY DEF NoAnswer, ExitCodes, Verdicts
  <2>3. 0 \in 0 .. MaxNoise /\ 0 \in 0 .. DrainRounds BY JobAssumption
  <2>4. <<>> \in Seq(Lines) /\ <<>> \in Seq(Lines \cup {"exited"}) OBVIOUS
  <2>5. JobInit => TypeOK BY <2>2, <2>3, <2>4 DEF JobInit, TypeOK, ExitCodes
  <2> QED BY <2>1, <2>5
<1>2. TypeOK /\ Rounds /\ [JobNext]_jobVars => TypeOK' /\ Rounds'
  <2> SUFFICES ASSUME TypeOK, Rounds, [JobNext]_jobVars PROVE TypeOK' /\ Rounds'
      OBVIOUS
  <2>0. /\ pipe' \in Seq(Lines) /\ chan' \in Seq(Lines \cup {"exited"})
        /\ DrainRounds \in Nat \ {0} /\ MaxNoise \in Nat
      BY QueuesTyped, JobAssumption DEF Queues
  <2> USE DEF TypeOK, Rounds, ExitCodes, Verdicts, child, threads, pump, state, gui, mcp, elsewhere
  <2>1. CASE CliLogs BY <2>0, <2>1 DEF CliLogs, Says
  <2>2. CASE CliWrites BY <2>0, <2>2 DEF CliWrites, Says
  <2>3. CASE CliDone BY <2>0, <2>3 DEF CliDone, Says
  <2>4. CASE CliFails BY <2>0, <2>4 DEF CliFails, Says
  <2>5. CASE CliExits BY <2>0, <2>5 DEF CliExits, Exits
  <2>6. CASE CliCrashes BY <2>0, <2>6 DEF CliCrashes, Exits
  <2>7. CASE ReaderSends
    <3>1. pipe # <<>> => Head(pipe) \in Lines BY HasTail
    <3> QED BY <2>0, <2>7, <3>1 DEF ReaderSends
  <2>8. CASE ReaderEnds BY <2>0, <2>8 DEF ReaderEnds
  <2>9. CASE WaiterSends BY <2>0, <2>9 DEF WaiterSends
  <2>10. CASE PumpLine BY <2>0, <2>10 DEF PumpLine, Feed
  <2>11. CASE PumpExited BY <2>0, <2>11 DEF PumpExited
  <2>12. CASE GuiFinish BY <2>0, <2>12 DEF GuiFinish, GuiOk
  <2>13. CASE McpPublish BY <2>0, <2>13 DEF McpPublish
  <2>14. CASE DrainRound BY <2>0, <2>14 DEF DrainRound
  <2>31. CASE ExitSeen BY <2>0, <2>31 DEF ExitSeen, PumpReturns
  <2>32. CASE DrainLook BY <2>0, <2>32 DEF DrainLook, PumpReturns
  <2>15. CASE GuiCancel BY <2>0, <2>15 DEF GuiCancel, KillTree, Exits, child
  <2>16. CASE ClientLeaves BY <2>0, <2>16 DEF ClientLeaves
  <2>17. CASE StatusCall BY <2>0, <2>17 DEF StatusCall, NoAnswer
  <2>18. CASE CancelCall BY <2>0, <2>18 DEF CancelCall
  <2>19. CASE StatusWaited BY <2>0, <2>19 DEF StatusWaited
  <2>20. CASE TakeDone BY <2>0, <2>20 DEF TakeDone
  <2>21. CASE NoReport BY <2>0, <2>21 DEF NoReport, AfterReport
  <2>22. CASE LockForReport BY <2>0, <2>22 DEF LockForReport
  <2>23. CASE ReadReport BY <2>0, <2>23 DEF ReadReport, AfterReport, ReportOk
  <2>24. CASE LockForFields BY <2>0, <2>24 DEF LockForFields
  <2>25. CASE CopyFields BY <2>0, <2>25 DEF CopyFields
  <2>26. CASE Kill BY <2>0, <2>26 DEF Kill, KillTree, Exits, child
  <2>27. CASE WriteAnswer BY <2>0, <2>27 DEF WriteAnswer
  <2>28. CASE WriteFails BY <2>0, <2>28 DEF WriteFails, Dropped, child
  <2>29. CASE ServerExits BY <2>0, <2>29 DEF ServerExits, KillTree, Exits, child, Dropped
  <2>30. CASE UNCHANGED jobVars BY <2>0, <2>30 DEF jobVars
  <2> QED
      BY <2>1, <2>2, <2>3, <2>4, <2>5, <2>6, <2>7, <2>8, <2>9, <2>10, <2>11, <2>12, <2>13, <2>14, <2>15, <2>16, <2>17, <2>18, <2>19, <2>20, <2>21, <2>22, <2>23, <2>24, <2>25, <2>26, <2>27, <2>28, <2>29, <2>30, <2>31, <2>32
         DEF JobNext, Child, Job, Answering
<1> QED BY <1>1, <1>2, PTL DEF JobSpec

(***************************************************************************)
(* The safety properties.  The inductive invariant has three parts: where  *)
(* an exit code can be once the child has exited; where its last line is;  *)
(* what each stage of an answer has filled in.                             *)
(***************************************************************************)
Ended == srv \in {"gone", "died"}

CodeInv ==
    /\ code # "none" => cli = "exited"
    /\ exit # "none" => exit = code
    /\ exitCode # "none" => exitCode = exit
    /\ status = "ok" => exit = "zero"
    /\ status # "running" => front = "gui" /\ at = "gone" /\ exit # "none"
    /\ button => disk /\ status = "ok"
    /\ at \in {"draining", "resting"} => front = "mcp"
    /\ at # "polling" /\ ~Ended => exit # "none"
    /\ front = "mcp" /\ at \notin {"polling", "exiting"} /\ ~Ended => exitCode # "none"
    /\ front = "gui" => srv = "ready" /\ client = "connected" /\ exitCode = "none"
    /\ srv = "gone" => cli = "exited"

Said(line) == Has(pipe, line) \/ Has(chan, line)

LineInv ==
    /\ finished = "yes" \/ Said("done") =>
        ~error /\ ~Said("fatal") /\ cli \in {"done", "exited"}
    /\ error \/ Said("fatal") => cli \in {"fatal", "exited"}
    /\ cli = "done" \/ code = "zero" => finished = "yes" \/ Said("done")
    /\ Has(chan, "exited") => waiter = "sent"
    /\ exit # "none" => waiter = "sent"
    /\ ~Pumping /\ ~Ended /\ Has(chan, "done") => "done" \in late
    /\ status = "failed" /\ code = "zero" => finished # "yes"

Building == {"fields", "copying", "attach", "attaching"}

AnswerInv ==
    /\ ans.done # "none" => exitCode # "none"
    /\ ans.ok = "ok" => exitCode = "zero" /\ finished = "yes"
    /\ ans.summary = "ok" => exitCode = "zero"
    /\ srv \in {"waiting", "snapshot", "report", "reporting"} => ans.ok = "none"
    /\ srv \in {"reporting", "attaching"} => exitCode # "none"
    /\ srv \in Building /\ ans.done # "none" => ans.ok # "none"
    /\ srv \in {"ready", "writing", "killing"} =>
        /\ ans.done # "none" => ans.ok # "none" /\ ans.summary # "none"
        /\ ans.ok = "ok" => ans.summary = "ok"

JobInv == CodeInv /\ LineInv /\ AnswerInv

LEMMA CodeStep == TypeOK /\ CodeInv /\ [JobNext]_jobVars => CodeInv'
<1> SUFFICES ASSUME TypeOK, CodeInv, [JobNext]_jobVars PROVE CodeInv'
    OBVIOUS
<1> USE DEF TypeOK, CodeInv, Ended, Pumping, ExitCodes, child, threads, pump, state, gui, mcp,
            elsewhere
<1>1. CASE CliLogs BY <1>1 DEF CliLogs, Says
<1>2. CASE CliWrites BY <1>2 DEF CliWrites, Says
<1>3. CASE CliDone BY <1>3 DEF CliDone, Says
<1>4. CASE CliFails BY <1>4 DEF CliFails, Says
<1>5. CASE CliExits BY <1>5 DEF CliExits, Exits
<1>6. CASE CliCrashes BY <1>6 DEF CliCrashes, Exits
<1>7. CASE ReaderSends BY <1>7 DEF ReaderSends
<1>8. CASE ReaderEnds BY <1>8 DEF ReaderEnds
<1>9. CASE WaiterSends BY <1>9 DEF WaiterSends
<1>10. CASE PumpLine BY <1>10 DEF PumpLine, Feed
<1>11. CASE PumpExited BY <1>11 DEF PumpExited
<1>12. CASE GuiFinish BY <1>12 DEF GuiFinish, GuiOk
<1>13. CASE McpPublish BY <1>13 DEF McpPublish
<1>14. CASE DrainRound BY <1>14 DEF DrainRound
<1>31. CASE ExitSeen BY <1>31 DEF ExitSeen, PumpReturns
<1>32. CASE DrainLook BY <1>32 DEF DrainLook, PumpReturns
<1>15. CASE GuiCancel BY <1>15 DEF GuiCancel, KillTree, Exits
<1>16. CASE ClientLeaves BY <1>16 DEF ClientLeaves
<1>17. CASE StatusCall BY <1>17 DEF StatusCall, NoAnswer
<1>18. CASE CancelCall BY <1>18 DEF CancelCall
<1>19. CASE StatusWaited BY <1>19 DEF StatusWaited
<1>20. CASE TakeDone BY <1>20 DEF TakeDone
<1>21. CASE NoReport BY <1>21 DEF NoReport, AfterReport
<1>22. CASE LockForReport BY <1>22 DEF LockForReport
<1>23. CASE ReadReport BY <1>23 DEF ReadReport, AfterReport, ReportOk
<1>24. CASE LockForFields BY <1>24 DEF LockForFields
<1>25. CASE CopyFields BY <1>25 DEF CopyFields
<1>26. CASE Kill BY <1>26 DEF Kill, KillTree, Exits
<1>27. CASE WriteAnswer BY <1>27 DEF WriteAnswer
<1>28. CASE WriteFails BY <1>28 DEF WriteFails, Dropped
<1>29. CASE ServerExits BY <1>29 DEF ServerExits, KillTree, Exits, Dropped
<1>30. CASE UNCHANGED jobVars BY <1>30 DEF jobVars
<1> QED
    BY <1>1, <1>2, <1>3, <1>4, <1>5, <1>6, <1>7, <1>8, <1>9, <1>10, <1>11, <1>12, <1>13, <1>14, <1>15, <1>16, <1>17, <1>18, <1>19, <1>20, <1>21, <1>22, <1>23, <1>24, <1>25, <1>26, <1>27, <1>28, <1>29, <1>30, <1>31, <1>32
       DEF JobNext, Child, Job, Answering

(* A line that is written, sent or taken moves to the next queue; no other *)
(* action touches the queues.                                              *)
LEMMA LineMoves ==
    ASSUME TypeOK
    PROVE  /\ \A said \in Lines : Says(said) =>
                \A line : /\ Has(pipe', line) <=> Has(pipe, line) \/ said = line
                          /\ Has(chan', line) <=> Has(chan, line)
           /\ ReaderSends =>
                /\ \A line : Said(line)' <=> Said(line)
                /\ Has(chan', "exited") <=> Has(chan, "exited")
                /\ ~Pumping /\ Has(chan', "done") => Has(chan, "done") \/ "done" \in late'
           /\ WaiterSends =>
                \A line : /\ Has(pipe', line) <=> Has(pipe, line)
                          /\ Has(chan', line) <=> Has(chan, line) \/ line = "exited"
           /\ PumpLine \/ PumpExited =>
                \A line : /\ Has(pipe', line) <=> Has(pipe, line)
                          /\ Has(chan, line) <=> Head(chan) = line \/ Has(chan', line)
<1> DEFINE Sent == Lines \cup {"exited"}
<1>1. pipe \in Seq(Lines) /\ chan \in Seq(Sent) BY DEF TypeOK
<1>2. ASSUME NEW said \in Lines, Says(said), NEW line
      PROVE  /\ Has(pipe', line) <=> Has(pipe, line) \/ said = line
             /\ Has(chan', line) <=> Has(chan, line)
  <2>1. Has(Append(pipe, said), line) <=> Has(pipe, line) \/ said = line
      BY <1>1, HasAppend
  <2> QED BY <1>2, <2>1 DEF Says
<1>3. ASSUME ReaderSends, at # "gone", NEW line
      PROVE  /\ Said(line)' <=> Said(line)
             /\ Has(chan', "exited") <=> Has(chan, "exited")
             /\ ~Pumping /\ Has(chan', "done") => Has(chan, "done") \/ "done" \in late'
  <2>1. pipe # <<>> /\ chan' = Append(chan, Head(pipe)) /\ pipe' = Tail(pipe)
      BY <1>3 DEF ReaderSends
  <2>2. /\ Head(pipe) \in Sent /\ Head(pipe) # "exited"
        /\ Has(pipe, line) <=> Head(pipe) = line \/ Has(Tail(pipe), line)
    <3>1. /\ Head(pipe) \in Lines
          /\ Has(pipe, line) <=> Head(pipe) = line \/ Has(Tail(pipe), line)
        BY <1>1, <2>1, HasTail
    <3> QED BY <3>1 DEF Lines
  <2>3. /\ Has(Append(chan, Head(pipe)), line) <=> Has(chan, line) \/ Head(pipe) = line
        /\ Has(Append(chan, Head(pipe)), "exited")
            <=> Has(chan, "exited") \/ Head(pipe) = "exited"
        /\ Has(Append(chan, Head(pipe)), "done")
            <=> Has(chan, "done") \/ Head(pipe) = "done"
      BY <1>1, <2>2, HasAppend
  <2>4. ~Pumping => late' = late \cup {Head(pipe)} BY <1>3 DEF ReaderSends
  <2>5. ~Pumping /\ Has(chan', "done") => Has(chan, "done") \/ "done" \in late'
      BY <2>1, <2>3, <2>4
  <2> QED BY <2>1, <2>2, <2>3, <2>5 DEF Said
<1>4. ASSUME ReaderSends, at = "gone", NEW line
      PROVE  /\ Said(line)' <=> Said(line)
             /\ Has(chan', "exited") <=> Has(chan, "exited")
             /\ ~Pumping /\ Has(chan', "done") => Has(chan, "done") \/ "done" \in late'
    BY <1>4 DEF ReaderSends, Said
<1>5. ASSUME WaiterSends, NEW line
      PROVE  /\ Has(pipe', line) <=> Has(pipe, line)
             /\ Has(chan', line) <=> Has(chan, line) \/ line = "exited"
  <2>1. Has(Append(chan, "exited"), line) <=> Has(chan, line) \/ "exited" = line
      BY <1>1, HasAppend
  <2> QED BY <1>5, <2>1 DEF WaiterSends
<1>6. ASSUME PumpLine \/ PumpExited, NEW line
      PROVE  /\ Has(pipe', line) <=> Has(pipe, line)
             /\ Has(chan, line) <=> Head(chan) = line \/ Has(chan', line)
  <2>1. chan # <<>> /\ chan' = Tail(chan) /\ pipe' = pipe
      BY <1>6 DEF PumpLine, PumpExited
  <2>2. Has(chan, line) <=> Head(chan) = line \/ Has(Tail(chan), line)
      BY <1>1, <2>1, HasTail
  <2> QED BY <2>1, <2>2
<1> QED BY <1>2, <1>3, <1>4, <1>5, <1>6

LEMMA LineStep == TypeOK /\ CodeInv /\ LineInv /\ [JobNext]_jobVars => LineInv'
<1> SUFFICES ASSUME TypeOK, CodeInv, LineInv, [JobNext]_jobVars PROVE LineInv'
    OBVIOUS
<1> USE DEF CodeInv, LineInv, Ended, Pumping, child, threads, pump, state, gui, mcp, elsewhere
<1>1. CASE CliLogs
  <2>1. "noise" \in Lines /\ Says("noise") BY <1>1 DEF CliLogs, Lines
  <2> QED BY <1>1, <2>1, LineMoves DEF CliLogs, Says, Said
<1>2. CASE CliWrites
  <2>1. "product" \in Lines /\ Says("product") BY <1>2 DEF CliWrites, Lines
  <2> QED BY <1>2, <2>1, LineMoves DEF CliWrites, Says, Said
<1>3. CASE CliDone
  <2>1. "done" \in Lines /\ Says("done") BY <1>3 DEF CliDone, Lines
  <2> QED BY <1>3, <2>1, LineMoves DEF CliDone, Says, Said
<1>4. CASE CliFails
  <2>1. "fatal" \in Lines /\ Says("fatal") BY <1>4 DEF CliFails, Lines
  <2> QED BY <1>4, <2>1, LineMoves DEF CliFails, Says, Said
<1>5. CASE CliExits BY <1>5 DEF CliExits, Exits, Said
<1>6. CASE CliCrashes BY <1>6 DEF CliCrashes, Exits, Said
<1>7. CASE ReaderSends BY <1>7, LineMoves DEF ReaderSends
<1>8. CASE ReaderEnds BY <1>8 DEF ReaderEnds, Said
<1>9. CASE WaiterSends BY <1>9, LineMoves DEF WaiterSends, Said
<1>10. CASE PumpLine BY <1>10, LineMoves DEF PumpLine, Feed, Said, Pumping
<1>11. CASE PumpExited BY <1>11, LineMoves DEF PumpExited, Said, Pumping
<1>12. CASE GuiFinish BY <1>12 DEF GuiFinish, GuiOk, Said
<1>13. CASE McpPublish BY <1>13 DEF McpPublish, Said
<1>14. CASE DrainRound BY <1>14 DEF DrainRound, Said
<1>31. CASE ExitSeen BY <1>31 DEF ExitSeen, PumpReturns, Said, Has
<1>32. CASE DrainLook BY <1>32 DEF DrainLook, PumpReturns, Said, Has
<1>15. CASE GuiCancel BY <1>15 DEF GuiCancel, KillTree, Exits, Said
<1>16. CASE ClientLeaves BY <1>16 DEF ClientLeaves, Said
<1>17. CASE StatusCall BY <1>17 DEF StatusCall, NoAnswer, Said
<1>18. CASE CancelCall BY <1>18 DEF CancelCall, Said
<1>19. CASE StatusWaited BY <1>19 DEF StatusWaited, Said
<1>20. CASE TakeDone BY <1>20 DEF TakeDone, Said
<1>21. CASE NoReport BY <1>21 DEF NoReport, AfterReport, Said
<1>22. CASE LockForReport BY <1>22 DEF LockForReport, Said
<1>23. CASE ReadReport BY <1>23 DEF ReadReport, AfterReport, ReportOk, Said
<1>24. CASE LockForFields BY <1>24 DEF LockForFields, Said
<1>25. CASE CopyFields BY <1>25 DEF CopyFields, Said
<1>26. CASE Kill BY <1>26 DEF Kill, KillTree, Exits, Said
<1>27. CASE WriteAnswer BY <1>27 DEF WriteAnswer, Said
<1>28. CASE WriteFails BY <1>28 DEF WriteFails, Dropped, Said
<1>29. CASE ServerExits BY <1>29 DEF ServerExits, KillTree, Exits, Dropped, Said
<1>30. CASE UNCHANGED jobVars BY <1>30 DEF jobVars, Said
<1> QED
    BY <1>1, <1>2, <1>3, <1>4, <1>5, <1>6, <1>7, <1>8, <1>9, <1>10, <1>11, <1>12, <1>13, <1>14, <1>15, <1>16, <1>17, <1>18, <1>19, <1>20, <1>21, <1>22, <1>23, <1>24, <1>25, <1>26, <1>27, <1>28, <1>29, <1>30, <1>31, <1>32
       DEF JobNext, Child, Job, Answering

LEMMA AnswerStep ==
    TypeOK /\ CodeInv /\ LineInv /\ AnswerInv /\ [JobNext]_jobVars => AnswerInv'
<1> SUFFICES ASSUME TypeOK, CodeInv, LineInv, AnswerInv, [JobNext]_jobVars PROVE AnswerInv'
    OBVIOUS
<1> USE DEF TypeOK, CodeInv, AnswerInv, Ended, Building, ExitCodes, Verdicts,
            child, threads, pump, state, gui, mcp, elsewhere
<1>1. CASE CliLogs BY <1>1 DEF CliLogs, Says
<1>2. CASE CliWrites BY <1>2 DEF CliWrites, Says
<1>3. CASE CliDone BY <1>3 DEF CliDone, Says
<1>4. CASE CliFails BY <1>4 DEF CliFails, Says
<1>5. CASE CliExits BY <1>5 DEF CliExits, Exits
<1>6. CASE CliCrashes BY <1>6 DEF CliCrashes, Exits
<1>7. CASE ReaderSends BY <1>7 DEF ReaderSends
<1>8. CASE ReaderEnds BY <1>8 DEF ReaderEnds
<1>9. CASE WaiterSends BY <1>9 DEF WaiterSends
<1>10. CASE PumpLine
  <2>1. ~(finished = "yes" /\ Head(chan) = "fatal")
    <3>1. Head(chan) = "fatal" => Has(chan, "fatal") BY <1>10, LineMoves
    <3> QED BY <3>1 DEF LineInv, Said
  <2> QED BY <1>10, <2>1 DEF PumpLine, Feed
<1>11. CASE PumpExited BY <1>11 DEF PumpExited
<1>12. CASE GuiFinish BY <1>12 DEF GuiFinish, GuiOk
<1>13. CASE McpPublish BY <1>13 DEF McpPublish
<1>14. CASE DrainRound BY <1>14 DEF DrainRound
<1>31. CASE ExitSeen BY <1>31 DEF ExitSeen, PumpReturns
<1>32. CASE DrainLook BY <1>32 DEF DrainLook, PumpReturns
<1>15. CASE GuiCancel BY <1>15 DEF GuiCancel, KillTree, Exits
<1>16. CASE ClientLeaves BY <1>16 DEF ClientLeaves, Says
<1>17. CASE StatusCall BY <1>17 DEF StatusCall, NoAnswer
<1>18. CASE CancelCall BY <1>18 DEF CancelCall
<1>19. CASE StatusWaited BY <1>19 DEF StatusWaited
<1>20. CASE TakeDone BY <1>20 DEF TakeDone
<1>21. CASE NoReport BY <1>21 DEF NoReport, AfterReport
<1>22. CASE LockForReport BY <1>22 DEF LockForReport
<1>23. CASE ReadReport
  <2>1. finished = "yes" => ~error BY DEF LineInv
  <2>2. ReportOk \in {"ok", "failed"} BY DEF ReportOk
  <2>3. ReportOk = "ok" <=> exitCode = "zero" /\ finished = "yes"
      BY <2>1 DEF ReportOk
  <2>4. CASE srv = "reporting"
      BY <1>23, <2>2, <2>3, <2>4 DEF ReadReport, AfterReport
  <2>5. CASE srv = "attaching"
      BY <1>23, <2>2, <2>3, <2>5 DEF ReadReport, AfterReport
  <2> QED BY <1>23, <2>4, <2>5 DEF ReadReport
<1>24. CASE LockForFields BY <1>24 DEF LockForFields
<1>25. CASE CopyFields BY <1>25 DEF CopyFields
<1>26. CASE Kill BY <1>26 DEF Kill, KillTree, Exits
<1>27. CASE WriteAnswer BY <1>27 DEF WriteAnswer
<1>28. CASE WriteFails BY <1>28 DEF WriteFails, Dropped
<1>29. CASE ServerExits BY <1>29 DEF ServerExits, KillTree, Exits, Dropped
<1>30. CASE UNCHANGED jobVars BY <1>30 DEF jobVars
<1> QED
    BY <1>1, <1>2, <1>3, <1>4, <1>5, <1>6, <1>7, <1>8, <1>9, <1>10, <1>11, <1>12, <1>13, <1>14, <1>15, <1>16, <1>17, <1>18, <1>19, <1>20, <1>21, <1>22, <1>23, <1>24, <1>25, <1>26, <1>27, <1>28, <1>29, <1>30, <1>31, <1>32
       DEF JobNext, Child, Job, Answering

(* Under either front-end, what is read off the output and the exit status *)
(* is consistent at every moment.                                          *)
LEMMA JobInvariant == JobSpec => [](TypeOK /\ JobInv)
<1>1. JobInit => JobInv
    BY DEF JobInit, JobInv, CodeInv, LineInv, AnswerInv, Said, Has, Ended, Building, NoAnswer
<1>2. TypeOK /\ JobInv /\ [JobNext]_jobVars => JobInv'
    BY CodeStep, LineStep, AnswerStep DEF JobInv
<1> QED BY TypeCorrect, <1>1, <1>2, PTL DEF JobSpec

(* Under either front-end, whatever is written and whenever it is          *)
(* cancelled or the client leaves: a success needs exit status 0, an       *)
(* answer that says "done" is complete, and a false failure means a line   *)
(* sent after the last look into the channel, or not sent yet.             *)
THEOREM TheVerdictIsTrue == JobSpec => []VerdictIsTrue
<1>1. JobInv => SuccessNeedsExitZero /\ DoneCarriesVerdict
    BY DEF JobInv, CodeInv, AnswerInv, SuccessNeedsExitZero, DoneCarriesVerdict
<1>2. TypeOK /\ JobInv => FalseFailureOnlyOnALateLine
  <2> SUFFICES ASSUME TypeOK, JobInv, at = "gone", code = "zero", ~Ended,
                      \/ front = "gui" /\ status = "failed"
                      \/ front = "mcp" /\ ReportOk = "failed"
               PROVE  Has(pipe, "done") \/ "done" \in late
      BY DEF FalseFailureOnlyOnALateLine, Ended
  <2>1. Has(chan, "done") => "done" \in late BY DEF JobInv, LineInv, Pumping
  <2>2. finished # "yes"
      BY DEF JobInv, CodeInv, LineInv, ReportOk, Ended
  <2> QED BY <2>1, <2>2 DEF JobInv, LineInv, Said
<1>3. TypeOK /\ JobInv => VerdictIsTrue
    BY <1>1, <1>2 DEF VerdictIsTrue
<1> QED BY JobInvariant, <1>3, PTL

(* A server that is told to exit while it answers nobody takes its run     *)
(* with it.                                                                *)
THEOREM IdleServerEndsItsRun == JobSpec => []IdleServerTakesTheRunWithIt
<1>1. JobInv => IdleServerTakesTheRunWithIt
    BY DEF JobInv, CodeInv, AnswerInv, IdleServerTakesTheRunWithIt
<1> QED BY JobInvariant, <1>1, PTL
=============================================================================
