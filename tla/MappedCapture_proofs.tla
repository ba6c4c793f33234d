------------------------ MODULE MappedCapture_proofs ------------------------
(***************************************************************************)
(* The capture of materialised images: type correctness, the last chance   *)
(* at ExitProcess, the trap flag and the numbered snapshots, for any       *)
(* finite set of bases and any cap.                                        *)
(***************************************************************************)
EXTENDS MappedCapture, FiniteSetTheorems, TLAPS

(* A reason to leave the loop is given when it is left, and only then.     *)
LeftForAReason == ended # "none" => at \in {"post", "over"}

(* An Ancient shell's numbers are taken in order and by its own watch: the *)
(* next one is free, and below the cap when a snapshot is about to be      *)
(* written.                                                                *)
NumberFree ==
    /\ at = "watch_write" => snapshots < SnapshotCap
    /\ version = "Ancient" =>
        /\ at \notin {"v2_scan", "v2_write"}
        /\ \A n \in DOMAIN files : n \in Nat /\ n < snapshots

CaptureInv ==
    /\ TypeOK
    /\ LeftForAReason
    /\ NumberFree
    /\ LastChanceTaken

-----------------------------------------------------------------------------
(* The number of a V2 scan stays within its type: as many images as were   *)
(* dumped are at most as many as there are bases.                          *)
LEMMA DumpedCounted ==
    ASSUME TypeOK
    PROVE  Cardinality(dumped) \in 0 .. Cardinality(Bases)
<1>1. IsFiniteSet(Bases)
  BY CaptureAssumption
<1>2. dumped \subseteq Bases
  BY DEF TypeOK
<1>3. IsFiniteSet(dumped) /\ Cardinality(dumped) <= Cardinality(Bases)
  BY <1>1, <1>2, FS_Subset
<1>4. Cardinality(dumped) \in Nat /\ Cardinality(Bases) \in Nat
  BY <1>1, <1>3, FS_CardinalityType
<1> QED
  BY <1>3, <1>4

LEMMA InitCapture == Init => CaptureInv
<1>1. Cardinality(Bases) \in Nat /\ 0 \in 0 .. Cardinality(Bases)
  BY CaptureAssumption, FS_CardinalityType
<1> QED
  BY <1>1, CaptureAssumption
     DEF Init, CaptureInv, TypeOK, Kinds, LeftForAReason, NumberFree,
         LastChanceTaken

-----------------------------------------------------------------------------
(* One lemma per group of actions.  What the loop leaves alone is the same *)
(* for all actions of a group.                                             *)
LEMMA DebuggeeKeeps == CaptureInv /\ Debuggee => CaptureInv'
<1> SUFFICES ASSUME CaptureInv, Debuggee PROVE CaptureInv'
  OBVIOUS
<1>1. TypeOK'
  BY DEF CaptureInv, TypeOK, Debuggee, Become, Kinds, search, written,
         attemptVars
<1>2. (LeftForAReason /\ NumberFree)'
  BY DEF CaptureInv, Debuggee, LeftForAReason, NumberFree, search, written
<1>3. LastChanceTaken'
  <2>1. at \notin {"post", "over"}
    BY DEF Debuggee, Running
  <2>2. ended' = "none"
    BY <2>1 DEF CaptureInv, LeftForAReason, Debuggee
  <2> QED
    BY <2>2 DEF LastChanceTaken
<1> QED
  BY <1>1, <1>2, <1>3 DEF CaptureInv

(* Events that are answered or end the loop, and the quiet half second.    *)
LEMMA EventsKeep ==
    CaptureInv /\ (OnLoadDll \/ OnOtherEvent \/ WaitError \/ Quiet)
        => CaptureInv'
<1> SUFFICES ASSUME CaptureInv, OnLoadDll \/ OnOtherEvent \/ WaitError \/ Quiet
             PROVE  CaptureInv'
  OBVIOUS
<1> USE DEF CaptureInv, program, search, written, attemptVars
<1>1. CASE OnLoadDll
  <2>1. TypeOK'
    BY <1>1 DEF TypeOK, OnLoadDll, Become, Kinds, Answered
  <2>2. (LeftForAReason /\ NumberFree)'
    BY <1>1 DEF OnLoadDll, LeftForAReason, NumberFree, Answered, Classic
  <2>3. LastChanceTaken'
    BY <1>1 DEF OnLoadDll, LeftForAReason, LastChanceTaken
  <2> QED
    BY <2>1, <2>2, <2>3
<1>2. CASE OnOtherEvent
  <2>1. TypeOK'
    BY <1>2 DEF TypeOK, OnOtherEvent, Answered, Leave
  <2>2. (LeftForAReason /\ NumberFree)'
    BY <1>2 DEF OnOtherEvent, LeftForAReason, NumberFree, Answered, Classic, Leave
  <2>3. LastChanceTaken'
    BY <1>2 DEF OnOtherEvent, LeftForAReason, LastChanceTaken, Leave
  <2> QED
    BY <2>1, <2>2, <2>3
<1>3. CASE WaitError
  BY <1>3 DEF TypeOK, WaitError, LeftForAReason, NumberFree, LastChanceTaken
<1>4. CASE Quiet
  BY <1>4 DEF TypeOK, Quiet, LeftForAReason, NumberFree, LastChanceTaken,
              Classic
<1> QED
  BY <1>1, <1>2, <1>3, <1>4

(* The periodic scan of the classic shells.                                *)
LEMMA MapScansKeep ==
    CaptureInv /\ (MapScan \/ NotDue \/ MapWrite) => CaptureInv'
<1> SUFFICES ASSUME CaptureInv, MapScan \/ NotDue \/ MapWrite
             PROVE  CaptureInv'
  OBVIOUS
<1> USE DEF CaptureInv, program, search, written, attemptVars
<1>1. CASE MapScan
  <2>1. TypeOK'
    BY <1>1 DEF TypeOK, MapScan, Images, Watching
  <2>2. (LeftForAReason /\ NumberFree)'
    BY <1>1 DEF MapScan, LeftForAReason, NumberFree, Watching
  <2>3. LastChanceTaken'
    BY <1>1 DEF MapScan, LeftForAReason, LastChanceTaken
  <2> QED
    BY <2>1, <2>2, <2>3
<1>2. CASE NotDue
  BY <1>2 DEF TypeOK, NotDue, Watching, LeftForAReason, NumberFree,
              LastChanceTaken
<1>3. CASE MapWrite
  <2>1. TypeOK'
    BY <1>3 DEF TypeOK, MapWrite, Watching
  <2>2. (LeftForAReason /\ NumberFree)'
    BY <1>3 DEF MapWrite, LeftForAReason, NumberFree, Watching
  <2>3. LastChanceTaken'
    BY <1>3 DEF MapWrite, LeftForAReason, LastChanceTaken
  <2> QED
    BY <2>1, <2>2, <2>3
<1> QED
  BY <1>1, <1>2, <1>3

(* The watches; only the Ancient one takes numbers in order.               *)
LEMMA WatchesKeep ==
    CaptureInv /\ (AncientWatch \/ AncientWrite \/ V2Watch \/ V2Write)
        => CaptureInv'
<1> SUFFICES ASSUME CaptureInv,
                    AncientWatch \/ AncientWrite \/ V2Watch \/ V2Write
             PROVE  CaptureInv'
  OBVIOUS
<1> USE DEF CaptureInv, program, search, written, attemptVars
<1>1. CASE AncientWatch
  <2>1. TypeOK'
    BY <1>1 DEF TypeOK, AncientWatch
  <2>2. NumberFree'
    BY <1>1, CaptureAssumption DEF AncientWatch, NumberFree, TypeOK
  <2>3. (LeftForAReason /\ LastChanceTaken)'
    BY <1>1 DEF AncientWatch, LeftForAReason, LastChanceTaken
  <2> QED
    BY <2>1, <2>2, <2>3
<1>2. CASE AncientWrite
  <2>1. snapshots' \in 0 .. SnapshotCap
    BY <1>2, CaptureAssumption DEF AncientWrite, Numbered, NumberFree, TypeOK
  <2>2. TypeOK'
    BY <1>2, <2>1 DEF TypeOK, AncientWrite
  <2>3. NumberFree'
    BY <1>2, CaptureAssumption
       DEF AncientWrite, Numbered, NewFile, NumberFree, TypeOK
  <2>4. (LeftForAReason /\ LastChanceTaken)'
    BY <1>2 DEF AncientWrite, LeftForAReason, LastChanceTaken
  <2> QED
    BY <2>2, <2>3, <2>4
<1>3. CASE V2Watch
  <2>1. number' \in 0 .. Cardinality(Bases)
    BY <1>3, DumpedCounted DEF V2Watch, TypeOK
  <2>2. todo' \subseteq Bases
    BY <1>3 DEF V2Watch, Images
  <2>3. TypeOK'
    BY <1>3, <2>1, <2>2 DEF TypeOK, V2Watch
  <2>4. (LeftForAReason /\ NumberFree /\ LastChanceTaken)'
    BY <1>3 DEF V2Watch, LeftForAReason, NumberFree, LastChanceTaken
  <2> QED
    BY <2>3, <2>4
<1>4. CASE V2Write
  <2>1. number' \in 0 .. Cardinality(Bases)
    <3>1. number' = 0 \/ number' = number
      BY <1>4 DEF V2Write
    <3>2. Cardinality(Bases) \in Nat
      BY CaptureAssumption, FS_CardinalityType
    <3> QED
      BY <3>1, <3>2 DEF TypeOK
  <2>2. dumped' \subseteq Bases /\ todo' \subseteq Bases
    BY <1>4 DEF V2Write, TypeOK
  <2>3. TypeOK'
    BY <1>4, <2>1, <2>2 DEF TypeOK, V2Write
  <2>4. version # "Ancient"
    BY <1>4 DEF V2Write, NumberFree
  <2>5. (LeftForAReason /\ NumberFree /\ LastChanceTaken)'
    BY <1>4, <2>4 DEF V2Write, LeftForAReason, NumberFree, LastChanceTaken
  <2> QED
    BY <2>3, <2>5
<1> QED
  BY <1>1, <1>2, <1>3, <1>4

(* A breakpoint, and the attempt to step into an image: the trap flag is   *)
(* on from StepInto to whatever ends the attempt.                          *)
LEMMA AttemptsKeep ==
    CaptureInv /\ (Hit \/ StepInto \/ NothingToStepInto \/ Attempt \/ GoOn)
        => CaptureInv'
<1> SUFFICES ASSUME CaptureInv,
                    Hit \/ StepInto \/ NothingToStepInto \/ Attempt \/ GoOn
             PROVE  CaptureInv'
  OBVIOUS
<1> USE DEF CaptureInv, program, search, written, attemptVars
<1>1. CASE Hit
  BY <1>1 DEF TypeOK, Hit, LeftForAReason, NumberFree, LastChanceTaken
<1>2. CASE StepInto
  BY <1>2 DEF TypeOK, StepInto, LeftForAReason, NumberFree, LastChanceTaken
<1>3. CASE NothingToStepInto
  BY <1>3 DEF TypeOK, NothingToStepInto, Answered, Classic, LeftForAReason,
              NumberFree, LastChanceTaken
<1>4. CASE Attempt
  BY <1>4 DEF TypeOK, Attempt, Leave, LeftForAReason, NumberFree,
              LastChanceTaken
<1>5. CASE GoOn
  BY <1>5 DEF TypeOK, GoOn, Answered, Classic, LeftForAReason, NumberFree,
              LastChanceTaken
<1> QED
  BY <1>1, <1>2, <1>3, <1>4, <1>5

(* The ends of the hunt.                                                   *)
LEMMA EndsKeep ==
    CaptureInv /\ (AncientTrap \/ OnExitProcess \/ PostLoop) => CaptureInv'
<1> SUFFICES ASSUME CaptureInv, AncientTrap \/ OnExitProcess \/ PostLoop
             PROVE  CaptureInv'
  OBVIOUS
<1> USE DEF CaptureInv, program, search, written, attemptVars
<1>1. CASE AncientTrap
  <2>1. /\ at = "wait" /\ ended' \in {ended, "raw"}
        /\ at' = "post" \/ (Answered /\ UNCHANGED ended)
        /\ UNCHANGED <<version, mem, search, dumped, snapshots, files, todo,
                       number, result>>
    BY <1>1 DEF AncientTrap, Leave
  <2>2. TypeOK'
    BY <2>1 DEF TypeOK, Answered
  <2>3. (LeftForAReason /\ NumberFree /\ LastChanceTaken)'
    BY <2>1 DEF Answered, Classic, LeftForAReason, NumberFree,
                LastChanceTaken
  <2> QED
    BY <2>2, <2>3
<1>2. CASE OnExitProcess
  <2>1. (TypeOK /\ LeftForAReason /\ NumberFree)'
    BY <1>2 DEF TypeOK, OnExitProcess, Leave, LeftForAReason, NumberFree
  <2>2. LastChanceTaken'
    BY <1>2 DEF OnExitProcess, WriteRaw, LastChanceTaken, LastChance
  <2> QED
    BY <2>1, <2>2
<1>3. CASE PostLoop
  BY <1>3 DEF TypeOK, PostLoop, LeftForAReason, NumberFree, LastChanceTaken, LastChance
<1> QED
  BY <1>1, <1>2, <1>3

LEMMA StepCapture == CaptureInv /\ [Next]_vars => CaptureInv'
<1> SUFFICES ASSUME CaptureInv, [Next]_vars PROVE CaptureInv'
  OBVIOUS
<1>1. CASE Loop
  BY <1>1, EventsKeep, MapScansKeep, WatchesKeep, AttemptsKeep, EndsKeep
     DEF Loop
<1>2. CASE Debuggee
  BY <1>2, DebuggeeKeeps
<1>3. CASE UNCHANGED vars
  BY <1>3 DEF vars, program, search, written, attemptVars, CaptureInv, TypeOK,
              LeftForAReason, NumberFree, LastChanceTaken, LastChance
<1> QED
  BY <1>1, <1>2, <1>3 DEF Next, Finished

-----------------------------------------------------------------------------
LEMMA CaptureInvariant == Spec => []CaptureInv
BY InitCapture, StepCapture, PTL DEF Spec

(* The state has its types throughout: the cap bounds the snapshots, and   *)
(* the number of a V2 scan is at most the number of bases.                 *)
THEOREM CaptureTypeCorrect == Spec => []TypeOK
<1>1. CaptureInv => TypeOK
  BY DEF CaptureInv
<1> QED
  BY <1>1, CaptureInvariant, PTL

(* A run that ends at ExitProcess has dumped an image of the materialised  *)
(* shape if there was one, unless an earlier one was waiting.              *)
THEOREM TakesTheLastChance == Spec => []LastChanceTaken
<1>1. CaptureInv => LastChanceTaken
  BY DEF CaptureInv
<1> QED
  BY <1>1, CaptureInvariant, PTL

(* No step writes a numbered snapshot over another.                        *)
LEMMA SnapshotStep ==
    ASSUME CaptureInv, [Next]_vars, version = "Ancient",
           NEW n \in DOMAIN files
    PROVE  n < SnapshotCap /\ n \in DOMAIN files' /\ files'[n] = files[n]
<1>1. n < SnapshotCap
  BY CaptureAssumption DEF CaptureInv, NumberFree, TypeOK
<1>2. n # snapshots
  BY CaptureAssumption DEF CaptureInv, NumberFree, TypeOK
<1>3. CASE AncientWrite
  BY <1>1, <1>2, <1>3 DEF AncientWrite, Numbered, NewFile
<1>4. CASE ~AncientWrite
  <2>1. ~V2Write
    BY DEF CaptureInv, NumberFree, V2Write
  <2>2. UNCHANGED files
    BY <1>4, <2>1
       DEF Next, Loop, Finished, vars, written, OnLoadDll, OnOtherEvent,
           WaitError, Quiet, MapScan, NotDue, MapWrite, AncientWatch, V2Watch,
           Hit, StepInto, NothingToStepInto, Attempt, GoOn, AncientTrap,
           OnExitProcess, PostLoop, Debuggee
  <2> QED
    BY <1>1, <2>2
<1> QED
  BY <1>3, <1>4

(* Every catch of the exit window of an Ancient shell stays.               *)
THEOREM KeepsSnapshots == Spec => SnapshotsKept
<1>1. CaptureInv /\ [Next]_vars =>
        [version = "Ancient" =>
            \A n \in DOMAIN files :
                n < SnapshotCap /\ n \in DOMAIN files'
                /\ files'[n] = files[n]]_vars
  BY SnapshotStep
<1> QED
  BY <1>1, CaptureInvariant, PTL DEF Spec, SnapshotsKept
=============================================================================
