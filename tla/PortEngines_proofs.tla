------------------------ MODULE PortEngines_proofs -------------------------
(* Four of the loops that drive the debug port one after the other, each   *)
(* for every set of debuggee threads and every limit: the trace engine     *)
(* (TraceImports), the IAT window before it (IatWindow), the stepping into *)
(* a mapped image (StepToImage), and the code-section guard (TextGuard).   *)
EXTENDS TraceImports, IatWindow, StepToImage, TextGuard, TLAPS

(* Answering the pending event, raising one and waiting for one keep the   *)
(* debug port well formed.                                                 *)
LEMMA PortSteps ==
    ASSUME PortTypeOK,
           \/ \E t \in Threads : ContinueEvent(t)
           \/ \E t \in Threads : WaitReturns(t)
           \/ \E t \in Threads : WaitFails(t)
           \/ \E t \in Threads : RaiseExit(t)
           \/ \E t \in Threads, k \in Kinds : Raise(t, k)
           \/ UNCHANGED portVars
    PROVE  PortTypeOK'
BY DEF PortTypeOK, ContinueEvent, WaitReturns, WaitFails, RaiseExit, Raise,
       CanRun, Frozen, portVars, Kinds

-----------------------------------------------------------------------------
(***************************************************************************)
(* The trace engine: what its safety properties need to be inductive.      *)
(***************************************************************************)

(* Where the walk is follows from pc.                                      *)
Located ==
    /\ pc \in {"wait", "event"} => slot \in Slots
    /\ pc = "event" => pending \in Threads

Typed == TypeOK /\ Located

(* While a slot is being traced nothing has been reached yet and the run   *)
(* of garbage slots is empty.                                              *)
NothingTracedYet ==
    pc \in {"wait", "event"} => tracedApi = ApiTag /\ trash = 0

ExitMeansGone == \A t \in Threads : raised[t] = "exit_process" => gone

NoneYetExitProcess ==
    ~didSetExit => \A i \in Slots : result[i] # "exit_process"

StillWalking == pc \in {"scan", "wait", "event"} <=> stop = "none"

(* The trash counter counts the garbage slots right before this one.       *)
TrashRun ==
    stop = "none" =>
        /\ trash < slot
        /\ \A j \in slot - trash .. slot - 1 : class[j] = "trash"

PortInv == ExitMeansGone /\ AnsweredBeforeWaiting /\ EventHeldBetweenSlots

ApiInv ==
    NothingTracedYet /\ NoStaleApi /\ NoneYetExitProcess /\ OneExitProcess

TrashInv ==
    NothingTracedYet /\ StillWalking /\ TrashRun /\ StopsOnlyPastTheTable

-----------------------------------------------------------------------------
USE DEF Slots

(* Recording the outcome of the current slot.                              *)
LEMMA RecordType ==
    ASSUME result \in [Slots -> SlotResults], slot \in Slots,
           NEW r \in SlotResults, Record(r)
    PROVE  result' \in [Slots -> SlotResults]
BY DEF Record

(* The types and the place of the walk are kept by every step.             *)
LEMMA TypedStep == Typed /\ [Next]_vars => Typed'
<1> SUFFICES ASSUME Typed, [Next]_vars PROVE Typed'
  OBVIOUS
<1> USE TraceAssumption, PortAssumption
<1>1. CASE SkipSlot
  <2>1. PortTypeOK'
    BY <1>1, PortSteps DEF SkipSlot, Typed, TypeOK
  <2> QED
    BY <1>1, <2>1
    DEF SkipSlot, Typed, TypeOK, Located, Scanning, NextSlot, Stop,
        traceState, WaitReturns
<1>2. CASE AdoptResolved
  <2>1. PortTypeOK'
    BY <1>2, PortSteps DEF AdoptResolved, Typed, TypeOK
  <2>2. result' \in [Slots -> SlotResults]
    BY <1>2, RecordType
    DEF AdoptResolved, Typed, TypeOK, Located, Scanning, SlotResults
  <2> QED
    BY <1>2, <2>1, <2>2
    DEF AdoptResolved, Typed, TypeOK, Located, Scanning, NextSlot, Stop,
        traceState, WaitReturns
<1>3. CASE CountTrash
  <2>1. PortTypeOK'
    BY <1>3, PortSteps DEF CountTrash, Typed, TypeOK
  <2> QED
    BY <1>3, <2>1
    DEF CountTrash, Typed, TypeOK, Located, Scanning, NextSlot, Stop,
        traceState, WaitReturns
<1>4. CASE SessionEnded
  <2>1. PortTypeOK'
    BY <1>4, PortSteps DEF SessionEnded, Typed, TypeOK
  <2> QED
    BY <1>4, <2>1
    DEF SessionEnded, Typed, TypeOK, Located, Scanning, NextSlot, Stop,
        traceState, WaitReturns
<1>5. CASE StartTrace
  <2>1. PortTypeOK'
    BY <1>5, PortSteps DEF StartTrace, ContinueRefused, Typed, TypeOK
  <2>2. result' \in [Slots -> SlotResults]
    BY <1>5, RecordType
    DEF StartTrace, ContinueRefused, Typed, TypeOK, Located, Scanning, SlotResults
  <2>3. /\ slot' \in 1 .. NSlots + 1 /\ counter' \in Nat
        /\ pc' = "scan" \/ (pc' = "wait" /\ slot' \in Slots)
    BY <1>5 DEF StartTrace, Typed, TypeOK, Scanning, NextSlot
  <2> QED
    <3>1. /\ trash' = 0 /\ tracedApi' = ApiTag /\ traceInVm' = FALSE
          /\ UNCHANGED <<class, stop, source, didSetExit, written, held, lost>>
      BY <1>5 DEF StartTrace
    <3>2. TypeOK'
      BY <2>1, <2>2, <2>3, <3>1 DEF Typed, TypeOK
    <3>3. Located'
      BY <2>3 DEF Located
    <3> QED
      BY <3>2, <3>3 DEF Typed
<1>6. CASE EndOfTable
  <2>1. PortTypeOK'
    BY <1>6, PortSteps DEF EndOfTable, Typed, TypeOK
  <2> QED
    BY <1>6, <2>1
    DEF EndOfTable, Typed, TypeOK, Located, Scanning, NextSlot, Stop,
        traceState, WaitReturns
<1>7. CASE WaitEvent
  <2>1. PortTypeOK'
    BY <1>7, PortSteps DEF WaitEvent, Typed, TypeOK
  <2> QED
    BY <1>7, <2>1
    DEF WaitEvent, Typed, TypeOK, Located, Scanning, NextSlot, Stop,
        traceState, WaitReturns
<1>8. CASE WaitError
  <2>1. PortTypeOK'
    BY <1>8, PortSteps DEF WaitError, FailSlot, Typed, TypeOK
  <2>2. result' \in [Slots -> SlotResults]
    BY <1>8, RecordType
    DEF WaitError, FailSlot, Typed, TypeOK, Located, Scanning, SlotResults
  <2> QED
    BY <1>8, <2>1, <2>2
    DEF WaitError, FailSlot, Typed, TypeOK, Located, Scanning, NextSlot, Stop,
        traceState, WaitReturns
<1>9. CASE FatalEvent
  <2>1. PortTypeOK'
    BY <1>9, PortSteps DEF FatalEvent, FailSlot, Typed, TypeOK
  <2>2. result' \in [Slots -> SlotResults]
    BY <1>9, RecordType
    DEF FatalEvent, FailSlot, Typed, TypeOK, Located, Scanning, SlotResults
  <2> QED
    BY <1>9, <2>1, <2>2
    DEF FatalEvent, FailSlot, Typed, TypeOK, Located, Scanning, NextSlot, Stop,
        traceState, WaitReturns
<1>10. CASE PassEvent
  <2>1. PortTypeOK'
    BY <1>10, PortSteps DEF PassEvent, Typed, TypeOK, Located
  <2> QED
    BY <1>10, <2>1
    DEF PassEvent, Typed, TypeOK, Located, Scanning, NextSlot, Stop,
        traceState, WaitReturns
<1>11. CASE StepOn
  <2>1. PortTypeOK'
    BY <1>11, PortSteps DEF StepOn, Stepped, Typed, TypeOK, Located
  <2> QED
    BY <1>11, <2>1
    DEF StepOn, Stepped, Typed, TypeOK, Located, Scanning, NextSlot, Stop,
        traceState, WaitReturns
<1>12. CASE GiveUp
  <2>1. PortTypeOK'
    BY <1>12, PortSteps DEF GiveUp, Stepped, Typed, TypeOK
  <2>2. result' \in [Slots -> SlotResults]
    BY <1>12, RecordType
    DEF GiveUp, Stepped, Typed, TypeOK, Located, Scanning, SlotResults
  <2> QED
    BY <1>12, <2>1, <2>2
    DEF GiveUp, Stepped, Typed, TypeOK, Located, Scanning, NextSlot, Stop,
        traceState, WaitReturns
<1>13. CASE FoundApi
  <2>1. PortTypeOK'
    BY <1>13, PortSteps DEF FoundApi, Stepped, Typed, TypeOK
  <2>2. result' \in [Slots -> SlotResults]
    BY <1>13, RecordType
    DEF FoundApi, Stepped, Typed, TypeOK, Located, Scanning, SlotResults
  <2> QED
    BY <1>13, <2>1, <2>2
    DEF FoundApi, Stepped, Typed, TypeOK, Located, Scanning, NextSlot, Stop,
        traceState, WaitReturns
<1>14. CASE HitVm
  <2>1. PortTypeOK'
    BY <1>14, PortSteps DEF HitVm, Stepped, Typed, TypeOK
  <2>2. result' \in [Slots -> SlotResults]
    BY <1>14, RecordType
    DEF HitVm, Stepped, Typed, TypeOK, Located, Scanning, SlotResults
  <2> QED
    BY <1>14, <2>1, <2>2
    DEF HitVm, Stepped, Typed, TypeOK, Located, Scanning, NextSlot, Stop,
        traceState, WaitReturns
<1>15. CASE WriteBack
  <2>1. PortTypeOK'
    BY <1>15, PortSteps DEF WriteBack, Typed, TypeOK
  <2>2. written' \in {"no", "yes", "refused"}
    BY <1>15 DEF WriteBack, Typed, TypeOK
  <2> QED
    BY <1>15, <2>1, <2>2 DEF WriteBack, Typed, TypeOK, Located
<1>16. CASE Debuggee
  <2>1. PortTypeOK'
    BY <1>16, PortSteps DEF Debuggee, Typed, TypeOK
  <2> QED
    BY <1>16, <2>1 
    DEF Debuggee, Typed, TypeOK, Located, engineVars, RaiseExit, Raise
<1>17. CASE UNCHANGED vars
  BY <1>17 DEF Typed, TypeOK, Located, PortTypeOK, vars, engineVars, portVars
<1> QED
  BY <1>1, <1>2, <1>3, <1>4, <1>5, <1>6, <1>7, <1>8, <1>9, <1>10, <1>11,
     <1>12, <1>13, <1>14, <1>15, <1>16, <1>17
  DEF Next, Engine, Finished

LEMMA TypedInit == Init => Typed
<1> SUFFICES ASSUME Init PROVE Typed
  OBVIOUS
<1>1. PortTypeOK
  BY PortAssumption DEF Init, Inherited, RaisedAlive, PortTypeOK, Kinds
<1>2. 1 \in 1 .. NSlots + 1
  BY TraceAssumption
<1> QED
  BY <1>1, <1>2 DEF Init, Typed, TypeOK, Located, SlotClasses, SlotResults

(* Every variable of the trace engine keeps its type, whatever the table   *)
(* holds and whatever the debuggee raises (TypeOK).                        *)
THEOREM TypeCorrect == Spec => []TypeOK
<1>1. Typed => TypeOK
  BY DEF Typed
<1> QED
  BY <1>1, TypedInit, TypedStep, PTL DEF Spec

(* A boundary between slots is always reached with an event to answer: the *)
(* ways out of a trace leave theirs pending.                               *)
LEMMA PortStep == Typed /\ PortInv /\ [Next]_vars => PortInv'
<1> SUFFICES ASSUME Typed, PortInv, [Next]_vars PROVE PortInv'
  OBVIOUS
<1> USE TraceAssumption, PortAssumption DEF PortInv
<1>1. CASE SkipSlot
  BY <1>1 DEF SkipSlot, Scanning, NextSlot, traceState, portVars,
     ExitMeansGone, AnsweredBeforeWaiting, EventHeldBetweenSlots, Typed,
     TypeOK, Located, PortTypeOK
<1>2. CASE AdoptResolved
  BY <1>2 DEF AdoptResolved, Scanning, NextSlot, traceState, portVars,
     ExitMeansGone, AnsweredBeforeWaiting, EventHeldBetweenSlots, Typed,
     TypeOK, Located, PortTypeOK
<1>3. CASE CountTrash
  BY <1>3 DEF CountTrash, Scanning, NextSlot, Stop, traceState, portVars,
     ExitMeansGone, AnsweredBeforeWaiting, EventHeldBetweenSlots, Typed,
     TypeOK, Located, PortTypeOK
<1>4. CASE SessionEnded
  BY <1>4 DEF SessionEnded, Scanning, Stop, traceState, portVars,
     ExitMeansGone, AnsweredBeforeWaiting, EventHeldBetweenSlots, Typed,
     TypeOK, Located, PortTypeOK
<1>5. CASE StartTrace
  BY <1>5 DEF StartTrace, Scanning, NextSlot, ContinueEvent,
     ContinueRefused, portVars, ExitMeansGone, AnsweredBeforeWaiting,
     EventHeldBetweenSlots, Typed, TypeOK, Located, PortTypeOK
<1>6. CASE EndOfTable
  BY <1>6 DEF EndOfTable, Stop, traceState, portVars, ExitMeansGone,
     AnsweredBeforeWaiting, EventHeldBetweenSlots, Typed, TypeOK, Located,
     PortTypeOK
<1>7. CASE WaitEvent
  BY <1>7 DEF WaitEvent, traceState, WaitReturns, portVars, ExitMeansGone,
     AnsweredBeforeWaiting, EventHeldBetweenSlots, Typed, TypeOK, Located,
     PortTypeOK
<1>8. CASE WaitError
  BY <1>8 DEF WaitError, FailSlot, NextSlot, WaitFails, portVars,
     ExitMeansGone, AnsweredBeforeWaiting, EventHeldBetweenSlots, Typed,
     TypeOK, Located, PortTypeOK
<1>9. CASE FatalEvent
  BY <1>9 DEF FatalEvent, FailSlot, NextSlot, portVars, ExitMeansGone,
     AnsweredBeforeWaiting, EventHeldBetweenSlots, Typed, TypeOK, Located,
     PortTypeOK
<1>10. CASE PassEvent
  BY <1>10 DEF PassEvent, traceState, ContinueEvent, portVars,
     ExitMeansGone, AnsweredBeforeWaiting, EventHeldBetweenSlots, Typed,
     TypeOK, Located, PortTypeOK
<1>11. CASE StepOn
  BY <1>11 DEF StepOn, Stepped, ContinueEvent, portVars, ExitMeansGone,
     AnsweredBeforeWaiting, EventHeldBetweenSlots, Typed, TypeOK, Located,
     PortTypeOK
<1>12. CASE GiveUp
  BY <1>12 DEF GiveUp, Stepped, NextSlot, portVars, ExitMeansGone,
     AnsweredBeforeWaiting, EventHeldBetweenSlots, Typed, TypeOK, Located,
     PortTypeOK
<1>13. CASE FoundApi
  BY <1>13 DEF FoundApi, Stepped, NextSlot, Stop, portVars, ExitMeansGone,
     AnsweredBeforeWaiting, EventHeldBetweenSlots, Typed, TypeOK, Located,
     PortTypeOK
<1>14. CASE HitVm
  BY <1>14 DEF HitVm, Stepped, NextSlot, portVars, ExitMeansGone,
     AnsweredBeforeWaiting, EventHeldBetweenSlots, Typed, TypeOK, Located,
     PortTypeOK
<1>15. CASE WriteBack
  BY <1>15 DEF WriteBack, portVars, ExitMeansGone, AnsweredBeforeWaiting,
     EventHeldBetweenSlots, Typed, TypeOK, Located, PortTypeOK
<1>16. CASE Debuggee
  BY <1>16 DEF Debuggee, engineVars, CanRun, Frozen, RaiseExit, Raise,
     Kinds, portVars, ExitMeansGone, AnsweredBeforeWaiting,
     EventHeldBetweenSlots, Typed, TypeOK, Located, PortTypeOK
<1>17. CASE UNCHANGED vars
  BY <1>17 DEF ExitMeansGone, AnsweredBeforeWaiting, EventHeldBetweenSlots, vars, engineVars, portVars
<1> QED
  BY <1>1, <1>2, <1>3, <1>4, <1>5, <1>6, <1>7, <1>8, <1>9, <1>10, <1>11,
     <1>12, <1>13, <1>14, <1>15, <1>16, <1>17
  DEF Next, Engine, Finished

(* traced_api is cleared before each trace, so it can only be read for the *)
(* slot that set it, and did_set_exit_process is set with the first slot.  *)
LEMMA ApiStep == Typed /\ ApiInv /\ [Next]_vars => ApiInv'
<1> SUFFICES ASSUME Typed, ApiInv, [Next]_vars PROVE ApiInv'
  OBVIOUS
<1> USE TraceAssumption, PortAssumption DEF ApiInv
<1>1. CASE SkipSlot
  BY <1>1 DEF SkipSlot, Scanning, NextSlot, traceState, NothingTracedYet,
     NoStaleApi, OneExitProcess, NoneYetExitProcess, Typed, TypeOK, Located
<1>2. CASE AdoptResolved
  BY <1>2 DEF AdoptResolved, Scanning, NextSlot, Record, traceState,
     NothingTracedYet, NoStaleApi, OneExitProcess, NoneYetExitProcess,
     Typed, TypeOK, Located
<1>3. CASE CountTrash
  BY <1>3 DEF CountTrash, Scanning, NextSlot, Stop, traceState,
     NothingTracedYet, NoStaleApi, OneExitProcess, NoneYetExitProcess,
     Typed, TypeOK, Located
<1>4. CASE SessionEnded
  BY <1>4 DEF SessionEnded, Scanning, Stop, traceState, NothingTracedYet,
     NoStaleApi, OneExitProcess, NoneYetExitProcess, Typed, TypeOK, Located
<1>5. CASE StartTrace
  BY <1>5 DEF StartTrace, Scanning, NextSlot, Record, NothingTracedYet,
     NoStaleApi, OneExitProcess, NoneYetExitProcess, Typed, TypeOK, Located
<1>6. CASE EndOfTable
  BY <1>6 DEF EndOfTable, Stop, traceState, NothingTracedYet, NoStaleApi,
     OneExitProcess, NoneYetExitProcess, Typed, TypeOK, Located
<1>7. CASE WaitEvent
  BY <1>7 DEF WaitEvent, traceState, NothingTracedYet, NoStaleApi,
     OneExitProcess, NoneYetExitProcess, Typed, TypeOK, Located
<1>8. CASE WaitError
  BY <1>8 DEF WaitError, FailSlot, Record, NextSlot, NothingTracedYet,
     NoStaleApi, OneExitProcess, NoneYetExitProcess, Typed, TypeOK, Located
<1>9. CASE FatalEvent
  BY <1>9 DEF FatalEvent, FailSlot, Record, NextSlot, NothingTracedYet,
     NoStaleApi, OneExitProcess, NoneYetExitProcess, Typed, TypeOK, Located
<1>10. CASE PassEvent
  BY <1>10 DEF PassEvent, traceState, NothingTracedYet, NoStaleApi,
     OneExitProcess, NoneYetExitProcess, Typed, TypeOK, Located
<1>11. CASE StepOn
  BY <1>11 DEF StepOn, Stepped, NothingTracedYet, NoStaleApi,
     OneExitProcess, NoneYetExitProcess, Typed, TypeOK, Located
<1>12. CASE GiveUp
  BY <1>12 DEF GiveUp, Stepped, Record, NextSlot, NothingTracedYet,
     NoStaleApi, OneExitProcess, NoneYetExitProcess, Typed, TypeOK, Located
<1>13. CASE FoundApi
  BY <1>13 DEF FoundApi, Stepped, Record, NextSlot, Stop, NothingTracedYet,
     NoStaleApi, OneExitProcess, NoneYetExitProcess, Typed, TypeOK, Located
<1>14. CASE HitVm
  BY <1>14 DEF HitVm, Stepped, Record, NextSlot, NothingTracedYet,
     NoStaleApi, OneExitProcess, NoneYetExitProcess, Typed, TypeOK, Located
<1>15. CASE WriteBack
  BY <1>15 DEF WriteBack, NothingTracedYet, NoStaleApi, OneExitProcess,
     NoneYetExitProcess, Typed, TypeOK, Located
<1>16. CASE Debuggee
  BY <1>16 DEF Debuggee, engineVars, NothingTracedYet, NoStaleApi,
     OneExitProcess, NoneYetExitProcess, Typed, TypeOK, Located
<1>17. CASE UNCHANGED vars
  BY <1>17 DEF NothingTracedYet, NoStaleApi, OneExitProcess, NoneYetExitProcess, vars, engineVars, portVars
<1> QED
  BY <1>1, <1>2, <1>3, <1>4, <1>5, <1>6, <1>7, <1>8, <1>9, <1>10, <1>11,
     <1>12, <1>13, <1>14, <1>15, <1>16, <1>17
  DEF Next, Engine, Finished

(* The trash counter is the length of the run of garbage slots before the  *)
(* current one.                                                            *)
LEMMA TrashStep == Typed /\ TrashInv /\ [Next]_vars => TrashInv'
<1> SUFFICES ASSUME Typed, TrashInv, [Next]_vars PROVE TrashInv'
  OBVIOUS
<1> USE TraceAssumption, PortAssumption DEF TrashInv
<1>1. CASE SkipSlot
  BY <1>1 DEF SkipSlot, Scanning, NextSlot, traceState, NothingTracedYet,
     StillWalking, TrashRun, StopsOnlyPastTheTable, Typed, TypeOK, Located
<1>2. CASE AdoptResolved
  BY <1>2 DEF AdoptResolved, Scanning, NextSlot, traceState,
     NothingTracedYet, StillWalking, TrashRun, StopsOnlyPastTheTable,
     Typed, TypeOK, Located
<1>3. CASE CountTrash
  BY <1>3 DEF CountTrash, Scanning, NextSlot, Stop, traceState,
     NothingTracedYet, StillWalking, TrashRun, StopsOnlyPastTheTable,
     Typed, TypeOK, Located
<1>4. CASE SessionEnded
  BY <1>4 DEF SessionEnded, Scanning, Stop, traceState, NothingTracedYet,
     StillWalking, TrashRun, StopsOnlyPastTheTable, Typed, TypeOK, Located
<1>5. CASE StartTrace
  BY <1>5 DEF StartTrace, Scanning, NextSlot, NothingTracedYet,
     StillWalking, TrashRun, StopsOnlyPastTheTable, Typed, TypeOK, Located
<1>6. CASE EndOfTable
  BY <1>6 DEF EndOfTable, Stop, traceState, NothingTracedYet, StillWalking,
     TrashRun, StopsOnlyPastTheTable, Typed, TypeOK, Located
<1>7. CASE WaitEvent
  BY <1>7 DEF WaitEvent, traceState, NothingTracedYet, StillWalking,
     TrashRun, StopsOnlyPastTheTable, Typed, TypeOK, Located
<1>8. CASE WaitError
  BY <1>8 DEF WaitError, FailSlot, NextSlot, NothingTracedYet,
     StillWalking, TrashRun, StopsOnlyPastTheTable, Typed, TypeOK, Located
<1>9. CASE FatalEvent
  BY <1>9 DEF FatalEvent, FailSlot, NextSlot, NothingTracedYet,
     StillWalking, TrashRun, StopsOnlyPastTheTable, Typed, TypeOK, Located
<1>10. CASE PassEvent
  BY <1>10 DEF PassEvent, traceState, NothingTracedYet, StillWalking,
     TrashRun, StopsOnlyPastTheTable, Typed, TypeOK, Located
<1>11. CASE StepOn
  BY <1>11 DEF StepOn, Stepped, NothingTracedYet, StillWalking, TrashRun,
     StopsOnlyPastTheTable, Typed, TypeOK, Located
<1>12. CASE GiveUp
  BY <1>12 DEF GiveUp, Stepped, NextSlot, NothingTracedYet, StillWalking,
     TrashRun, StopsOnlyPastTheTable, Typed, TypeOK, Located
<1>13. CASE FoundApi
  BY <1>13 DEF FoundApi, Stepped, NextSlot, Stop, NothingTracedYet,
     StillWalking, TrashRun, StopsOnlyPastTheTable, Typed, TypeOK, Located
<1>14. CASE HitVm
  BY <1>14 DEF HitVm, Stepped, NextSlot, NothingTracedYet, StillWalking,
     TrashRun, StopsOnlyPastTheTable, Typed, TypeOK, Located
<1>15. CASE WriteBack
  BY <1>15 DEF WriteBack, NothingTracedYet, StillWalking, TrashRun,
     StopsOnlyPastTheTable, Typed, TypeOK, Located
<1>16. CASE Debuggee
  BY <1>16 DEF Debuggee, engineVars, NothingTracedYet, StillWalking,
     TrashRun, StopsOnlyPastTheTable, Typed, TypeOK, Located
<1>17. CASE UNCHANGED vars
  BY <1>17 DEF NothingTracedYet, StillWalking, TrashRun, StopsOnlyPastTheTable, vars, engineVars, portVars
<1> QED
  BY <1>1, <1>2, <1>3, <1>4, <1>5, <1>6, <1>7, <1>8, <1>9, <1>10, <1>11,
     <1>12, <1>13, <1>14, <1>15, <1>16, <1>17
  DEF Next, Engine, Finished

-----------------------------------------------------------------------------
(* The initial states satisfy all three.                                   *)
LEMMA SafetyInit == Init => PortInv /\ ApiInv /\ TrashInv
<1> SUFFICES ASSUME Init PROVE PortInv /\ ApiInv /\ TrashInv
  OBVIOUS
<1>1. PortInv
  BY PortAssumption
  DEF Init, Inherited, RaisedAlive, Kinds, PortInv, ExitMeansGone, AnsweredBeforeWaiting,
      EventHeldBetweenSlots
<1>2. ApiInv
  BY DEF Init, ApiInv, NothingTracedYet, NoStaleApi, NoneYetExitProcess,
         OneExitProcess
<1>3. TrashInv
  BY DEF Init, TrashInv, NothingTracedYet, StillWalking, TrashRun,
         StopsOnlyPastTheTable
<1> QED
  BY <1>1, <1>2, <1>3

(* All of it together, which is what each property is read off.            *)
TraceInv == Typed /\ PortInv /\ ApiInv /\ TrashInv

LEMMA TraceInvariant == Spec => []TraceInv
<1>1. Init => TraceInv
  BY TypedInit, SafetyInit DEF TraceInv
<1>2. TraceInv /\ [Next]_vars => TraceInv'
  BY TypedStep, PortStep, ApiStep, TrashStep DEF TraceInv
<1> QED
  BY <1>1, <1>2, PTL DEF Spec

(* An address is written into a slot only if the trace of that very slot   *)
(* reached it: what an earlier trace left in traced_api is never adopted   *)
(* by one that gives up (mod.rs:325).                                      *)
THEOREM OnlyItsOwnApi == Spec => []NoStaleApi
<1>1. TraceInv => NoStaleApi
  BY DEF TraceInv, ApiInv
<1> QED
  BY <1>1, TraceInvariant, PTL

(* The engine never waits on a process it has left frozen, and the last    *)
(* event of a slot is still there for the next one to answer               *)
(* (slot.rs:63-71).                                                        *)
THEOREM EventsAnsweredInTurn == Spec => []EventProtocol
<1>1. TraceInv => EventProtocol
  BY DEF TraceInv, PortInv, EventProtocol
<1> QED
  BY <1>1, TraceInvariant, PTL

(* At most one slot is taken for ExitProcess, however many enter the VM    *)
(* (mod.rs:341).                                                           *)
THEOREM ExitProcessOnce == Spec => []OneExitProcess
<1>1. TraceInv => OneExitProcess
  BY DEF TraceInv, ApiInv
<1> QED
  BY <1>1, TraceInvariant, PTL

(* The walk gives up on the table only behind more than TRASH_THRESHOLD    *)
(* garbage slots in a row (mod.rs:300).                                    *)
THEOREM GivesUpBehindTheTable == Spec => []StopsOnlyPastTheTable
<1>1. TraceInv => StopsOnlyPastTheTable
  BY DEF TraceInv, TrashInv
<1> QED
  BY <1>1, TraceInvariant, PTL

-----------------------------------------------------------------------------
(***************************************************************************)
(* The IAT window: what its safety properties need to be inductive.        *)
(***************************************************************************)

(* The window knows how it ended only once it has, and only waits with     *)
(* nothing pending.                                                        *)
Phases ==
    /\ windowPc \in {"locate", "settle", "top", "wait"} => why = "none"
    /\ windowPc = "wait" => pending = NoThread /\ budget > 0

(* A quiet round is the last one: the loop does not wait again.            *)
QuietRoundIsLast == idle => windowPc # "wait" /\ pending = NoThread

(* Between two waits the main thread's event is pending, unless a wait     *)
(* timed out, failed or returned somebody else's event.                    *)
MainHeld ==
    windowPc # "wait" /\ ~idle /\ ~foreign /\ why # "wait_error" =>
        pending = Main

WindowInv ==
    WindowTypeOK /\ Phases /\ QuietRoundIsLast /\ MainHeld /\ ForeignEventStays

-----------------------------------------------------------------------------
USE DEF Frozen

LEMMA WindowStarts == WindowInit => WindowInv
<1> SUFFICES ASSUME WindowInit PROVE WindowInv
  OBVIOUS
<1>1. PortTypeOK
  BY PortAssumption DEF WindowInit, PendingInit, RaisedAlive, PortTypeOK, Kinds
<1>2. WindowTypeOK
  <2>1. budget \in 0 .. Rounds
    BY WindowAssumption DEF WindowInit
  <2> QED
    BY <1>1, <2>1 DEF WindowInit, WindowTypeOK
<1>3. Phases /\ QuietRoundIsLast /\ MainHeld /\ ForeignEventStays
  BY DEF WindowInit, PendingInit, Phases, QuietRoundIsLast, MainHeld,
         ForeignEventStays
<1> QED
  BY <1>2, <1>3 DEF WindowInv

LEMMA WindowKeeps == WindowInv /\ [WindowNext]_windowVars => WindowInv'
<1> SUFFICES ASSUME WindowInv, [WindowNext]_windowVars PROVE WindowInv'
  OBVIOUS
<1> USE PortAssumption, WindowAssumption
<1> USE DEF WindowInv, WindowTypeOK, Phases, QuietRoundIsLast, MainHeld,
            ForeignEventStays
<1>1. CASE Deadline
  <2>1. PortTypeOK'
    BY <1>1 DEF Deadline, portVars, PortTypeOK
  <2> QED
    BY <1>1, <2>1 DEF Deadline, End, portVars
<1>2. CASE Resume
  <2>1. PortTypeOK'
    BY <1>2 DEF Resume, ContinueEvent, ContinueRefused, portVars, PortTypeOK
  <2> QED
    BY <1>2, <2>1
    DEF Resume, ContinueEvent, ContinueRefused, End, portVars, PortTypeOK
<1>3. CASE Idle
  <2>1. PortTypeOK'
    BY <1>3 DEF Idle, portVars, PortTypeOK
  <2> QED
    BY <1>3, <2>1 DEF Idle, portVars
<1>4. CASE TakeEvent
  <2>1. PICK t \in Threads :
          /\ WaitReturns(t)
          /\ foreign' = (foreign \/ t # Main)
          /\ recorded' = IF t \in atIat /\ raised[t] = "access_violation"
                         THEN recorded \cup {t} ELSE recorded
          /\ IF raised[t] = "exit_process"
             THEN End("exit") ELSE windowPc' = "top" /\ UNCHANGED why
    BY <1>4 DEF TakeEvent
  <2>2. PortTypeOK'
    BY <2>1 DEF WaitReturns, PortTypeOK
  <2>3. /\ budget' \in 0 .. Rounds
        /\ windowPc' \in {"top", "restore"} /\ why' \in {"none", "exit"}
        /\ windowPc' = "top" => why' = "none"
    BY <1>4, <2>1 DEF TakeEvent, End
  <2>4. pending' = t /\ (foreign' <=> t # Main) /\ ~idle'
    BY <1>4, <2>1 DEF TakeEvent, WaitReturns
  <2>5. /\ recorded' \subseteq Threads /\ foreign' \in BOOLEAN
        /\ UNCHANGED <<iatGuarded, atIat, idle>>
    BY <1>4, <2>1 DEF TakeEvent
  <2> QED
    BY <2>2, <2>3, <2>4, <2>5
<1>5. CASE WindowWaitError
  <2>1. PortTypeOK'
    BY <1>5 DEF WindowWaitError, WaitFails, PortTypeOK
  <2> QED
    BY <1>5, <2>1 DEF WindowWaitError, WaitFails, End
<1>6. CASE Restore
  <2>1. PortTypeOK'
    BY <1>6 DEF Restore, portVars, PortTypeOK
  <2> QED
    BY <1>6, <2>1 DEF Restore, portVars
<1>7. CASE WindowDebuggee
  <2>1. PortTypeOK' /\ UNCHANGED pending
    BY <1>7
    DEF WindowDebuggee, TouchIat, RaiseExit, Raise, CanRun, PortTypeOK, Kinds
  <2>2. atIat' \subseteq Threads
    BY <1>7 DEF WindowDebuggee, TouchIat
  <2> QED
    BY <1>7, <2>1, <2>2 DEF WindowDebuggee
<1>8. CASE Locate
  <2>1. PortTypeOK'
    BY <1>8 DEF Locate, portVars, PortTypeOK
  <2> QED
    BY <1>8, <2>1 DEF Locate, portVars
<1>9. CASE Settle \/ Settled
  <2>1. PortTypeOK'
    BY <1>9 DEF Settle, Settled, portVars, PortTypeOK
  <2> QED
    BY <1>9, <2>1 DEF Settle, Settled, portVars
<1>10. CASE UNCHANGED windowVars
  <2>1. PortTypeOK'
    BY <1>10 DEF windowVars, portVars, PortTypeOK
  <2> QED
    BY <1>10, <2>1 DEF windowVars, windowState, portVars
<1> QED
  BY <1>1, <1>2, <1>3, <1>4, <1>5, <1>6, <1>7, <1>8, <1>9, <1>10
  DEF WindowNext, Window, WindowOver

(* Every variable of the window keeps its type; the deadline bounds the    *)
(* rounds (WindowTypeOK).                                                  *)
THEOREM WindowTypeCorrect == WindowSpec => []WindowTypeOK
<1>1. WindowInv => WindowTypeOK
  BY DEF WindowInv
<1> QED
  BY <1>1, WindowStarts, WindowKeeps, PTL DEF WindowSpec

(* The window hands the main thread's event over whenever only the main    *)
(* thread was heard of, never answers another thread's event, and takes no *)
(* event any more after a wait that timed out (av_handler.rs:1161-1213).   *)
THEOREM WindowSafety == WindowSpec => []Handover
<1>1. WindowInv => Handover
  BY DEF WindowInv, MainHeld, QuietRoundIsLast, HandsOverTheEvent,
         StopsAtFirstQuietRound, Handover
<1> QED
  BY <1>1, WindowStarts, WindowKeeps, PTL DEF WindowSpec

-----------------------------------------------------------------------------
(***************************************************************************)
(* Stepping into a mapped image: whose event is pending at each point.     *)
(* Past the first answer the debug loop's event was the main thread's own. *)
(***************************************************************************)
Holds ==
    /\ stepPc = "arm" => pending = evThread
    /\ stepPc \in {"wait", "event", "product"} => evThread = Main
    /\ stepPc = "event" => pending \in Threads /\ steps < MaxSteps
    /\ stepPc = "product" => pending = Main

Reasons ==
    /\ stepPc \in {"arm", "wait", "event", "product"} => cut = "none"
    /\ stepPc = "resume" =>
        /\ cut # "none"
        /\ cut \in {"not_main", "fault", "dump_failed"} => pending = evThread

(* The fallbacks that keep the loop's event do not fail.                   *)
FallbackKeepsTheEvent ==
    stepPc = "failed" => cut \notin {"none", "not_main", "fault", "dump_failed"}

StepInv == StepTypeOK /\ Holds /\ Reasons /\ FallbackKeepsTheEvent

-----------------------------------------------------------------------------
LEMMA StepStarts == StepInit => StepInv
<1> SUFFICES ASSUME StepInit PROVE StepInv
  OBVIOUS
<1>1. PortTypeOK /\ evThread \in Threads /\ pending = evThread
  BY PortAssumption DEF StepInit, PendingInit, RaisedAlive, PortTypeOK, Kinds
<1>2. steps \in 0 .. MaxSteps
  BY StepAssumption DEF StepInit
<1> QED
  BY <1>1, <1>2
  DEF StepInit, StepInv, StepTypeOK, Cuts, Holds, Reasons, FallbackKeepsTheEvent

(* One step further with the trap flag set again.                          *)
LEMMA StepAgainInv ==
    ASSUME StepInv, stepPc = "event", StepAgain
    PROVE  StepInv'
<1>1. PortTypeOK'
  BY PortAssumption, PortSteps DEF StepAgain, StepInv, StepTypeOK
<1>2. steps' \in 0 .. MaxSteps
  BY StepAssumption DEF StepAgain, StepInv, StepTypeOK, Holds
<1> QED
  BY <1>1, <1>2
  DEF StepAgain, StepInv, StepTypeOK, Holds, Reasons, FallbackKeepsTheEvent

(* A way out that keeps or loses the loop's event.                         *)
LEMMA FallBackInv ==
    ASSUME StepInv, stepPc \in {"arm", "wait", "event", "product"}, PortTypeOK',
           NEW how \in Cuts \ {"none"}, FallBack(how),
           how \in {"not_main", "fault", "dump_failed"} => pending' = evThread
    PROVE  StepInv'
BY DEF FallBack, StepInv, StepTypeOK, Holds, Reasons, FallbackKeepsTheEvent

LEMMA StepKeeps == StepInv /\ [StepNext]_stepVars => StepInv'
<1> SUFFICES ASSUME StepInv, [StepNext]_stepVars PROVE StepInv'
  OBVIOUS
<1> USE PortAssumption, StepAssumption
<1>0. PortTypeOK /\ {"not_main", "timeout", "foreign", "own_event", "fault",
        "steps", "wait_error", "dump_failed"} \subseteq Cuts \ {"none"}
  BY DEF StepInv, StepTypeOK, Cuts
<1>1. CASE Arm
  <2>1. CASE ContinueEvent(Main) /\ ~(FallBack("not_main"))
    <3>1. PortTypeOK'
      BY <1>0, <2>1, PortSteps
    <3> QED
      BY <1>1, <2>1, <3>1
      DEF Arm, ContinueEvent, ContinueRefused, StepInv, StepTypeOK, Holds,
          Reasons, FallbackKeepsTheEvent
  <2>2. CASE ContinueRefused(Main) /\ FallBack("not_main")
    <3>1. PortTypeOK' /\ pending' = evThread /\ stepPc = "arm"
      BY <1>0, <1>1, <2>2, PortSteps
      DEF Arm, ContinueRefused, portVars, StepInv, Holds
    <3> QED
      BY <1>0, <2>2, <3>1, FallBackInv
  <2> QED
    BY <1>1, <2>1, <2>2 DEF Arm, FallBack
<1>2. CASE OutOfSteps \/ StepWaitError \/ Timeout
  <2>1. PortTypeOK' /\ stepPc = "wait"
    BY <1>0, <1>2, PortSteps
    DEF OutOfSteps, StepWaitError, Timeout, ContinueRefused
  <2>2. \E how \in {"steps", "wait_error", "timeout"} : FallBack(how)
    BY <1>2 DEF OutOfSteps, StepWaitError, Timeout
  <2> QED
    BY <1>0, <2>1, <2>2, FallBackInv
<1>3. CASE Take
  <2>1. PortTypeOK' /\ pending' \in Threads
    BY <1>0, <1>3, PortSteps DEF Take, WaitReturns
  <2> QED
    BY <1>3, <2>1
    DEF Take, StepInv, StepTypeOK, Holds, Reasons, FallbackKeepsTheEvent
<1>4. CASE StepTrap
  <2>1. CASE inImage
    <3>1. PortTypeOK'
      BY <1>0, <1>4, <2>1, PortSteps DEF StepTrap
    <3> QED
      BY <1>4, <2>1, <3>1
      DEF StepTrap, Taken, portVars, StepInv, StepTypeOK, Holds, Reasons,
          FallbackKeepsTheEvent
  <2>2. CASE ~inImage
    BY <1>4, <2>2, StepAgainInv DEF StepTrap, Taken
  <2> QED
    BY <2>1, <2>2
<1>5. CASE ShellFault
  <2>1. /\ PortTypeOK' /\ stepPc = "event"
        /\ pending' = evThread /\ FallBack("fault")
    BY <1>0, <1>5, PortSteps
    DEF ShellFault, Taken, portVars, StepInv, Holds
  <2> QED
    BY <1>0, <2>1, FallBackInv
<1>6. CASE AnsweredTwice
  <2>1. stepPc = "event" /\ pending \in Threads
    BY <1>6 DEF AnsweredTwice, Taken, StepInv, Holds
  <2>2. PortTypeOK'
    BY <1>0, <1>6, <2>1, PortSteps DEF AnsweredTwice
  <2>3. \E how \in {"own_event", "foreign"} : FallBack(how)
    BY <1>6 DEF AnsweredTwice
  <2> QED
    BY <1>0, <2>1, <2>2, <2>3, FallBackInv
<1>7. CASE OtherEvent
  <2>1. stepPc = "event"
    BY <1>7 DEF OtherEvent, Taken
  <2>2. CASE StepAgain
    BY <2>1, <2>2, StepAgainInv
  <2>3. CASE ContinueRefused(Main) /\ FallBack("foreign")
    <3>1. PortTypeOK'
      BY <1>0, <2>3, PortSteps DEF ContinueRefused
    <3> QED
      BY <1>0, <2>1, <2>3, <3>1, FallBackInv
  <2> QED
    BY <1>7, <2>2, <2>3 DEF OtherEvent
<1>8. CASE Product
  <2>1. stepPc = "product" /\ pending = evThread /\ evThread \in Threads
    BY <1>8 DEF Product, StepInv, StepTypeOK, Holds
  <2>2. CASE ContinueEvent(evThread) /\ stepPc' = "dumped"
             /\ UNCHANGED <<evThread, inImage, steps, cut>>
    <3>1. PortTypeOK'
      BY <1>0, <2>1, <2>2, PortSteps
    <3> QED
      BY <2>2, <3>1
      DEF StepInv, StepTypeOK, Holds, Reasons, FallbackKeepsTheEvent
  <2>3. CASE FallBack("dump_failed") /\ UNCHANGED portVars
    <3>1. PortTypeOK' /\ pending' = evThread
      BY <1>0, <2>1, <2>3, PortSteps DEF portVars
    <3> QED
      BY <1>0, <2>1, <2>3, <3>1, FallBackInv
  <2> QED
    BY <1>8, <2>1, <2>2, <2>3 DEF Product
<1>9. CASE ResumeLoop
  <2>1. PortTypeOK'
    BY <1>0, <1>9, PortSteps 
    DEF ResumeLoop, ContinueRefused, StepInv, StepTypeOK
  <2> QED
    BY <1>9, <2>1
    DEF ResumeLoop, ContinueEvent, ContinueRefused, StepInv, StepTypeOK, Cuts,
        Holds, Reasons, FallbackKeepsTheEvent
<1>10. CASE StepDebuggee
  <2>1. PortTypeOK'
    BY <1>0, <1>10, PortSteps DEF StepDebuggee, Kinds
  <2>2. UNCHANGED pending /\ inImage' \in BOOLEAN
    BY <1>10 DEF StepDebuggee, RaiseExit, Raise, StepInv, StepTypeOK
  <2> QED
    BY <1>10, <2>1, <2>2
    DEF StepDebuggee, StepInv, StepTypeOK, Holds, Reasons, FallbackKeepsTheEvent
<1>11. CASE UNCHANGED stepVars
  <2>1. PortTypeOK'
    BY <1>0, <1>11, PortSteps DEF stepVars
  <2> QED
    BY <1>11, <2>1
    DEF stepVars, stepState, portVars, StepInv, StepTypeOK, Holds, Reasons,
        FallbackKeepsTheEvent
<1> QED
  BY <1>1, <1>2, <1>3, <1>4, <1>5, <1>6, <1>7, <1>8, <1>9, <1>10, <1>11
  DEF StepNext, Dumper, StepOver

(* Every variable of the stepping keeps its type; max_steps bounds it      *)
(* (StepTypeOK).                                                           *)
THEOREM StepTypeCorrect == StepSpec => []StepTypeOK
<1>1. StepInv => StepTypeOK
  BY DEF StepInv
<1> QED
  BY <1>1, StepStarts, StepKeeps, PTL DEF StepSpec

-----------------------------------------------------------------------------
(* The refinement: the phase of the attempt follows from the program       *)
(* counter, the reason is the cut.                                         *)
LEMMA PromiseInit == StepInit => Promise!AttemptInit
BY DEF StepInit, Promise!AttemptInit, Phase

LEMMA PhaseStays ==
    ASSUME UNCHANGED <<stepPc, cut>>
    PROVE  UNCHANGED Promise!attemptVars
BY DEF Promise!attemptVars, Phase

(* Every way out of the stepping is a way of giving up.                    *)
LEMMA FallBackGivesUp ==
    ASSUME stepPc \in {"arm", "wait", "event"},
           NEW how \in Cuts \ {"none", "dump_failed"}, FallBack(how)
    PROVE  Promise!GiveUp
BY DEF FallBack, Phase, Cuts, Promise!GiveUp, Promise!Keeping, Promise!Losing

LEMMA PromiseStep ==
    ASSUME StepInv, [StepNext]_stepVars
    PROVE  [Promise!AttemptNext]_Promise!attemptVars
<1>0. {"not_main", "timeout", "foreign", "own_event", "fault", "steps",
        "wait_error"} \subseteq Cuts \ {"none", "dump_failed"}
  BY DEF Cuts
<1>1. CASE Arm
  <2>1. CASE FallBack("not_main")
    BY <1>0, <1>1, <2>1, FallBackGivesUp DEF Arm, Promise!AttemptNext
  <2>2. CASE stepPc' = "wait" /\ UNCHANGED cut
    BY <1>1, <2>2 DEF Arm, Phase, Promise!attemptVars
  <2> QED
    BY <1>1, <2>1, <2>2 DEF Arm
<1>2. CASE OutOfSteps \/ StepWaitError \/ Timeout
  <2>1. \E how \in {"steps", "wait_error", "timeout"} : FallBack(how)
    BY <1>2 DEF OutOfSteps, StepWaitError, Timeout
  <2>2. stepPc = "wait"
    BY <1>2 DEF OutOfSteps, StepWaitError, Timeout
  <2> QED
    BY <1>0, <2>1, <2>2, FallBackGivesUp DEF Promise!AttemptNext
<1>3. CASE Take
  BY <1>3 DEF Take, Phase, Promise!attemptVars
<1>4. CASE StepTrap
  <2>1. CASE inImage
    BY <1>4, <2>1
    DEF StepTrap, Taken, Phase, Promise!AttemptNext, Promise!EnterImage
  <2>2. CASE ~inImage
    BY <1>4, <2>2 DEF StepTrap, Taken, StepAgain, Phase, Promise!attemptVars
  <2> QED
    BY <2>1, <2>2
<1>5. CASE ShellFault \/ AnsweredTwice
  <2>1. /\ stepPc = "event"
        /\ \E how \in {"fault", "own_event", "foreign"} : FallBack(how)
    BY <1>5 DEF ShellFault, AnsweredTwice, Taken
  <2> QED
    BY <1>0, <2>1, FallBackGivesUp DEF Promise!AttemptNext
<1>6. CASE OtherEvent
  <2>1. CASE StepAgain
    BY <1>6, <2>1
    DEF OtherEvent, Taken, StepAgain, Phase, Promise!attemptVars
  <2>2. CASE FallBack("foreign")
    BY <1>0, <1>6, <2>2, FallBackGivesUp
    DEF OtherEvent, Taken, Promise!AttemptNext
  <2> QED
    BY <1>6, <2>1, <2>2 DEF OtherEvent
<1>7. CASE Product
  <2>1. stepPc = "product" /\ pending = evThread
    BY <1>7 DEF Product, StepInv, Holds
  <2>2. CASE stepPc' = "dumped" /\ UNCHANGED cut
    BY <2>1, <2>2 DEF Phase, Promise!AttemptNext, Promise!ProductWritten
  <2>3. CASE FallBack("dump_failed")
    BY <2>1, <2>3
    DEF FallBack, Phase, Promise!AttemptNext, Promise!ProductFails
  <2> QED
    BY <1>7, <2>1, <2>2, <2>3 DEF Product
<1>8. CASE ResumeLoop
  <2>1. /\ stepPc = "resume"
        /\ \/ stepPc' = "guard_path" /\ cut' = "none"
           \/ stepPc' = "failed" /\ UNCHANGED cut
    BY <1>8 DEF ResumeLoop
  <2>2. CASE stepPc' = "guard_path"
    BY <2>1, <2>2 DEF Phase, Promise!AttemptNext, Promise!LoopGoesOn
  <2>3. CASE stepPc' = "failed"
    <3>1. pending # evThread
      BY <1>8, <2>3 DEF ResumeLoop, ContinueRefused
    <3>2. cut \in Promise!Losing
      BY <2>1, <3>1 DEF StepInv, StepTypeOK, Reasons, Cuts, Promise!Losing
    <3> QED
      BY <2>1, <2>3, <3>2 DEF Phase, Promise!AttemptNext, Promise!LoopFails
  <2> QED
    BY <1>8, <2>2, <2>3 DEF ResumeLoop
<1>9. CASE StepDebuggee \/ UNCHANGED stepVars
  BY <1>9, PhaseStays DEF StepDebuggee, stepVars, stepState
<1> QED
  BY <1>1, <1>2, <1>3, <1>4, <1>5, <1>6, <1>7, <1>8, <1>9
  DEF StepNext, Dumper, StepOver

(* The detailed stepping implements what the debug loop is written         *)
(* against, whatever the other threads do: a product is only written while *)
(* the loop's own event is pending, so that the answer after it succeeds,  *)
(* and a fallback that keeps that event reaches the .text guard path       *)
(* (mod.rs:2335-2363).                                                     *)
THEOREM StepKeepsItsPromise == StepSpec => KeepsItsPromise
<1>1. StepInit => Promise!AttemptInit
  BY PromiseInit
<1>2. StepInv /\ [StepNext]_stepVars => [Promise!AttemptNext]_Promise!attemptVars
  BY PromiseStep
<1> QED
  BY <1>1, <1>2, StepStarts, StepKeeps, PTL
  DEF StepSpec, KeepsItsPromise, Promise!AttemptSpec
-----------------------------------------------------------------------------
(***************************************************************************)
(* The code-section guard, for every build, data-execution policy, number  *)
(* of callbacks and limit.                                                 *)
(***************************************************************************)

(* The retries and the streak of equal faults stay below their limits as   *)
(* long as the loop runs.                                                  *)
BelowLimits ==
    guardPc = "loop" =>
        /\ streak < StormLimit
        /\ ~traceMsvc => retries < RetryLimit \/ retries = 0

GuardTyped == GuardTypeOK /\ BelowLimits

-----------------------------------------------------------------------------
USE DEF Frozen

(* Serving an event, raising one and waiting for one keep the port typed.  *)
LEMMA GuardPortSteps ==
    ASSUME PortTypeOK,
           \/ \E t \in Threads : Serve(t)
           \/ \E t \in Threads : WaitReturns(t)
           \/ \E t \in Threads : WaitFails(t)
           \/ \E t \in Threads : RaiseExit(t)
           \/ \E t \in Threads, k \in Kinds : Raise(t, k)
           \/ UNCHANGED portVars
    PROVE  PortTypeOK'
BY DEF PortTypeOK, Serve, WaitReturns, WaitFails, RaiseExit, Raise, CanRun,
       portVars, Kinds

LEMMA GuardTypedInit == GuardInit => GuardTyped
<1> SUFFICES ASSUME GuardInit PROVE GuardTyped
  OBVIOUS
<1>1. PortTypeOK
  BY PortAssumption DEF GuardInit, PortTypeOK
<1>2. /\ at \in [Threads -> Code] /\ tf \in [Threads -> BOOLEAN]
      /\ fault \in [Threads -> Faults] /\ bad \in [Threads -> BOOLEAN]
  BY DEF GuardInit, Code, InThemida, Faults
<1>3. /\ tlsCounter \in 0 .. TlsTotal /\ touches \in 0 .. 2
      /\ begun \in 0 .. Callbacks
      /\ retries \in 0 .. RetryLimit + 1 /\ streak \in 0 .. StormLimit
      /\ BelowLimits
  BY GuardAssumption DEF GuardInit, BelowLimits
<1> QED
  BY <1>1, <1>2, <1>3 DEF GuardInit, GuardTyped, GuardTypeOK

(* The bookkeeping of AvStorm::record.                                     *)
LEMMA StreakType ==
    ASSUME GuardTyped, NEW t \in Threads
    PROVE  /\ <<t, at[t], fault[t]>> \in {<<>>} \cup (Threads \X Code \X Faults)
           /\ Streak(t) \in Nat
           /\ guardPc = "loop" => Streak(t) <= StormLimit
<1>1. <<t, at[t], fault[t]>> \in Threads \X Code \X Faults
  BY DEF GuardTyped, GuardTypeOK
<1>2. streak \in Nat /\ StormLimit \in Nat /\ StormLimit > 1
  BY GuardAssumption DEF GuardTyped, GuardTypeOK
<1>3. Streak(t) \in Nat /\ (guardPc = "loop" => Streak(t) <= StormLimit)
  BY <1>2 DEF Streak, GuardTyped, BelowLimits
<1> QED
  BY <1>1, <1>3

LEMMA CountedType ==
    ASSUME GuardTyped, NEW t \in Threads, Counted(t)
    PROVE  /\ last' \in {<<>>} \cup (Threads \X Code \X Faults)
           /\ streak' \in 0 .. StormLimit /\ streak' < StormLimit
<1>1. StormLimit \in Nat /\ StormLimit > 1
  BY GuardAssumption
<1> QED
  BY <1>1, StreakType DEF Counted

(* A step of the debuggee leaves the loop's and the guard's state alone.   *)
LEMMA DebuggeeTyped ==
    ASSUME GuardTyped, GuardDebuggee
    PROVE  GuardTyped'
<1>1. PICK t \in Threads :
        \/ Fault(t) \/ HitInt3(t) \/ Execute(t) \/ Report(t)
        \/ \E u \in Threads : Repair(t, u)
  BY DEF GuardDebuggee
<1>2. UNCHANGED <<guard, loop>>
  BY DEF GuardDebuggee
<1>3. PortTypeOK'
  BY <1>1, GuardPortSteps
  DEF Fault, HitInt3, Execute, Report, Repair, Kinds, GuardTyped, GuardTypeOK
<1>4. /\ at' \in [Threads -> Code] /\ tf' \in [Threads -> BOOLEAN]
      /\ fault' \in [Threads -> Faults] /\ bad' \in [Threads -> BOOLEAN]
      /\ total' \in 0 .. Callbacks /\ begun' \in 0 .. Callbacks
      /\ blind' \subseteq {"race", "undercut"}
      /\ {escaped', dep'} \subseteq BOOLEAN
  <2>1. CASE Fault(t)
    BY <2>1 DEF Fault, FaultOf, Faults, plan, GuardTyped, GuardTypeOK
  <2>2. CASE HitInt3(t)
    BY <2>2 DEF HitInt3, Code, InThemida, plan, GuardTyped, GuardTypeOK
  <2>3. CASE Execute(t)
    <3>1. PICK next \in After(t) :
            /\ at' = [at EXCEPT ![t] = next]
            /\ begun' = IF next = "callback" THEN begun + 1 ELSE begun
            /\ \E b \in MayBeBad(next) : bad' = [bad EXCEPT ![t] = b]
      BY <2>3 DEF Execute
    <3>2. next \in Code /\ (next = "callback" => begun < total)
      BY <3>1 DEF After, Code, InThemida, InText, TouchesText
    <3>3. begun' \in 0 .. Callbacks
      BY <3>1, <3>2, GuardAssumption DEF GuardTyped, GuardTypeOK
    <3>4. bad' \in [Threads -> BOOLEAN]
      BY <3>1 DEF MayBeBad, GuardTyped, GuardTypeOK
    <3> QED
      BY <2>3, <3>1, <3>2, <3>3, <3>4
      DEF Execute, Faults, GuardTyped, GuardTypeOK
  <2>4. CASE Report(t)
    BY <2>4 DEF Report, program, plan, GuardTyped, GuardTypeOK
  <2>5. CASE \E u \in Threads : Repair(t, u)
    BY <2>5 DEF Repair, plan, GuardTyped, GuardTypeOK
  <2> QED
    BY <1>1, <2>1, <2>2, <2>3, <2>4, <2>5
<1> QED
  BY <1>2, <1>3, <1>4 DEF guard, loop, GuardTyped, GuardTypeOK, BelowLimits

(* Counting once more leaves the counter within the budget.                *)
LEMMA RecountedType ==
    ASSUME GuardTyped, NEW t \in Threads
    PROVE  Recounted(t) \in 0 .. TlsTotal
BY GuardAssumption
DEF Recounted, SkipsCallback, BudgetOpen, GuardTyped, GuardTypeOK

(* A fault that is taken for the program's entry point or the MSVC stub.   *)
LEMMA PossibleTyped ==
    ASSUME GuardTyped, NEW t \in Threads,
           \/ MsvcTraceComplete(t) \/ AcceptOep(t)
           \/ RetryVirtualized(t) \/ EnterMsvcTrace(t)
    PROVE  GuardTyped'
<1>1. /\ last' \in {<<>>} \cup (Threads \X Code \X Faults)
      /\ streak' \in 0 .. StormLimit /\ streak' < StormLimit
      /\ guardPc = "loop"
  BY CountedType
  DEF MsvcTraceComplete, AcceptOep, RetryVirtualized, EnterMsvcTrace,
      Possible, Counted
<1>2. PortTypeOK'
  BY GuardPortSteps
  DEF MsvcTraceComplete, AcceptOep, RetryVirtualized, EnterMsvcTrace,
      GuardTyped, GuardTypeOK
<1>3. /\ at[t] \in Code /\ {"shell", "return"} \subseteq Code
      /\ Recounted(t) \in 0 .. TlsTotal
  BY RecountedType DEF GuardTyped, GuardTypeOK, Code, InThemida
<1>4. ASSUME NEW next \in Code, SentTo(t, next)
      PROVE  at' \in [Threads -> Code] /\ bad' \in [Threads -> BOOLEAN]
  BY <1>4 DEF SentTo, GuardTyped, GuardTypeOK
<1>5. CASE MsvcTraceComplete(t)
  BY <1>1, <1>2, <1>5
  DEF MsvcTraceComplete, program, plan, GuardTyped, GuardTypeOK, BelowLimits
<1>6. CASE AcceptOep(t)
  <2>1. oep' \in {"none", "found", "guess"} \cup Code
    BY <1>3, <1>6 DEF AcceptOep, Rescanned
  <2>2. tlsCounter' \in 0 .. TlsTotal
    BY <1>3, <1>6 DEF AcceptOep
  <2> QED
    BY <1>1, <1>2, <1>6, <2>1, <2>2
    DEF AcceptOep, program, plan, GuardTyped, GuardTypeOK, BelowLimits
<1>7. CASE RetryVirtualized(t)
  <2>1. oep' \in {"none", "found", "guess"} \cup Code
    BY <1>3, <1>7 DEF RetryVirtualized, Rescanned, GuardTyped, GuardTypeOK
  <2>2. at' \in [Threads -> Code] /\ bad' \in [Threads -> BOOLEAN]
    BY <1>3, <1>4, <1>7 DEF RetryVirtualized, GuardTyped, GuardTypeOK
  <2>3. /\ retries' \in 0 .. RetryLimit + 1
        /\ guardPc' = "loop" => retries' < RetryLimit
        /\ guardPc' \in {"loop", "oep"} /\ text' \in {"noaccess", "open"}
        /\ tlsCounter' \in 0 .. TlsTotal
    BY <1>1, <1>3, <1>7, GuardAssumption
    DEF RetryVirtualized, GuardTyped, GuardTypeOK, BelowLimits
  <2>4. UNCHANGED <<tf, fault, total, begun, escaped, dep, blind, tm, byte,
                    saved, stepping, ftm, touches, traceMsvc>>
    BY <1>7 DEF RetryVirtualized, plan
  <2>5. GuardTypeOK'
    BY <1>1, <1>2, <2>1, <2>2, <2>3, <2>4 DEF GuardTyped, GuardTypeOK
  <2> QED
    BY <1>1, <2>3, <2>5 DEF GuardTyped, BelowLimits
<1>8. CASE EnterMsvcTrace(t)
  <2>1. retries' \in 0 .. RetryLimit + 1 /\ tlsCounter' \in 0 .. TlsTotal
    BY <1>1, <1>3, <1>8, GuardAssumption
    DEF EnterMsvcTrace, GuardTyped, GuardTypeOK, BelowLimits
  <2>2. at' \in [Threads -> Code] /\ bad' \in [Threads -> BOOLEAN]
    BY <1>3, <1>4, <1>8 DEF EnterMsvcTrace, GuardTyped, GuardTypeOK
  <2> QED
    BY <1>1, <1>2, <1>8, <2>1, <2>2
    DEF EnterMsvcTrace, plan, GuardTyped, GuardTypeOK, BelowLimits
<1> QED
  BY <1>5, <1>6, <1>7, <1>8

(* A fault the guard itself answers, or the watchdog.                      *)
LEMMA GuardedTyped ==
    ASSUME GuardTyped, NEW t \in Threads,
           OnStorm(t) \/ RearmAfterTls(t) \/ StepPast(t) \/ EnterCallback(t)
    PROVE  GuardTyped'
<1>1. PortTypeOK'
  BY GuardPortSteps
  DEF OnStorm, RearmAfterTls, StepPast, EnterCallback, Resumed, GuardTyped,
      GuardTypeOK
<1>2. ASSUME Resumed(t)
      PROVE  /\ last' \in {<<>>} \cup (Threads \X Code \X Faults)
             /\ streak' \in 0 .. StormLimit /\ streak' < StormLimit
             /\ guardPc = "loop"
  BY <1>2, CountedType DEF Resumed, Counted
<1>3. CASE OnStorm(t)
  <2>1. streak' \in 0 .. StormLimit
    BY <1>3, StreakType, GuardAssumption DEF OnStorm
  <2> QED
    BY <1>1, <1>3, <2>1, StreakType
    DEF OnStorm, program, plan, guard, GuardTyped, GuardTypeOK, BelowLimits
<1>4. CASE RearmAfterTls(t)
  BY <1>1, <1>2, <1>4
  DEF RearmAfterTls, plan, keepLoop, GuardTyped, GuardTypeOK, BelowLimits
<1>5. CASE StepPast(t)
  <2>1. touches' \in 0 .. 2 /\ tf' \in [Threads -> BOOLEAN]
    BY <1>5 DEF StepPast, GuardTyped, GuardTypeOK
  <2> QED
    BY <1>1, <1>2, <1>5, <2>1
    DEF StepPast, plan, keepLoop, GuardTyped, GuardTypeOK, BelowLimits
<1>6. CASE EnterCallback(t)
  <2>1. tlsCounter' \in 0 .. TlsTotal
    BY <1>6, GuardAssumption
    DEF EnterCallback, TakenForCallback, BudgetOpen, GuardTyped, GuardTypeOK
  <2>2. byte' \in {"orig", "int3"} /\ saved' \in {"none", "orig", "int3"}
    BY <1>6 DEF EnterCallback, GuardTyped, GuardTypeOK
  <2> QED
    BY <1>1, <1>2, <1>6, <2>1, <2>2
    DEF EnterCallback, program, plan, keepLoop, GuardTyped, GuardTypeOK, BelowLimits
<1> QED
  BY <1>3, <1>4, <1>5, <1>6

(* Traps, breakpoints and the events the loop merely answers.              *)
LEMMA AnsweredTyped ==
    ASSUME GuardTyped, NEW t \in Threads,
           \/ OnSingleStep(t) \/ OnReturnInt3(t) \/ OnForeignInt3(t)
           \/ OnOther(t) \/ OnEnd(t)
    PROVE  GuardTyped'
<1>1. PortTypeOK'
  BY GuardPortSteps
  DEF OnSingleStep, OnReturnInt3, OnForeignInt3, OnOther, OnEnd, Event,
      GuardTyped, GuardTypeOK
<1>2. CASE OnSingleStep(t)
  BY <1>1, <1>2
  DEF OnSingleStep, plan, loop, GuardTyped, GuardTypeOK, BelowLimits
<1>3. CASE OnReturnInt3(t)
  <2>1. at' \in [Threads -> Code]
    BY <1>3 DEF OnReturnInt3, GuardTyped, GuardTypeOK, Code, InThemida
  <2>2. byte' \in {"orig", "int3"}
    BY <1>3 DEF OnReturnInt3, OurInt3, GuardTyped, GuardTypeOK
  <2> QED
    BY <1>1, <1>3, <2>1, <2>2
    DEF OnReturnInt3, plan, loop, GuardTyped, GuardTypeOK, BelowLimits
<1>4. CASE OnForeignInt3(t) \/ OnOther(t)
  BY <1>1, <1>4
  DEF OnForeignInt3, OnOther, program, plan, guard, loop, GuardTyped, GuardTypeOK,
      BelowLimits
<1>5. CASE OnEnd(t)
  BY <1>1, <1>5
  DEF OnEnd, program, plan, guard, GuardTyped, GuardTypeOK, BelowLimits
<1> QED
  BY <1>2, <1>3, <1>4, <1>5

LEMMA GuardTypedStep == GuardTyped /\ [GuardNext]_guardVars => GuardTyped'
<1> SUFFICES ASSUME GuardTyped, [GuardNext]_guardVars PROVE GuardTyped'
  OBVIOUS
<1>1. CASE Debugger
  BY <1>1, PossibleTyped, GuardedTyped, AnsweredTyped
  DEF Debugger, LoopServes, AccessViolation
<1>2. CASE GuardDebuggee
  BY <1>2, DebuggeeTyped
<1>3. CASE UNCHANGED guardVars
  <2>1. PortTypeOK'
    BY <1>3, GuardPortSteps DEF guardVars, GuardTyped, GuardTypeOK
  <2> QED
    BY <1>3, <2>1
    DEF guardVars, program, plan, guard, loop, GuardTyped, GuardTypeOK,
        BelowLimits
<1> QED
  BY <1>1, <1>2, <1>3 DEF GuardNext, GuardFinished

(* Every variable of the guard keeps its type: the callback budget, the    *)
(* retries and the storm counter stay within their limits (GuardTypeOK).        *)
THEOREM GuardTypeCorrect == GuardSpec => []GuardTypeOK
<1>1. GuardTyped => GuardTypeOK
  BY DEF GuardTyped
<1> QED
  BY <1>1, GuardTypedInit, GuardTypedStep, PTL DEF GuardSpec

-----------------------------------------------------------------------------
(* .text is never left open by the debug loop for no reason: each access   *)
(* that opens it leaves a trap or a callback outstanding, and whatever     *)
(* ends one of these closes it, with any number of threads faulting and    *)
(* trapping in between (guard.rs:169-448, mod.rs:1473).                    *)
THEOREM OpenOnlyForAReason == GuardSpec => []OpenForAReason
<1>1. GuardInit => OpenForAReason
  BY DEF GuardInit, OpenForAReason
<1>2. OpenForAReason /\ [GuardNext]_guardVars => OpenForAReason'
  <2> SUFFICES ASSUME OpenForAReason, [GuardNext]_guardVars PROVE OpenForAReason'
    OBVIOUS
  <2> USE DEF OpenForAReason
  <2>1. CASE GuardDebuggee \/ UNCHANGED guardVars
    BY <2>1 DEF GuardDebuggee, guardVars, guard, loop
  <2>2. ASSUME NEW t \in Threads,
               \/ OnSingleStep(t) \/ OnReturnInt3(t) \/ OnForeignInt3(t)
               \/ OnOther(t) \/ OnEnd(t)
        PROVE  OpenForAReason'
    BY <2>2
    DEF OnSingleStep, OnReturnInt3, OnForeignInt3, OnOther, OnEnd, Event,
        guard, loop
  <2>3. ASSUME NEW t \in Threads,
               OnStorm(t) \/ RearmAfterTls(t) \/ StepPast(t) \/ EnterCallback(t)
        PROVE  OpenForAReason'
    BY <2>3
    DEF OnStorm, RearmAfterTls, StepPast, EnterCallback, guard
  <2>4. ASSUME NEW t \in Threads,
               \/ MsvcTraceComplete(t) \/ AcceptOep(t)
               \/ RetryVirtualized(t) \/ EnterMsvcTrace(t)
        PROVE  OpenForAReason'
    BY <2>4
    DEF MsvcTraceComplete, AcceptOep, RetryVirtualized, EnterMsvcTrace
  <2> QED
    BY <2>1, <2>2, <2>3, <2>4
    DEF GuardNext, Debugger, LoopServes, AccessViolation, GuardFinished
<1> QED
  BY <1>1, <1>2, PTL DEF GuardSpec

-----------------------------------------------------------------------------
(* What any number of threads can do to the guard while the loop runs.     *)

(* Only the main thread executes .text, and no thread comes there by a     *)
(* stepped instruction.                                                    *)
OthersOutside ==
    /\ \A t \in Threads \ {Main} : at[t] \in {"shell", "shell_write", "library"}
    /\ \A t \in Threads : tf[t] => at[t] \notin InText

(* An open .text is closed by a trap that is still to come, unless a       *)
(* callback is running.                                                    *)
TrapOutstanding ==
    text = "open" /\ ~gone => ftm \/ (stepping /\ \E u \in Threads : BeingStepped(u))

(* A thread that ran into the int3 of ours waits for the loop.             *)
ReturnAwaited ==
    at[Main] = "past_return" /\ saved # "none" =>
        raised[Main] = "breakpoint" \/ gone

CallbackPath == {"callback", "body", "return", "past_return"}

(* The int3 is planted from the callback's fault to its return.            *)
PatchPlanted ==
    "undercut" \notin blind =>
        /\ saved # "int3"
        /\ byte = "int3" =>
            /\ saved = "orig"
            /\ at[Main] \in CallbackPath
            /\ at[Main] \in {"callback", "body"} => ftm

SharedLoop == OthersOutside /\ TrapOutstanding /\ ReturnAwaited /\ PatchPlanted

SharedInv == PatchUndone /\ (guardPc = "loop" => SharedLoop)

SharedTyped == GuardTypeOK /\ SharedInv

LEMMA SharedInit == GuardInit => SharedInv
BY PortAssumption
DEF GuardInit, SharedInv, SharedLoop, OthersOutside, TrapOutstanding,
    ReturnAwaited, PatchPlanted, PatchUndone, Int3CanBeUndone, NoPatchInDump

(* While the loop goes on the patch can be undone.                         *)
LEMMA PatchInLoop ==
    ASSUME guardPc' = "loop", SharedLoop'
    PROVE  SharedInv'
BY DEF SharedInv, SharedLoop, PatchPlanted, PatchUndone, Int3CanBeUndone,
       NoPatchInDump

(* What every step from a running loop starts from.                        *)
LEMMA SharedStart ==
    ASSUME SharedTyped, guardPc = "loop"
    PROVE  /\ Main \in Threads
           /\ at \in [Threads -> Code] /\ tf \in [Threads -> BOOLEAN]
           /\ raised \in [Threads -> Kinds \cup {"none"}]
           /\ text \in {"noaccess", "open"} /\ byte \in {"orig", "int3"}
           /\ ftm \in BOOLEAN /\ stepping \in BOOLEAN
           /\ saved \in {"none", "orig", "int3"}
           /\ SharedLoop
BY PortAssumption DEF SharedTyped, SharedInv, GuardTypeOK, PortTypeOK

(* The debuggee, one thread of it.                                         *)
LEMMA SharedThread ==
    ASSUME SharedTyped, NEW t \in Threads, guardPc = "loop",
           UNCHANGED <<guard, loop>>,
           \/ Fault(t) \/ HitInt3(t) \/ Execute(t) \/ Report(t)
           \/ \E u \in Threads : Repair(t, u)
    PROVE  SharedLoop'
<1>1. /\ Main \in Threads
      /\ at \in [Threads -> Code] /\ tf \in [Threads -> BOOLEAN]
      /\ raised \in [Threads -> Kinds \cup {"none"}]
      /\ SharedLoop
  BY SharedStart
<1> USE DEF guard, loop, SharedLoop, OthersOutside, TrapOutstanding,
            ReturnAwaited, PatchPlanted, CallbackPath, InText, BeingStepped
<1>2. CASE Fault(t)
  BY <1>1, <1>2 DEF Fault, Raise, CanRun, plan
<1>3. CASE HitInt3(t)
  BY <1>1, <1>3 DEF HitInt3, Raise, CanRun, plan
<1>4. CASE Execute(t)
  <2>1. PICK next \in After(t) : at' = [at EXCEPT ![t] = next]
    BY <1>4 DEF Execute
  <2>2. /\ raised[t] = "none" /\ ~gone /\ gone' = gone
        /\ tf' = [tf EXCEPT ![t] = FALSE]
        /\ raised' = [raised EXCEPT ![t] =
                        IF tf[t] THEN "single_step" ELSE "none"]
        /\ ~(at[t] = "return" /\ byte = "int3")
        /\ "undercut" \notin blind' => "undercut" \notin blind
    BY <1>1, <1>4 DEF Execute, CanRun, Raise, portVars
  <2>3. /\ t # Main => next \in {"shell", "shell_write", "library"}
        /\ at[t] = "callback" => next = "body"
        /\ at[t] = "body" => next = "return"
        /\ next # "past_return"
    BY <1>1, <2>1 DEF After, TouchesText
  <2>4. OthersOutside'
    BY <1>1, <2>1, <2>2, <2>3
  <2>5. TrapOutstanding'
    BY <1>1, <2>1, <2>2
  <2>6. ReturnAwaited'
    BY <1>1, <2>1, <2>2, <2>3
  <2>7. PatchPlanted'
    BY <1>1, <2>1, <2>2, <2>3
  <2> QED
    BY <2>4, <2>5, <2>6, <2>7
<1>5. CASE Report(t)
  BY <1>1, <1>5 DEF Report, RaiseExit, Raise, CanRun, program, plan
<1>6. CASE \E u \in Threads : Repair(t, u)
  BY <1>1, <1>6 DEF Repair, portVars, plan
<1> QED
  BY <1>2, <1>3, <1>4, <1>5, <1>6

LEMMA SharedDebuggee ==
    ASSUME SharedTyped, GuardDebuggee PROVE SharedInv'
<1>1. PICK t \in Threads :
        \/ Fault(t) \/ HitInt3(t) \/ Execute(t) \/ Report(t)
        \/ \E u \in Threads : Repair(t, u)
  BY DEF GuardDebuggee
<1>2. guardPc = "loop" /\ UNCHANGED <<guard, loop>>
  BY DEF GuardDebuggee
<1> QED
  BY <1>1, <1>2, SharedThread, PatchInLoop DEF loop

(* Traps, breakpoints and what is merely answered.                         *)
LEMMA SharedAnswered ==
    ASSUME SharedTyped, NEW t \in Threads,
           \/ OnSingleStep(t) \/ OnReturnInt3(t) \/ OnForeignInt3(t)
           \/ OnOther(t) \/ OnEnd(t)
    PROVE  SharedInv'
<1>1. guardPc = "loop"
  BY DEF OnSingleStep, OnReturnInt3, OnForeignInt3, OnOther, OnEnd, Event
<1>2. /\ Main \in Threads
      /\ at \in [Threads -> Code] /\ tf \in [Threads -> BOOLEAN]
      /\ raised \in [Threads -> Kinds \cup {"none"}]
      /\ text \in {"noaccess", "open"} /\ byte \in {"orig", "int3"}
      /\ ftm \in BOOLEAN /\ stepping \in BOOLEAN
      /\ saved \in {"none", "orig", "int3"}
      /\ SharedLoop
  BY <1>1, SharedStart
<1> USE DEF SharedLoop, OthersOutside, TrapOutstanding, ReturnAwaited,
            PatchPlanted, CallbackPath, InText, BeingStepped
<1>3. CASE OnSingleStep(t)
  <2>1. /\ raised[t] = "single_step" /\ raised' = [raised EXCEPT ![t] = "none"]
        /\ UNCHANGED <<gone, at, tf, byte, saved, ftm, guardPc>>
        /\ text' = IF stepping THEN "noaccess" ELSE text
        /\ blind' = IF stepping /\ Undercuts
                    THEN blind \cup {"undercut"} ELSE blind
    BY <1>3 DEF OnSingleStep, Event, Serve, loop
  <2>2. SharedLoop'
    BY <1>2, <2>1
  <2> QED
    BY <1>1, <2>1, <2>2, PatchInLoop
<1>4. CASE OnReturnInt3(t)
  <2>1. /\ raised[t] = "breakpoint" /\ raised' = [raised EXCEPT ![t] = "none"]
        /\ at[t] = "past_return" /\ saved # "none"
        /\ at' = [at EXCEPT ![t] = "return"]
        /\ byte' = saved /\ saved' = "none" /\ text' = "noaccess" /\ ~ftm'
        /\ UNCHANGED <<tf, blind, guardPc>>
    BY <1>4 DEF OnReturnInt3, OurInt3, Event, Serve, loop
  <2>2. t = Main
    BY <1>2, <2>1
  <2>3. SharedLoop'
    BY <1>2, <2>1, <2>2
  <2> QED
    BY <1>1, <2>1, <2>3, PatchInLoop
<1>5. CASE OnForeignInt3(t) \/ OnOther(t)
  <2>1. /\ raised[t] \notin {"none", "single_step"}
        /\ raised' = [raised EXCEPT ![t] = "none"]
        /\ raised[t] = "breakpoint" => ~OurInt3(t)
        /\ UNCHANGED <<gone, program, guard, guardPc>>
    BY <1>5 DEF OnForeignInt3, OnOther, Event, Serve, loop
  <2>2. SharedLoop'
    BY <1>2, <2>1 DEF program, guard, OurInt3
  <2> QED
    BY <1>1, <2>1, <2>2, PatchInLoop
<1>6. CASE OnEnd(t)
  <2>1. guardPc' \in {"exit", "error"} /\ UNCHANGED <<program, guard>>
    BY <1>6 DEF OnEnd
  <2> QED
    BY <1>1, <2>1
    DEF program, guard, SharedTyped, SharedInv, PatchUndone, Int3CanBeUndone,
        NoPatchInDump
<1> QED
  BY <1>3, <1>4, <1>5, <1>6

(* The faults the guard answers itself, and the watchdog.                  *)
LEMMA SharedGuarded ==
    ASSUME SharedTyped, NEW t \in Threads,
           OnStorm(t) \/ RearmAfterTls(t) \/ StepPast(t) \/ EnterCallback(t)
    PROVE  SharedInv'
<1>1. guardPc = "loop" /\ raised[t] = "access_violation"
  BY DEF OnStorm, RearmAfterTls, StepPast, EnterCallback, Resumed, Counted
<1>2. /\ Main \in Threads
      /\ at \in [Threads -> Code] /\ tf \in [Threads -> BOOLEAN]
      /\ raised \in [Threads -> Kinds \cup {"none"}]
      /\ text \in {"noaccess", "open"} /\ byte \in {"orig", "int3"}
      /\ ftm \in BOOLEAN /\ stepping \in BOOLEAN
      /\ saved \in {"none", "orig", "int3"}
      /\ SharedLoop
  BY <1>1, SharedStart
<1>3. ASSUME Resumed(t)
      PROVE  raised' = [raised EXCEPT ![t] = "none"] /\ gone' = gone
  BY <1>3 DEF Resumed, Serve
<1> USE DEF SharedLoop, OthersOutside, TrapOutstanding, ReturnAwaited,
            PatchPlanted, CallbackPath, InText, BeingStepped
<1>4. CASE OnStorm(t)
  <2>1. guardPc' = "stuck" /\ UNCHANGED <<program, guard>>
    BY <1>4 DEF OnStorm
  <2> QED
    BY <1>1, <2>1
    DEF program, guard, SharedTyped, SharedInv, PatchUndone, Int3CanBeUndone,
        NoPatchInDump
<1>5. CASE RearmAfterTls(t)
  <2>1. /\ ftm /\ ~ftm' /\ text' = "noaccess"
        /\ blind' = IF Undercuts THEN blind \cup {"undercut"} ELSE blind
        /\ UNCHANGED <<at, tf, byte, saved, guardPc>>
    BY <1>5 DEF RearmAfterTls, keepLoop
  <2>2. SharedLoop'
    BY <1>1, <1>2, <1>3, <1>5, <2>1 DEF RearmAfterTls, Undercuts
  <2> QED
    BY <1>1, <2>1, <2>2, PatchInLoop
<1>6. CASE StepPast(t)
  <2>1. /\ ~ftm /\ at[t] \notin InText /\ stepping'
        /\ tf' = [tf EXCEPT ![t] = TRUE]
        /\ UNCHANGED <<at, blind, byte, saved, ftm, guardPc>>
    BY <1>6 DEF StepPast, keepLoop
  <2>2. SharedLoop'
    BY <1>1, <1>2, <1>3, <1>6, <2>1 DEF StepPast
  <2> QED
    BY <1>1, <2>1, <2>2, PatchInLoop
<1>7. CASE EnterCallback(t)
  <2>1. /\ ~ftm /\ ftm' /\ at[t] \in InText
        /\ X64 \/ at[t] = "callback"
        /\ IF X64 THEN UNCHANGED <<byte, saved>>
           ELSE byte' = "int3" /\ saved' = byte
        /\ UNCHANGED <<at, tf, blind, guardPc>>
    BY <1>7 DEF EnterCallback, TakenForCallback, program, keepLoop
  <2>2. t = Main
    BY <1>2, <2>1
  <2>3. SharedLoop'
    BY <1>1, <1>2, <1>3, <1>7, <2>1, <2>2 DEF EnterCallback
  <2> QED
    BY <1>1, <2>1, <2>3, PatchInLoop
<1> QED
  BY <1>4, <1>5, <1>6, <1>7

(* A fault that is no callback's.                                          *)
LEMMA SharedPossible ==
    ASSUME SharedTyped, NEW t \in Threads,
           \/ MsvcTraceComplete(t) \/ AcceptOep(t)
           \/ RetryVirtualized(t) \/ EnterMsvcTrace(t)
    PROVE  SharedInv'
<1>1. Possible(t)
  BY DEF MsvcTraceComplete, AcceptOep, RetryVirtualized, EnterMsvcTrace
<1>2. /\ guardPc = "loop" /\ raised[t] = "access_violation"
      /\ ~ftm /\ at[t] \in InText
  BY <1>1 DEF Possible, Counted
<1>3. /\ Main \in Threads
      /\ at \in [Threads -> Code] /\ tf \in [Threads -> BOOLEAN]
      /\ raised \in [Threads -> Kinds \cup {"none"}]
      /\ byte \in {"orig", "int3"}
      /\ SharedLoop
  BY <1>2, SharedStart
<1> USE DEF SharedLoop, OthersOutside, TrapOutstanding, ReturnAwaited,
            PatchPlanted, CallbackPath, InText
<1>4. t = Main /\ ("undercut" \notin blind => byte = "orig")
  BY <1>2, <1>3
<1>5. UNCHANGED <<blind, byte, saved, tf, ftm>>
  BY DEF MsvcTraceComplete, AcceptOep, RetryVirtualized, EnterMsvcTrace,
         program
<1>6. CASE guardPc' = "oep"
  BY <1>4, <1>5, <1>6
  DEF SharedInv, PatchUndone, Int3CanBeUndone, NoPatchInDump
<1>7. CASE guardPc' # "oep"
  <2>1. RetryVirtualized(t) \/ EnterMsvcTrace(t)
    BY <1>7 DEF MsvcTraceComplete, AcceptOep
  <2>2. /\ guardPc' = "loop" /\ text' = "noaccess"
        /\ raised' = [raised EXCEPT ![t] = "none"]
        /\ \/ UNCHANGED at
           \/ \E next \in {"shell", "return"} : at' = [at EXCEPT ![t] = next]
    BY <1>2, <1>7, <2>1 DEF RetryVirtualized, EnterMsvcTrace, SentTo, Serve
  <2>3. SharedLoop'
    BY <1>2, <1>3, <1>4, <1>5, <2>2
  <2> QED
    BY <2>2, <2>3, PatchInLoop
<1> QED
  BY <1>6, <1>7

LEMMA SharedStep == SharedTyped /\ [GuardNext]_guardVars => SharedInv'
<1> SUFFICES ASSUME SharedTyped, [GuardNext]_guardVars PROVE SharedInv'
  OBVIOUS
<1>1. CASE Debugger
  BY <1>1, SharedAnswered, SharedGuarded, SharedPossible
  DEF Debugger, LoopServes, AccessViolation
<1>2. CASE GuardDebuggee
  BY <1>2, SharedDebuggee
<1>3. CASE UNCHANGED guardVars
  BY <1>3
  DEF guardVars, program, guard, loop, portVars, SharedTyped, SharedInv,
      SharedLoop, OthersOutside, TrapOutstanding, ReturnAwaited, PatchPlanted,
      PatchUndone, Int3CanBeUndone, NoPatchInDump, BeingStepped
<1> QED
  BY <1>1, <1>2, <1>3 DEF GuardNext, GuardFinished

LEMMA SharedInvariant == GuardSpec => [](GuardTypeOK /\ SharedInv)
<1>1. GuardInit => SharedInv
  BY SharedInit
<1>2. GuardTypeOK /\ SharedInv /\ [GuardNext]_guardVars => SharedInv'
  BY SharedStep DEF SharedTyped
<1> QED
  BY <1>1, <1>2, GuardTypeCorrect, PTL DEF GuardSpec

(* The patch of a callback's return site is undone before the program is   *)
(* dumped (guard.rs:430-491), for any number of threads, with and without  *)
(* DEP, unless the guard went up under the callback itself: a fault of its *)
(* own or of another thread, or a trap that was still to come, came first. *)
THEOREM UndoesThePatch == GuardSpec => []PatchUndone
<1>1. SharedInv => PatchUndone
  BY DEF SharedInv
<1> QED
  BY <1>1, SharedInvariant, PTL
-----------------------------------------------------------------------------
(* What else tells the entry point from a callback.  On x86_64 nothing     *)
(* does, and the budget is only open when the callback array is readable   *)
(* on disk (init.rs:290-294).                                              *)
SignatureOrNoBudget == X64 => TlsTotal = 0

(* The mode after a callback's fault lasts until the callback is back.     *)
InCallback ==
    ftm => byte = "int3" /\ saved # "none" /\ at[Main] \in CallbackPath

(* Where the main thread can be in .text, and what that tells.             *)
PlacesExplained ==
    /\ at[Main] = "program" => escaped
    /\ at[Main] = "body" => ftm \/ blind # {}
    /\ at[Main] = "callback" /\ raised[Main] = "access_violation" =>
        fault[Main] = "text_exec" \/ ftm \/ blind # {}

(* A callback is called before it is counted.                              *)
CallbacksCounted ==
    blind = {} =>
        /\ tlsCounter <= begun
        /\ at[Main] = "callback" /\ ~ftm => tlsCounter < begun

EntryLoop ==
    /\ InCallback /\ PlacesExplained /\ CallbacksCounted
    /\ traceMsvc => oep = "guess"

EntryInv == EntryFound /\ (guardPc = "loop" => EntryLoop)

EntryTyped == GuardTypeOK /\ SharedInv /\ EntryInv

LEMMA EntryInit == GuardInit => EntryInv
BY PortAssumption
DEF GuardInit, EntryInv, EntryLoop, InCallback, PlacesExplained,
    CallbacksCounted, EntryFound, EntryIntercepted, AcceptedAtEntry

LEMMA EntryStart ==
    ASSUME EntryTyped, guardPc = "loop"
    PROVE  /\ Main \in Threads
           /\ at \in [Threads -> Code] /\ tf \in [Threads -> BOOLEAN]
           /\ raised \in [Threads -> Kinds \cup {"none"}]
           /\ fault \in [Threads -> Faults]
           /\ text \in {"noaccess", "open"}
           /\ ftm \in BOOLEAN
           /\ {tlsCounter, begun, TlsTotal} \subseteq Nat
           /\ SharedLoop /\ EntryLoop
           /\ escaped => "race" \in blind
BY PortAssumption, GuardAssumption
DEF EntryTyped, SharedInv, EntryInv, EntryFound, EntryIntercepted,
    GuardTypeOK, PortTypeOK

(* A step after which the loop goes on.                                    *)
LEMMA EntryGoesOn ==
    ASSUME guardPc' = "loop", EntryLoop', escaped' => "race" \in blind'
    PROVE  EntryInv'
BY DEF EntryInv, EntryFound, EntryIntercepted, AcceptedAtEntry

(* With .text open and no callback running, the main thread gets to an     *)
(* instruction of .text only past another thread's step.                   *)
LEMMA OpenForAnother ==
    ASSUME EntryTyped, guardPc = "loop", CanRun(Main), ~ftm, text = "open",
           at[Main] \in {"callback", "entry"}
    PROVE  Races(Main)
BY EntryStart
DEF Races, CanRun, SharedLoop, TrapOutstanding, OthersOutside, BeingStepped, InText

LEMMA EntryThread ==
    ASSUME EntryTyped, NEW t \in Threads, guardPc = "loop",
           UNCHANGED <<guard, loop>>,
           \/ Fault(t) \/ HitInt3(t) \/ Execute(t) \/ Report(t)
           \/ \E u \in Threads : Repair(t, u)
    PROVE  EntryLoop' /\ (escaped' => "race" \in blind')
<1>1. /\ Main \in Threads
      /\ at \in [Threads -> Code] /\ tf \in [Threads -> BOOLEAN]
      /\ raised \in [Threads -> Kinds \cup {"none"}]
      /\ fault \in [Threads -> Faults]
      /\ text \in {"noaccess", "open"} /\ ftm \in BOOLEAN
      /\ {tlsCounter, begun} \subseteq Nat
      /\ SharedLoop /\ EntryLoop
      /\ escaped => "race" \in blind
  BY EntryStart
<1>2. ASSUME t # Main PROVE at[t] \in {"shell", "shell_write", "library"}
  BY <1>1, <1>2 DEF SharedLoop, OthersOutside
<1> USE DEF guard, loop, EntryLoop, InCallback, PlacesExplained,
            CallbacksCounted, CallbackPath
<1>3. CASE Fault(t)
  <2>1. /\ CanRun(t) /\ raised' = [raised EXCEPT ![t] = "access_violation"]
        /\ fault' = [fault EXCEPT ![t] = FaultOf(t)]
        /\ blind \subseteq blind' /\ UNCHANGED <<at, begun, escaped>>
        /\ FaultOf(t) = "own" /\ Races(t) => "race" \in blind'
    BY <1>3 DEF Fault, Raise, plan
  <2>2. ASSUME t = Main, at[Main] = "callback", ~ftm
        PROVE  FaultOf(t) = "text_exec" \/ "race" \in blind'
    <3>1. CASE text = "open"
      BY <1>1, <1>3, <2>1, <2>2, <3>1, OpenForAnother
      DEF Fault, FaultOf, InThemida, TouchesText
    <3>2. CASE text = "noaccess"
      BY <2>2, <3>2 DEF FaultOf, InThemida, InText
    <3> QED
      BY <1>1, <3>1, <3>2
  <2> QED
    BY <1>1, <2>1, <2>2
<1>4. CASE HitInt3(t)
  BY <1>1, <1>2, <1>4 DEF HitInt3, Raise, plan
<1>5. CASE Execute(t)
  <2>1. PICK next \in After(t) :
          /\ at' = [at EXCEPT ![t] = next]
          /\ begun' = IF next = "callback" THEN begun + 1 ELSE begun
    BY <1>5 DEF Execute
  <2>2. /\ CanRun(t) /\ FaultOf(t) = "none"
        /\ ~(at[t] = "return" /\ byte = "int3")
        /\ raised' = [raised EXCEPT ![t] =
                        IF tf[t] THEN "single_step" ELSE "none"]
        /\ fault' = [fault EXCEPT ![t] = "none"]
        /\ escaped' = (escaped \/ at[t] = "entry")
        /\ blind \subseteq blind' /\ (Races(t) => "race" \in blind')
        /\ blind' # {} => blind # {} \/ Races(t)
    BY <1>1, <1>5 DEF Execute, CanRun, Raise, portVars
  <2>3. CASE t # Main
    <3>1. at[t] # "entry" /\ next # "callback"
      BY <1>1, <1>2, <2>1, <2>3 DEF After, TouchesText
    <3> QED
      BY <1>1, <2>1, <2>2, <2>3, <3>1
  <2>4. CASE t = Main
    <3>1. /\ at[Main] = "callback" => next = "body"
          /\ at[Main] = "body" => next = "return"
          /\ at[Main] \in {"entry", "program"} => next = "program"
          /\ next = "program" => at[Main] \in {"entry", "program"}
          /\ next = "body" => at[Main] = "callback"
          /\ next # "past_return"
      BY <1>1, <2>1, <2>4 DEF After, TouchesText
    <3>2. at[Main] \in InText => text = "open"
      BY <1>1, <2>2, <2>4 DEF FaultOf, InThemida, InText
    <3>3. at[Main] \in {"callback", "entry"} /\ ~ftm => "race" \in blind'
      BY <1>1, <2>2, <2>4, <3>2, OpenForAnother DEF InText
    <3>4. ftm => at[Main] \in {"callback", "body"}
      BY <1>1, <2>2, <2>4
      DEF CanRun, SharedLoop, ReturnAwaited
    <3>5. InCallback'
      BY <1>1, <2>1, <2>4, <3>1, <3>4
    <3>6. PlacesExplained' /\ (escaped' => "race" \in blind')
      BY <1>1, <2>1, <2>2, <2>4, <3>1, <3>3, <3>4
    <3>7. CallbacksCounted'
      BY <1>1, <2>1, <2>2, <2>4, <3>1, <3>3
    <3> QED
      BY <1>1, <3>5, <3>6, <3>7
  <2> QED
    BY <2>3, <2>4
<1>6. CASE Report(t)
  <2>1. /\ UNCHANGED <<at, fault, begun, escaped, blind>>
        /\ raised'[Main] = "access_violation" =>
            raised[Main] = "access_violation"
    BY <1>1, <1>6 DEF Report, RaiseExit, Raise, program, plan
  <2> QED
    BY <1>1, <2>1
<1>7. CASE \E u \in Threads : Repair(t, u)
  BY <1>1, <1>7 DEF Repair, portVars, plan
<1> QED
  BY <1>3, <1>4, <1>5, <1>6, <1>7

LEMMA EntryDebuggee ==
    ASSUME EntryTyped, GuardDebuggee PROVE EntryInv'
<1>1. PICK t \in Threads :
        \/ Fault(t) \/ HitInt3(t) \/ Execute(t) \/ Report(t)
        \/ \E u \in Threads : Repair(t, u)
  BY DEF GuardDebuggee
<1>2. guardPc = "loop" /\ UNCHANGED <<guard, loop>>
  BY DEF GuardDebuggee
<1> QED
  BY <1>1, <1>2, EntryThread, EntryGoesOn DEF loop

(* Traps, breakpoints and what is merely answered.                         *)
LEMMA EntryAnswered ==
    ASSUME EntryTyped, NEW t \in Threads,
           \/ OnSingleStep(t) \/ OnReturnInt3(t) \/ OnForeignInt3(t)
           \/ OnOther(t) \/ OnEnd(t)
    PROVE  EntryInv'
<1>1. guardPc = "loop"
  BY DEF OnSingleStep, OnReturnInt3, OnForeignInt3, OnOther, OnEnd, Event
<1>2. /\ Main \in Threads
      /\ at \in [Threads -> Code]
      /\ raised \in [Threads -> Kinds \cup {"none"}]
      /\ ftm \in BOOLEAN
      /\ SharedLoop /\ EntryLoop
      /\ escaped => "race" \in blind
  BY <1>1, EntryStart
<1> USE DEF EntryLoop, InCallback, PlacesExplained, CallbacksCounted,
            CallbackPath
<1>3. CASE OnSingleStep(t)
  <2>1. /\ raised' = [raised EXCEPT ![t] = "none"]
        /\ UNCHANGED <<at, fault, byte, saved, ftm, guardPc, oep, escaped,
                       begun, tlsCounter, traceMsvc>>
        /\ blind \subseteq blind'
    BY <1>3 DEF OnSingleStep, Event, Serve, loop, plan
  <2>2. EntryLoop' /\ (escaped' => "race" \in blind')
    BY <1>2, <2>1
  <2> QED
    BY <1>1, <2>1, <2>2, EntryGoesOn
<1>4. CASE OnReturnInt3(t)
  <2>1. /\ raised' = [raised EXCEPT ![t] = "none"]
        /\ at[t] = "past_return" /\ at' = [at EXCEPT ![t] = "return"] /\ ~ftm'
        /\ UNCHANGED <<fault, blind, guardPc, oep, escaped, begun, tlsCounter,
                       traceMsvc>>
    BY <1>4 DEF OnReturnInt3, OurInt3, Event, Serve, loop, plan
  <2>2. t = Main
    BY <1>2, <2>1 DEF SharedLoop, OthersOutside
  <2>3. EntryLoop' /\ (escaped' => "race" \in blind')
    BY <1>2, <2>1, <2>2
  <2> QED
    BY <1>1, <2>1, <2>3, EntryGoesOn
<1>5. CASE OnForeignInt3(t) \/ OnOther(t)
  <2>1. /\ raised' = [raised EXCEPT ![t] = "none"]
        /\ UNCHANGED <<program, guard, loop>>
    BY <1>5 DEF OnForeignInt3, OnOther, Event, Serve
  <2>2. EntryLoop' /\ (escaped' => "race" \in blind')
    BY <1>2, <2>1 DEF program, plan, guard, loop
  <2> QED
    BY <1>1, <2>1, <2>2, EntryGoesOn DEF loop
<1>6. CASE OnEnd(t)
  <2>1. guardPc' \in {"exit", "error"} /\ UNCHANGED program
    BY <1>6 DEF OnEnd
  <2> QED
    BY <1>2, <2>1
    DEF program, plan, EntryInv, EntryFound, EntryIntercepted, AcceptedAtEntry
<1> QED
  BY <1>3, <1>4, <1>5, <1>6

(* The faults the guard answers itself, and the watchdog.                  *)
LEMMA EntryGuarded ==
    ASSUME SignatureOrNoBudget, EntryTyped, NEW t \in Threads,
           OnStorm(t) \/ RearmAfterTls(t) \/ StepPast(t) \/ EnterCallback(t)
    PROVE  EntryInv'
<1>1. guardPc = "loop" /\ raised[t] = "access_violation"
  BY DEF OnStorm, RearmAfterTls, StepPast, EnterCallback, Resumed, Counted
<1>2. /\ Main \in Threads
      /\ at \in [Threads -> Code]
      /\ raised \in [Threads -> Kinds \cup {"none"}]
      /\ ftm \in BOOLEAN
      /\ {tlsCounter, begun, TlsTotal} \subseteq Nat
      /\ SharedLoop /\ EntryLoop
      /\ escaped => "race" \in blind
  BY <1>1, EntryStart
<1>3. ASSUME Resumed(t) PROVE raised' = [raised EXCEPT ![t] = "none"]
  BY <1>3 DEF Resumed, Serve
<1> USE DEF EntryLoop, InCallback, PlacesExplained, CallbacksCounted,
            CallbackPath
<1>4. CASE OnStorm(t)
  <2>1. guardPc' = "stuck" /\ UNCHANGED program
    BY <1>4 DEF OnStorm
  <2> QED
    BY <1>2, <2>1
    DEF program, plan, EntryInv, EntryFound, EntryIntercepted, AcceptedAtEntry
<1>5. CASE RearmAfterTls(t)
  <2>1. /\ ftm /\ ~ftm' /\ guardPc' = "loop"
        /\ blind' = IF Undercuts THEN blind \cup {"undercut"} ELSE blind
        /\ UNCHANGED <<at, fault, begun, escaped, oep, tlsCounter, traceMsvc>>
    BY <1>1, <1>5 DEF RearmAfterTls, keepLoop, plan
  <2>2. EntryLoop' /\ (escaped' => "race" \in blind')
    BY <1>2, <1>3, <1>5, <2>1 DEF RearmAfterTls, Undercuts
  <2> QED
    BY <2>1, <2>2, EntryGoesOn
<1>6. CASE StepPast(t)
  <2>1. /\ guardPc' = "loop"
        /\ UNCHANGED <<at, fault, begun, escaped, blind, oep, byte, saved, ftm,
                       tlsCounter, traceMsvc>>
    BY <1>1, <1>6 DEF StepPast, keepLoop, plan
  <2>2. EntryLoop' /\ (escaped' => "race" \in blind')
    BY <1>2, <1>3, <1>6, <2>1 DEF StepPast
  <2> QED
    BY <2>1, <2>2, EntryGoesOn
<1>7. CASE EnterCallback(t)
  <2>1. /\ guardPc' = "loop" /\ ~ftm /\ ftm' /\ at[t] \in InText
        /\ X64 \/ at[t] = "callback"
        /\ tlsCounter < TlsTotal /\ tlsCounter' = tlsCounter + 1
        /\ ~X64 => byte' = "int3" /\ saved' = byte
        /\ UNCHANGED <<at, fault, begun, escaped, blind, oep, traceMsvc>>
    BY <1>1, <1>7
    DEF EnterCallback, TakenForCallback, BudgetOpen, program, keepLoop, plan
  <2>2. ~X64 /\ at[t] = "callback"
    BY <1>2, <2>1 DEF SignatureOrNoBudget
  <2>3. t = Main
    BY <1>2, <2>2 DEF SharedLoop, OthersOutside
  <2>4. byte \in {"orig", "int3"}
    BY DEF EntryTyped, GuardTypeOK
  <2>5. EntryLoop' /\ (escaped' => "race" \in blind')
    BY <1>2, <1>3, <1>7, <2>1, <2>2, <2>3, <2>4 DEF EnterCallback
  <2> QED
    BY <2>1, <2>5, EntryGoesOn
<1> QED
  BY <1>4, <1>5, <1>6, <1>7

(* A fault that is no callback's is the entry point's, unless .text was    *)
(* open or closed at the wrong time or the callbacks exceed the guess.     *)
LEMMA EntryPossible ==
    ASSUME SignatureOrNoBudget, EntryTyped, NEW t \in Threads,
           \/ MsvcTraceComplete(t) \/ AcceptOep(t)
           \/ RetryVirtualized(t) \/ EnterMsvcTrace(t)
    PROVE  EntryInv'
<1>1. Possible(t)
  BY DEF MsvcTraceComplete, AcceptOep, RetryVirtualized, EnterMsvcTrace
<1>2. /\ guardPc = "loop" /\ raised[t] = "access_violation"
      /\ ~ftm /\ at[t] \in InText /\ ~TakenForCallback(t)
  BY <1>1 DEF Possible, Counted
<1>3. /\ Main \in Threads
      /\ at \in [Threads -> Code]
      /\ raised \in [Threads -> Kinds \cup {"none"}]
      /\ {tlsCounter, begun, TlsTotal} \subseteq Nat
      /\ SharedLoop /\ EntryLoop
      /\ escaped => "race" \in blind
  BY <1>2, EntryStart
<1> USE DEF EntryLoop, InCallback, PlacesExplained, CallbacksCounted,
            CallbackPath
<1>4. t = Main
  BY <1>2, <1>3 DEF SharedLoop, OthersOutside, InText
<1>5. UNCHANGED <<fault, blind, escaped, begun, ftm>>
  BY DEF MsvcTraceComplete, AcceptOep, RetryVirtualized, EnterMsvcTrace,
         program, plan
<1>6. ASSUME blind = {}
      PROVE  /\ at[Main] \in {"callback", "entry"}
             /\ at[Main] = "callback" => ~BudgetOpen /\ begun > TlsTotal
             /\ ~SkipsCallback(t)
  <2>1. at[Main] \in {"callback", "entry"}
    BY <1>2, <1>3, <1>4, <1>6 DEF InText
  <2>2. at[Main] = "callback" => ~BudgetOpen /\ begun > TlsTotal
    BY <1>2, <1>3, <1>4, <1>6 DEF TakenForCallback, BudgetOpen
  <2>3. ~SkipsCallback(t)
    BY <1>3, <1>4, <2>2 DEF SkipsCallback, BudgetOpen, SignatureOrNoBudget
  <2> QED
    BY <2>1, <2>2, <2>3
<1>7. CASE MsvcTraceComplete(t)
  <2>1. guardPc' = "oep" /\ oep' = "guess"
    BY <1>2, <1>3, <1>7 DEF MsvcTraceComplete
  <2> QED
    BY <1>3, <1>5, <2>1
    DEF EntryInv, EntryFound, EntryIntercepted, AcceptedAtEntry
<1>8. CASE guardPc' = "oep" /\ oep' \in Rescanned(at[t])
  BY <1>3, <1>4, <1>5, <1>6, <1>8
  DEF Rescanned, EntryInv, EntryFound, EntryIntercepted, AcceptedAtEntry
<1>9. CASE AcceptOep(t)
  BY <1>8, <1>9 DEF AcceptOep, Rescanned
<1>10. ASSUME guardPc' = "loop", tlsCounter' = Recounted(t),
              traceMsvc' => oep' = "guess",
              \/ UNCHANGED at
              \/ \E next \in {"shell", "return"} : at' = [at EXCEPT ![t] = next],
              raised' = [raised EXCEPT ![t] = "none"]
       PROVE  EntryInv'
  <2>1. blind = {} => tlsCounter' = tlsCounter
    BY <1>6, <1>10 DEF Recounted
  <2>2. EntryLoop' /\ (escaped' => "race" \in blind')
    BY <1>2, <1>3, <1>4, <1>5, <1>10, <2>1
  <2> QED
    BY <1>10, <2>2, EntryGoesOn
<1>11. CASE RetryVirtualized(t)
  <2>1. CASE guardPc' = "oep"
    BY <1>2, <1>8, <1>11, <2>1 DEF RetryVirtualized
  <2>2. CASE guardPc' # "oep"
    BY <1>2, <1>10, <1>11, <2>2 DEF RetryVirtualized, SentTo, Serve
  <2> QED
    BY <2>1, <2>2
<1>12. CASE EnterMsvcTrace(t)
  BY <1>2, <1>10, <1>12 DEF EnterMsvcTrace, SentTo, Serve
<1> QED
  BY <1>7, <1>9, <1>11, <1>12

LEMMA EntryStep ==
    ASSUME SignatureOrNoBudget, EntryTyped, [GuardNext]_guardVars
    PROVE  EntryInv'
<1>1. CASE Debugger
  BY <1>1, EntryAnswered, EntryGuarded, EntryPossible
  DEF Debugger, LoopServes, AccessViolation
<1>2. CASE GuardDebuggee
  BY <1>2, EntryDebuggee
<1>3. CASE UNCHANGED guardVars
  BY <1>3
  DEF guardVars, program, plan, guard, loop, portVars, EntryTyped, EntryInv,
      EntryLoop, InCallback, PlacesExplained, CallbacksCounted, EntryFound,
      EntryIntercepted, AcceptedAtEntry
<1> QED
  BY <1>1, <1>2, <1>3 DEF GuardNext, GuardFinished

(* The entry point is found (guard.rs branch order, av_handler.rs:709),    *)
(* for any number of threads and callbacks, any limits, and with or        *)
(* without DEP, up to what blind records.                                  *)
THEOREM FindsTheEntry == ASSUME SignatureOrNoBudget PROVE GuardSpec => []EntryFound
<1>1. GuardInit => EntryInv
  BY EntryInit
<1>2. GuardTypeOK /\ SharedInv /\ EntryInv /\ [GuardNext]_guardVars => EntryInv'
  BY EntryStep DEF EntryTyped
<1>3. EntryInv => EntryFound
  BY DEF EntryInv
<1> QED
  BY <1>1, <1>2, <1>3, SharedInvariant, PTL DEF GuardSpec
=============================================================================
