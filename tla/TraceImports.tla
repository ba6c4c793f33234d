---------------------------- MODULE TraceImports ----------------------------
(***************************************************************************)
(* The v3 import trace engine: trace_imports walks the slots of the import *)
(* table and, for a slot that holds a Themida stub, trace_one_slot single- *)
(* steps the main thread from the stub until it reaches an API             *)
(* (crates/packers/themida/src/trace_imports/).                            *)
(*                                                                         *)
(* Every trace starts by *answering* an event it did not dequeue itself:   *)
(* the one the debug loop left pending, or the one the previous slot       *)
(* stopped at.                                                             *)
(***************************************************************************)
EXTENDS DebugPort, Naturals, FiniteSets

CONSTANTS
    NSlots,           \* iat.size / PTR_SIZE
    TrashThreshold,   \* TRASH_THRESHOLD, 64 in the code
    TraceLimit,       \* TRACE_LIMIT, 500 000 in the code
    VmAfter,          \* the VM signature counts past this step (100) ...
    VmUntil,          \* ... and before this one (5000)
    ApiTag            \* the "no API" value of traced_api

ASSUME TraceAssumption ==
    /\ NSlots \in Nat /\ TrashThreshold \in Nat
    /\ TraceLimit \in Nat /\ VmAfter \in Nat /\ VmUntil \in Nat
    /\ ApiTag \notin 1 .. NSlots

Slots == 1 .. NSlots

(* IatSlotDecision; Trace and TraceRva differ only in the start address.   *)
SlotClasses == {"separator", "resolved", "trace", "trash", "not_an_import"}

(* What the local copy of the table holds for a slot after the walk.       *)
SlotResults == {"untouched", "adopted", "api", "exit_process", "failed"}

VARIABLES
    pc,            \* "scan" | "wait" | "event" | "write" | "done"
    slot,          \* i of the slot loop
    class,         \* what classify_iat_slot_in says of each slot
    result,        \* iat_data and failed_slots
    source,        \* the slot in whose trace the API of a slot was reached
    tracedApi,     \* ThemidaState.traced_api: that slot, or ApiTag for 0
    traceInVm,     \* ThemidaState.trace_in_vm
    didSetExit,    \* did_set_exit_process
    trash,         \* trash_counter
    counter,       \* trace_one_slot's counter
    stop,          \* why the walk ended
    written,       \* the table was written back to the target
    held,          \* an event of the main thread was pending on entry
    lost           \* a wait failed (RIP_EVENT), so an event was consumed

engineVars == <<pc, slot, class, result, source, tracedApi, traceInVm,
                didSetExit, trash, counter, stop, written, held, lost>>
vars == <<portVars, engineVars>>

TypeOK ==
    /\ PortTypeOK
    /\ pc \in {"scan", "wait", "event", "write", "done"}
    /\ slot \in 1 .. NSlots + 1
    /\ class \in [Slots -> SlotClasses]
    /\ result \in [Slots -> SlotResults]
    /\ source \in [Slots -> Slots \cup {ApiTag}]
    /\ tracedApi \in Slots \cup {ApiTag}
    /\ traceInVm \in BOOLEAN /\ didSetExit \in BOOLEAN
    /\ held \in BOOLEAN /\ lost \in BOOLEAN
    /\ trash \in Nat /\ counter \in Nat
    /\ written \in {"no", "yes", "refused"}
    /\ stop \in {"none", "end", "trash", "session_ended", "discarded"}

(* The debug loop hands over with the event it left at pending: the guard  *)
(* fault of the main thread or its synthesised single step, the event of   *)
(* whichever thread the IAT window took last, the exit event, or nothing,  *)
(* whatever else was raised in the meantime.                               *)
Inherited ==
    \/ /\ gone = FALSE
       /\ raised \in RaisedAlive
       /\ pending \in Threads => raised[pending] \notin {"none", "rip"}
    \/ /\ gone = TRUE
       /\ \E t \in Threads :
            /\ raised = [u \in Threads |->
                            IF u = t THEN "exit_process" ELSE "none"]
            /\ pending \in {t, NoThread}

Init ==
    /\ raised \in [Threads -> Kinds \cup {"none"}]
    /\ pending \in Threads \cup {NoThread}
    /\ gone \in BOOLEAN
    /\ Inherited
    /\ held = (pending = Main /\ ~gone)
    /\ pc = "scan" /\ slot = 1 /\ stop = "none" /\ lost = FALSE
    /\ written = "no"
    /\ class \in [Slots -> SlotClasses]
    /\ result = [i \in Slots |-> "untouched"]
    /\ source = [i \in Slots |-> ApiTag]
    /\ tracedApi = ApiTag /\ traceInVm = FALSE /\ didSetExit = FALSE
    /\ trash = 0 /\ counter = 0

Scanning(c) == pc = "scan" /\ slot \in Slots /\ class[slot] = c

NextSlot == slot' = slot + 1 /\ pc' = "scan"

(* `break` out of the slot loop.                                           *)
Stop(why) == pc' = "write" /\ stop' = why /\ UNCHANGED slot

Record(r) == result' = [result EXCEPT ![slot] = r]

traceState == <<tracedApi, traceInVm, didSetExit, counter, source, written,
                held, lost>>

(***************************************************************************)
(* trace_imports: one slot of the table.                                   *)
(***************************************************************************)
SkipSlot ==
    /\ Scanning("separator") \/ Scanning("not_an_import")
    /\ trash' = 0
    /\ NextSlot
    /\ UNCHANGED <<portVars, class, result, stop, traceState>>

AdoptResolvedKeepingTrash ==
    /\ Scanning("resolved")
    /\ Record("adopted")
    /\ NextSlot
    /\ UNCHANGED <<portVars, class, trash, stop, traceState>>

AdoptResolved ==
    /\ Scanning("resolved")
    /\ trash' = 0
    /\ Record("adopted")
    /\ NextSlot
    /\ UNCHANGED <<portVars, class, stop, traceState>>

CountTrash ==
    /\ Scanning("trash")
    /\ trash' = trash + 1
    /\ \/ trash + 1 <= TrashThreshold /\ NextSlot /\ UNCHANGED stop
       \/ trash + 1 > TrashThreshold /\ Stop("trash")
    /\ UNCHANGED <<portVars, class, result, traceState>>

(* "Debug session ended": the context of a thread of a dead process cannot *)
(* be read.                                                                *)
SessionEnded ==
    /\ Scanning("trace")
    /\ gone
    /\ trash' = 0
    /\ Stop("session_ended")
    /\ UNCHANGED <<portVars, class, result, traceState>>

StartTraceStale ==
    /\ Scanning("trace")
    /\ ~gone
    /\ trash' = 0
    /\ traceInVm' = FALSE
    /\ \/ /\ ContinueEvent(Main)
          /\ pc' = "wait" /\ counter' = 0
          /\ UNCHANGED <<slot, result>>
       \/ /\ ContinueRefused(Main)
          /\ Record("failed")
          /\ NextSlot
          /\ UNCHANGED counter
    /\ UNCHANGED <<class, stop, tracedApi, source, didSetExit, written, held,
                   lost>>

(* Point the main thread at the stub, set TF, answer the inherited event.  *)
StartTrace ==
    /\ Scanning("trace")
    /\ ~gone
    /\ trash' = 0
    /\ tracedApi' = ApiTag
    /\ traceInVm' = FALSE
    /\ \/ /\ ContinueEvent(Main)
          /\ pc' = "wait" /\ counter' = 0
          /\ UNCHANGED <<slot, result>>
       \/ /\ ContinueRefused(Main)
          /\ Record("failed")
          /\ NextSlot
          /\ UNCHANGED counter
    /\ UNCHANGED <<class, stop, source, didSetExit, written, held, lost>>

EndOfTable ==
    /\ pc = "scan"
    /\ slot = NSlots + 1
    /\ Stop("end")
    /\ UNCHANGED <<portVars, class, result, trash, traceState>>

(* resolved_count > 0: the whole table goes back in one write_memory, an   *)
(* error of which is the error of the whole phase.                         *)
WriteBack ==
    /\ pc = "write"
    /\ pc' = "done"
    /\ \/ /\ \A i \in Slots : result[i] \in {"untouched", "failed"}
          /\ UNCHANGED written
       \/ /\ \E i \in Slots : result[i] \notin {"untouched", "failed"}
          /\ written' = IF gone THEN "refused" ELSE "yes"
    /\ UNCHANGED <<portVars, slot, class, result, trash, stop, tracedApi,
                   traceInVm, didSetExit, counter, source, held, lost>>

(***************************************************************************)
(* trace_one_slot: the single-step loop.                                   *)
(***************************************************************************)
WaitEvent ==
    /\ pc = "wait"
    /\ \E t \in Threads : WaitReturns(t)
    /\ pc' = "event"
    /\ UNCHANGED <<slot, class, result, trash, stop, traceState>>

FailSlot ==
    /\ Record("failed")
    /\ NextSlot
    /\ UNCHANGED <<class, trash, stop, tracedApi, traceInVm, didSetExit,
                   counter, source, written, held>>

WaitError ==
    /\ pc = "wait"
    /\ \E t \in Threads : WaitFails(t)
    /\ lost' = TRUE
    /\ FailSlot

(* The exit event, and a breakpoint or fault of the traced thread, end the *)
(* trace with an error; the event stays pending.                           *)
FatalEvent ==
    /\ pc = "event"
    /\ \/ raised[pending] = "exit_process"
       \/ pending = Main /\ raised[Main] \in {"breakpoint", "access_violation"}
    /\ FailSlot
    /\ UNCHANGED <<portVars, lost>>

PassEventUnanswered ==
    /\ pc = "event"
    /\ raised[pending] # "exit_process"
    /\ pending # Main \/ raised[Main] \in {"exception", "notification"}
    /\ pc' = "wait"
    /\ UNCHANGED <<portVars, slot, class, result, trash, stop, traceState>>

(* Everything of another thread, and the traced thread's notifications and *)
(* first-chance exceptions, is answered and does not count as a step.      *)
PassEvent ==
    /\ pc = "event"
    /\ raised[pending] # "exit_process"
    /\ pending # Main \/ raised[Main] \in {"exception", "notification"}
    /\ ContinueEvent(pending)
    /\ pc' = "wait"
    /\ UNCHANGED <<slot, class, result, trash, stop, traceState>>

Stepped == pc = "event" /\ pending = Main /\ raised[Main] = "single_step"

StepOnUncounted ==
    /\ Stepped
    /\ counter + 1 <= TraceLimit
    /\ ContinueEvent(Main)
    /\ pc' = "wait"
    /\ UNCHANGED <<slot, class, result, trash, stop, traceState>>

(* Continue, and SkipAntiTraceApi: TF is set again and the step answered.  *)
StepOn ==
    /\ Stepped
    /\ counter + 1 <= TraceLimit
    /\ counter' = counter + 1
    /\ ContinueEvent(Main)
    /\ pc' = "wait"
    /\ UNCHANGED <<slot, class, result, trash, stop, tracedApi, traceInVm,
                   didSetExit, source, written, held, lost>>

(* Ok(()) with no result: the slot is a failure.                           *)
GiveUp ==
    /\ Stepped
    /\ counter + 1 > TraceLimit
    /\ counter' = counter + 1
    /\ IF tracedApi = ApiTag
       THEN Record("failed") /\ UNCHANGED source
       ELSE Record("api") /\ source' = [source EXCEPT ![slot] = tracedApi]
    /\ NextSlot
    /\ UNCHANGED <<portVars, class, trash, stop, tracedApi, traceInVm,
                   didSetExit, written, held, lost>>

(* FoundApi: the thread left the Themida section and the image at the      *)
(* stack depth it started from.  An address below 0x10000 is no API and    *)
(* ends the walk.                                                          *)
FoundApi ==
    /\ Stepped
    /\ counter + 1 <= TraceLimit
    /\ counter' = counter + 1
    /\ tracedApi' = slot
    /\ \/ /\ Record("api")
          /\ source' = [source EXCEPT ![slot] = slot]
          /\ NextSlot
          /\ UNCHANGED stop
       \/ Stop("discarded") /\ UNCHANGED <<result, source>>
    /\ UNCHANGED <<portVars, class, trash, traceInVm, didSetExit, written,
                   held, lost>>

HitVmForgotten ==
    /\ Stepped
    /\ counter + 1 <= TraceLimit
    /\ counter + 1 \in VmAfter + 1 .. VmUntil - 1
    /\ counter' = counter + 1
    /\ traceInVm' = TRUE
    /\ Record(IF didSetExit THEN "failed" ELSE "exit_process")
    /\ NextSlot
    /\ UNCHANGED <<portVars, class, trash, stop, tracedApi, didSetExit, source,
                   written, held, lost>>

(* HitVm: the first slot that enters the VM is taken for ExitProcess.      *)
HitVm ==
    /\ Stepped
    /\ counter + 1 <= TraceLimit
    /\ counter + 1 \in VmAfter + 1 .. VmUntil - 1
    /\ counter' = counter + 1
    /\ traceInVm' = TRUE
    /\ didSetExit' = TRUE
    /\ Record(IF didSetExit THEN "failed" ELSE "exit_process")
    /\ NextSlot
    /\ UNCHANGED <<portVars, class, trash, stop, tracedApi, source, written,
                   held, lost>>

Engine ==
    \/ SkipSlot \/ AdoptResolved \/ CountTrash \/ SessionEnded \/ StartTrace
    \/ EndOfTable \/ WaitEvent \/ WaitError \/ FatalEvent \/ PassEvent
    \/ StepOn \/ GiveUp \/ FoundApi \/ HitVm \/ WriteBack

(* The debuggee runs whenever it is not frozen.                            *)
Debuggee ==
    /\ pc # "done"
    /\ \E t \in Threads : RaiseExit(t) \/ \E k \in Kinds : Raise(t, k)
    /\ UNCHANGED engineVars

Finished == pc = "done" /\ UNCHANGED vars

Next == Engine \/ Debuggee \/ Finished

Spec == Init /\ [][Next]_vars

(* The engine runs; the trapped main thread is scheduled, and its steps or *)
(* the failures of the wait are delivered, whatever other threads raise in *)
(* between.                                                                *)
MainSteps == pc # "done" /\ Raise(Main, "single_step") /\ UNCHANGED engineVars

HearsOfMain == (WaitEvent /\ pending' = Main) \/ WaitError

FairSpec ==
    /\ Spec
    /\ WF_vars(Engine)
    /\ SF_vars(MainSteps)
    /\ SF_vars(HearsOfMain)

-----------------------------------------------------------------------------
(* An address is written into a slot only if the trace of that very slot   *)
(* reached it: a trace that gives up never adopts the API an earlier slot  *)
(* left in traced_api (mod.rs:325, state.traced_api = 0).                  *)
NoStaleApi == \A i \in Slots : result[i] = "api" => source[i] = i

(* The engine never waits while it owes an answer: WaitForDebugEvent with  *)
(* an infinite timeout would block for ever on a frozen process            *)
(* (slot.rs:71, debugger.wait_event()).                                    *)
AnsweredBeforeWaiting == pc = "wait" => pending = NoThread

(* Entered with the main thread's event pending, the engine has an event   *)
(* to answer at every slot boundary, so no slot is lost to a refused       *)
(* continue: each way out of trace_one_slot leaves its last event pending  *)
(* for the next slot (slot.rs:63, "Resume from the event that brought us   *)
(* here").                                                                 *)
EventHeldBetweenSlots ==
    pc = "scan" /\ held /\ ~lost => pending = Main \/ gone

(* The engine and the debug port agree on what is owed: nothing is waited  *)
(* for before the last event is answered, and none is answered for good    *)
(* before the next slot can use it (slot.rs:63-71).                        *)
EventProtocol == AnsweredBeforeWaiting /\ EventHeldBetweenSlots

(* At most one import is taken for ExitProcess on the strength of having   *)
(* entered the VM (mod.rs:341, did_set_exit_process).                      *)
OneExitProcess ==
    \A i, j \in Slots :
        result[i] = "exit_process" /\ result[j] = "exit_process" => i = j

(* The phase ends: TRACE_LIMIT bounds the steps of a slot, and every event *)
(* that is not a step is answered, so a busy worker thread or a chain of   *)
(* first-chance exceptions cannot keep a slot open while the main thread   *)
(* keeps stepping (slot.rs:90, counter > limit).                           *)
EngineEnds == []<>(pc = "done")

(* The walk gives up on the table only after a run of more than            *)
(* TRASH_THRESHOLD consecutive garbage slots: a separator, an adopted, a   *)
(* data or a traced slot in between starts the run again (mod.rs:300).     *)
StopsOnlyPastTheTable ==
    stop = "trash" =>
        /\ slot > TrashThreshold
        /\ \A j \in slot - TrashThreshold .. slot : class[j] = "trash"
=============================================================================
