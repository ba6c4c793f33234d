----------------------------- MODULE EngineChain -----------------------------
(***************************************************************************)
(* Three of the unpacker's event loops on one debug port, in the order in  *)
(* which a run of a v3 target comes through them: the stepping into a      *)
(* mapped image (StepToImage), the IAT window after the OEP was accepted   *)
(* (IatWindow), and the trace of the import table (TraceImports).  Each    *)
(* starts from what the one before it left unanswered.                     *)
(***************************************************************************)
EXTENDS StepToImage, IatWindow, TraceImports

VARIABLE stage    \* the loop that is running: "step" | "window" | "trace"

chainVars == <<portVars, stepState, windowState, engineVars, stage>>

NoWindow ==
    /\ windowPc = "done" /\ why = "none" /\ budget = Rounds
    /\ iatGuarded = FALSE /\ atIat = {} /\ recorded = {}
    /\ idle = FALSE /\ foreign = FALSE

NoTrace ==
    /\ pc = "done" /\ slot = 1 /\ stop = "none" /\ written = "no"
    /\ class = [i \in Slots |-> "separator"]
    /\ result = [i \in Slots |-> "untouched"]
    /\ source = [i \in Slots |-> ApiTag] /\ tracedApi = ApiTag
    /\ traceInVm = FALSE /\ didSetExit = FALSE
    /\ trash = 0 /\ counter = 0 /\ held = FALSE /\ lost = FALSE

ChainInit == StepInit /\ NoWindow /\ NoTrace /\ stage = "step"

Stepping(action) ==
    /\ stage = "step" /\ action
    /\ UNCHANGED <<windowState, engineVars, stage>>

(* The debug loop has gone on with the .text guard (TextGuard), and some   *)
(* fault of the main thread was accepted as the OEP.                       *)
OepAccepted ==
    /\ stage = "step" /\ stage' = "window"
    /\ stepPc = "guard_path" /\ ~gone
    /\ UNCHANGED <<stepPc, cut>>
    /\ evThread' = Main /\ inImage' = FALSE /\ steps' = 0
    /\ raised' \in {r \in RaisedAlive : r[Main] = "access_violation"}
    /\ pending' = Main /\ gone' = FALSE
    /\ windowPc' = "locate"
    /\ UNCHANGED <<budget, iatGuarded, atIat, recorded, idle, foreign, why>>
    /\ UNCHANGED engineVars
    /\ WindowInit'

Waiting(action) ==
    /\ stage = "window" /\ action
    /\ UNCHANGED <<stepState, engineVars, stage>>

(* trace_imports starts on the port as the window left it.                 *)
TraceBegins ==
    /\ stage = "window" /\ stage' = "trace"
    /\ windowPc = "done"
    /\ UNCHANGED <<portVars, stepState>>
    /\ windowPc' = "done" /\ why' = "none" /\ budget' = Rounds
    /\ atIat' = {} /\ recorded' = {} /\ idle' = FALSE /\ foreign' = FALSE
    /\ pc' = "scan" /\ class' \in [Slots -> SlotClasses]
    /\ held' = (pending = Main /\ ~gone)
    /\ UNCHANGED <<iatGuarded, slot, stop, written, result, source, tracedApi,
                   traceInVm, didSetExit, trash, counter, lost>>
    /\ Init'

Tracing(action) ==
    /\ stage = "trace" /\ action
    /\ UNCHANGED <<stepState, windowState, stage>>

(* A product was written, the run failed, the process is gone before an    *)
(* OEP was found, or the table has been traced.                            *)
ChainOver ==
    /\ \/ stage = "step" /\ (stepPc \in {"dumped", "failed"} \/ (Over /\ gone))
       \/ stage = "trace" /\ pc = "done"
    /\ UNCHANGED chainVars

ChainNext ==
    \/ Stepping(Dumper) \/ Stepping(StepDebuggee) \/ OepAccepted
    \/ Waiting(Window) \/ Waiting(WindowDebuggee) \/ TraceBegins
    \/ Tracing(Engine) \/ Tracing(Debuggee)
    \/ ChainOver

ChainSpec == ChainInit /\ [][ChainNext]_chainVars

Loops ==
    \/ Stepping(Dumper)
    \/ OepAccepted
    \/ Waiting(Window)
    \/ TraceBegins
    \/ Tracing(Engine)

(* The loops' own fairness, each while it is running.                      *)
FairChain ==
    /\ ChainSpec
    /\ WF_chainVars(Loops)
    /\ SF_chainVars(Tracing(MainSteps))
    /\ SF_chainVars(\/ Waiting(TakeEvent /\ budget' < budget)
                    \/ Tracing(HearsOfMain))
=============================================================================
