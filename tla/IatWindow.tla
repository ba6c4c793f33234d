----------------------------- MODULE IatWindow -----------------------------
(***************************************************************************)
(* The IAT decryption window: the tail of handle_access_violation          *)
(* (crates/cli/src/unpacker/av_handler.rs).                                *)
(*                                                                         *)
(* The OEP fault of the main thread is pending.  The import table of an    *)
(* EXE goes PAGE_NOACCESS and the target is to run for a while; the loop   *)
(* answers one event per round and waits for the next.  A DLL is to finish *)
(* its DllMain with the table open.  Whatever is pending when the window   *)
(* ends is what the trace engine (TraceImports) starts from.               *)
(***************************************************************************)
EXTENDS DebugPort, Naturals

CONSTANT Rounds      \* waits of 100 ms before the deadline (50, 450 or 20)

ASSUME WindowAssumption == Rounds \in Nat

VARIABLES
    windowPc,    \* "locate" | "top" | "wait" | "restore" | "settle" | "done"
    budget,      \* rounds left before the deadline
    iatGuarded,  \* the import table is PAGE_NOACCESS
    atIat,       \* threads whose next instruction touches the import table
    recorded,    \* threads with an instruction in ThemidaState.guard_addrs
    idle,        \* a wait of this window timed out
    foreign,     \* an event of a thread other than Main was dequeued
    why          \* how the window ended

windowState ==
    <<windowPc, budget, iatGuarded, atIat, recorded, idle, foreign, why>>
windowVars == <<portVars, windowState>>

WindowTypeOK ==
    /\ PortTypeOK
    /\ windowPc \in {"locate", "top", "wait", "restore", "settle", "done"}
    /\ budget \in 0 .. Rounds
    /\ iatGuarded \in BOOLEAN /\ idle \in BOOLEAN /\ foreign \in BOOLEAN
    /\ atIat \subseteq Threads /\ recorded \subseteq Threads
    /\ why \in {"none", "deadline", "refused", "exit", "wait_error",
               "no_table"}

(* An OEP was accepted, the fault at it is unanswered.                     *)
WindowInit ==
    /\ PendingInit(Main, "access_violation")
    /\ windowPc = "locate" /\ budget = Rounds /\ iatGuarded = FALSE
    /\ atIat = {} /\ recorded = {}
    /\ idle = FALSE /\ foreign = FALSE /\ why = "none"

End(reason) == windowPc' = "restore" /\ why' = reason

(* Without a table the debug loop is left as it is.  The table of an EXE   *)
(* is guarded, the table of a DLL made writable.                           *)
Locate ==
    /\ windowPc = "locate"
    /\ \/ windowPc' = "done" /\ why' = "no_table" /\ UNCHANGED iatGuarded
       \/ windowPc' = "top" /\ iatGuarded' = TRUE /\ UNCHANGED why
       \/ windowPc' = "settle" /\ UNCHANGED <<iatGuarded, why>>
    /\ UNCHANGED <<portVars, budget, atIat, recorded, idle, foreign>>

(***************************************************************************)
(* The settle window of a DLL.  The OEP fault has not been answered, so    *)
(* that its wait has nothing to report: the arms that would answer an      *)
(* event, or end the window early, are never taken.                        *)
(***************************************************************************)
Settle ==
    /\ windowPc = "settle"
    /\ budget > 0
    /\ NothingToReport
    /\ budget' = budget - 1
    /\ UNCHANGED <<portVars, windowPc, iatGuarded, atIat, recorded, idle,
                   foreign, why>>

Settled ==
    /\ windowPc = "settle"
    /\ budget = 0
    /\ windowPc' = "done"
    /\ why' = "deadline"
    /\ UNCHANGED <<portVars, budget, iatGuarded, atIat, recorded, idle,
                   foreign>>

(***************************************************************************)
(* The loop of an EXE.  The probe of classic targets that would end it     *)
(* early is never armed: nothing assigns classic_pending_ret.              *)
(***************************************************************************)
Deadline ==
    /\ windowPc = "top"
    /\ budget = 0
    /\ End("deadline")
    /\ UNCHANGED <<portVars, budget, iatGuarded, atIat, recorded, idle,
                   foreign>>

ResumeWhoever ==
    /\ windowPc = "top"
    /\ budget > 0
    /\ \/ /\ \E t \in Threads : ContinueEvent(t)
          /\ windowPc' = "wait" /\ UNCHANGED why
       \/ ~Frozen /\ UNCHANGED portVars /\ End("refused")
    /\ UNCHANGED <<budget, iatGuarded, atIat, recorded, idle, foreign>>

(* continue_event(thread_id): the thread of the OEP fault, whatever event  *)
(* the previous round took.                                                *)
Resume ==
    /\ windowPc = "top"
    /\ budget > 0
    /\ \/ ContinueEvent(Main) /\ windowPc' = "wait" /\ UNCHANGED why
       \/ ContinueRefused(Main) /\ End("refused")
    /\ UNCHANGED <<budget, iatGuarded, atIat, recorded, idle, foreign>>

(* Err(Timeout): the loop goes round with nothing pending.                 *)
Idle ==
    /\ windowPc = "wait"
    /\ NothingToReport
    /\ windowPc' = "top"
    /\ idle' = TRUE
    /\ budget' = budget - 1
    /\ UNCHANGED <<portVars, iatGuarded, atIat, recorded, foreign, why>>

TakeEventUnclocked ==
    /\ windowPc = "wait"
    /\ \E t \in Threads :
        /\ WaitReturns(t)
        /\ foreign' = (foreign \/ t # Main)
        /\ recorded' = IF t \in atIat /\ raised[t] = "access_violation"
                       THEN recorded \cup {t} ELSE recorded
        /\ IF raised[t] = "exit_process"
           THEN End("exit") ELSE windowPc' = "top" /\ UNCHANGED why
    /\ UNCHANGED <<budget, iatGuarded, atIat, idle>>

(* An event ends the wait early; a fault inside the table is recorded.     *)
TakeEvent ==
    /\ windowPc = "wait"
    /\ \E t \in Threads :
        /\ WaitReturns(t)
        /\ foreign' = (foreign \/ t # Main)
        /\ recorded' = IF t \in atIat /\ raised[t] = "access_violation"
                       THEN recorded \cup {t} ELSE recorded
        /\ IF raised[t] = "exit_process"
           THEN End("exit") ELSE windowPc' = "top" /\ UNCHANGED why
    /\ budget' \in {budget, budget - 1}
    /\ UNCHANGED <<iatGuarded, atIat, idle>>

WindowWaitError ==
    /\ windowPc = "wait"
    /\ \E t \in Threads : WaitFails(t)
    /\ End("wait_error")
    /\ UNCHANGED <<budget, iatGuarded, atIat, recorded, idle, foreign>>

(* remove_code_section_guard and set_protection.                           *)
Restore ==
    /\ windowPc = "restore"
    /\ windowPc' = "done"
    /\ iatGuarded' = FALSE
    /\ UNCHANGED <<portVars, budget, atIat, recorded, idle, foreign, why>>

(***************************************************************************)
(* The debuggee.  A guarded access and its instruction is run      *)
(* again after the answer, so the thread is at it until the guard is       *)
(* lifted.                                                                 *)
(***************************************************************************)
TouchIat(t) ==
    /\ iatGuarded
    /\ Raise(t, "access_violation")
    /\ atIat' = atIat \cup {t}

(* The window's own wait is the only place it lets the debuggee run.       *)
WindowDebuggee ==
    /\ windowPc # "done"
    /\ \E t \in Threads :
        \/ TouchIat(t)
        \/ /\ ~(iatGuarded /\ t \in atIat)
           /\ RaiseExit(t) \/ \E k \in Kinds : Raise(t, k)
           /\ UNCHANGED atIat
    /\ UNCHANGED <<windowPc, budget, iatGuarded, recorded, idle, foreign, why>>

Window ==
    \/ Locate \/ Settle \/ Settled
    \/ Deadline \/ Resume \/ Idle \/ TakeEvent \/ WindowWaitError \/ Restore

WindowOver == windowPc = "done" /\ UNCHANGED windowVars

WindowNext == Window \/ WindowDebuggee \/ WindowOver

WindowSpec == WindowInit /\ [][WindowNext]_windowVars

(* The loop runs, and time passes: an event storm does not hold the clock. *)
FairWindow ==
    /\ WindowSpec
    /\ WF_windowVars(Window)
    /\ SF_windowVars(TakeEvent /\ budget' < budget)
-----------------------------------------------------------------------------
(* If no wait timed out or failed and only the main thread raised events,  *)
(* the window ends with an event of the main thread pending, which is what *)
(* the trace engine answers first (slot.rs:63): an event is answered only  *)
(* at the top of the round after the one that took it (av_handler.rs:1171).*)
HandsOverTheEvent ==
    windowPc = "done" /\ ~idle /\ ~foreign /\ why \notin {"none", "wait_error"} =>
        pending = Main

(* The window answers nobody but the thread of the OEP fault: an event of  *)
(* another thread is never answered, neither by its own identifier nor by  *)
(* the main thread's, and stays pending to the end (av_handler.rs:1171).   *)
ForeignEventStays == foreign => pending \in Threads \ {Main}

(* After the first wait that times out, no event is taken any more: the    *)
(* next continue_event has nothing to answer and ends the window           *)
(* (av_handler.rs:1171).                                              *)
StopsAtFirstQuietRound == idle => pending = NoThread

(* What the trace engine inherits: the main thread's event, or an event of *)
(* another thread that nobody has answered, or after a quiet round none.   *)
Handover == HandsOverTheEvent /\ ForeignEventStays /\ StopsAtFirstQuietRound

(* The window ends, in particular under a storm of faults on the guarded   *)
(* table: the deadline is read before every round (av_handler.rs:1166).    *)
WindowEnds == []<>(windowPc = "done")
=============================================================================
