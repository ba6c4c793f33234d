------------------------------ MODULE DebugPort ------------------------------
(***************************************************************************)
(* The Windows debug port between the debuggee and the unpacker, as        *)
(* `WindowsDebugger` (crates/core/src/windows_debugger.rs) uses it.        *)
(*                                                                         *)
(* A debuggee thread raises an event and stops.  WaitForDebugEvent hands   *)
(* one raised event to the debugger; from then until ContinueDebugEvent    *)
(* names the thread of that very event the whole process is frozen, and a  *)
(* ContinueDebugEvent that names any other thread, or comes when nothing   *)
(* is pending, is refused (E_INVALIDARG).  Every event loop of the         *)
(* unpacker is written against these operators.                            *)
(***************************************************************************)

CONSTANTS
    Threads,      \* the threads of the debuggee
    Main,         \* the shell's main thread (ThemidaState.main_thread_id)
    NoThread      \* "no event is pending"

ASSUME PortAssumption == Main \in Threads /\ NoThread \notin Threads

VARIABLES
    raised,       \* what each thread has raised and waits to have answered
    pending,      \* the thread whose event was dequeued and not yet answered
    gone          \* the process has raised its exit event

portVars == <<raised, pending, gone>>

(* DebugEvent, with the kinds that every loop answers alike (LoadDll,      *)
(* UnloadDll, CreateThread, ExitThread, OutputDebugString) as one.         *)
Kinds == {"breakpoint", "single_step", "access_violation", "exception",
          "notification", "rip", "exit_process"}

PortTypeOK ==
    /\ raised \in [Threads -> Kinds \cup {"none"}]
    /\ pending \in Threads \cup {NoThread}
    /\ gone \in BOOLEAN

Frozen == pending # NoThread

CanRun(t) == ~Frozen /\ ~gone /\ raised[t] = "none"

(* What the threads of a living process may have raised.                   *)
RaisedAlive == [Threads -> (Kinds \ {"exit_process"}) \cup {"none"}]

(* The event of t is dequeued; others may have raised theirs before the    *)
(* process froze.                                                          *)
PendingInit(t, kind) ==
    /\ raised \in RaisedAlive /\ raised[t] = kind
    /\ pending = t
    /\ gone = FALSE

(***************************************************************************)
(* The debuggee's side.                                                    *)
(***************************************************************************)
Raise(t, kind) ==
    /\ CanRun(t)
    /\ kind # "exit_process"
    /\ raised' = [raised EXCEPT ![t] = kind]
    /\ UNCHANGED <<pending, gone>>

(* ExitProcess: the other threads are torn down with what they had raised. *)
RaiseExit(t) ==
    /\ CanRun(t)
    /\ raised' = [u \in Threads |-> IF u = t THEN "exit_process" ELSE "none"]
    /\ gone' = TRUE
    /\ UNCHANGED pending

(***************************************************************************)
(* The debugger's side.                                                    *)
(***************************************************************************)

(* wait_event / wait_event_timeout returning Ok(event) of thread t.        *)
WaitReturns(t) ==
    /\ ~Frozen
    /\ raised[t] \notin {"none", "rip"}
    /\ pending' = t
    /\ UNCHANGED <<raised, gone>>

(* A RIP_EVENT is answered while it is decoded, and the wait returns       *)
(* Err(Windows(0)): the caller gets an error and nothing is pending.       *)
WaitFails(t) ==
    /\ ~Frozen
    /\ raised[t] = "rip"
    /\ raised' = [raised EXCEPT ![t] = "none"]
    /\ UNCHANGED <<pending, gone>>

(* Nothing is delivered while an event is unanswered, nor when no thread   *)
(* has raised one: wait_event_timeout returns Err(Timeout) and wait_event  *)
(* blocks.                                                                 *)
NothingToReport == Frozen \/ \A t \in Threads : raised[t] = "none"

(* continue_event(t, _) returning Ok.                                      *)
ContinueEvent(t) ==
    /\ pending = t
    /\ pending' = NoThread
    /\ raised' = [raised EXCEPT ![t] = "none"]
    /\ UNCHANGED gone

(* A wait and the answer to what it returned, the process frozen between.  *)
Serve(t) ==
    /\ ~Frozen
    /\ raised[t] \notin {"none", "rip"}
    /\ raised' = [raised EXCEPT ![t] = "none"]
    /\ UNCHANGED <<pending, gone>>

(* continue_event(t, _) returning Err: t is not the thread that is owed an *)
(* answer.                                                                 *)
ContinueRefused(t) == pending # t /\ UNCHANGED portVars
=============================================================================
