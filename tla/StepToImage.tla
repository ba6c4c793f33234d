---------------------------- MODULE StepToImage ----------------------------
(***************************************************************************)
(* Finding the OEP of a shell that materialises the program as a mapped    *)
(* image: try_mapped_dump (crates/cli/src/unpacker/mod.rs) single-steps    *)
(* the main thread with step_until_in_image (helpers.rs) until it jumps    *)
(* into the image, writes the product, or falls back to the .text guard.   *)
(*                                                                         *)
(* The call is made while the debug loop holds the breakpoint or           *)
(* single-step event of some thread, which the loop answers afterwards.    *)
(***************************************************************************)
EXTENDS DebugPort, Naturals

CONSTANT MaxSteps     \* 5000 in the code

ASSUME StepAssumption == MaxSteps \in Nat

VARIABLES
    stepPc,        \* "arm" | "wait" | "event" | "product" | "resume" |
               \* "dumped" | "guard_path" | "failed"
    evThread,  \* thread_id of the event the debug loop holds
    inImage,   \* the main thread is inside the mapped image
    steps,     \* rounds of the step loop
    cut        \* how the stepping ended without a product

stepState == <<stepPc, evThread, inImage, steps, cut>>
stepVars == <<portVars, stepState>>

Cuts == {"none", "not_main", "timeout", "foreign", "own_event", "fault",
         "steps", "wait_error", "dump_failed"}

StepTypeOK ==
    /\ PortTypeOK
    /\ stepPc \in {"arm", "wait", "event", "product", "resume", "dumped",
               "guard_path", "failed"}
    /\ evThread \in Threads
    /\ inImage \in BOOLEAN
    /\ steps \in 0 .. MaxSteps
    /\ cut \in Cuts

StepInit ==
    /\ \E t \in Threads, k \in {"breakpoint", "single_step"} :
        PendingInit(t, k) /\ evThread = t
    /\ stepPc = "arm" /\ inImage = FALSE /\ steps = 0 /\ cut = "none"

(* Ok(None) or Err: warn, dump the raw image, clear TF, Ok(false).         *)
FallBack(reason) ==
    /\ stepPc' = "resume"
    /\ cut' = reason
    /\ UNCHANGED <<evThread, inImage, steps>>

(* The trap flag is set again and the step loop goes round.                *)
StepAgain ==
    /\ ContinueEvent(Main)
    /\ stepPc' = "wait"
    /\ steps' = steps + 1
    /\ UNCHANGED <<evThread, inImage, cut>>

ArmWhoever ==
    /\ stepPc = "arm"
    /\ ContinueEvent(evThread)
    /\ stepPc' = "wait"
    /\ UNCHANGED <<evThread, inImage, steps, cut>>

(* TF goes on the main thread, and the event is answered in its name.      *)
Arm ==
    /\ stepPc = "arm"
    /\ \/ /\ ContinueEvent(Main)
          /\ stepPc' = "wait"
          /\ UNCHANGED <<evThread, inImage, steps, cut>>
       \/ ContinueRefused(Main) /\ FallBack("not_main")

(***************************************************************************)
(* step_until_in_image.                                                    *)
(***************************************************************************)
OutOfSteps ==
    /\ stepPc = "wait"
    /\ steps = MaxSteps
    /\ FallBack("steps")
    /\ UNCHANGED portVars

Take ==
    /\ stepPc = "wait"
    /\ steps < MaxSteps
    /\ \E t \in Threads : WaitReturns(t)
    /\ stepPc' = "event"
    /\ UNCHANGED <<evThread, inImage, steps, cut>>

StepWaitError ==
    /\ stepPc = "wait"
    /\ steps < MaxSteps
    /\ \E t \in Threads : WaitFails(t)
    /\ FallBack("wait_error")

(* Err(Timeout): TF again, and an answer to an event that is not there.    *)
Timeout ==
    /\ stepPc = "wait"
    /\ steps < MaxSteps
    /\ NothingToReport
    /\ ContinueRefused(Main) /\ FallBack("timeout")

Taken(kinds) == stepPc = "event" /\ raised[pending] \in kinds

KeepSteppingUncounted ==
    /\ Taken({"single_step"})
    /\ pending = Main
    /\ \/ /\ inImage
          /\ stepPc' = "product"
          /\ UNCHANGED <<portVars, evThread, inImage, steps, cut>>
       \/ /\ ~inImage
          /\ ContinueEvent(Main)
          /\ stepPc' = "wait"
          /\ UNCHANGED <<evThread, inImage, steps, cut>>

(* A trap of the main thread: in the image, or one step more.              *)
StepTrap ==
    /\ Taken({"single_step"})
    /\ pending = Main
    /\ \/ /\ inImage
          /\ stepPc' = "product"
          /\ UNCHANGED <<portVars, evThread, inImage, steps, cut>>
       \/ ~inImage /\ StepAgain

ShellFault ==
    /\ Taken({"access_violation"})
    /\ pending = Main
    /\ FallBack("fault")
    /\ UNCHANGED portVars

(* Another thread's breakpoint, trap or fault, or the main thread's        *)
(* breakpoint: answered once for its thread, and then once more for the    *)
(* main thread, which has nothing left to answer.                          *)
AnsweredTwice ==
    /\ Taken({"breakpoint", "single_step", "access_violation"})
    /\ pending = Main => raised[Main] = "breakpoint"
    /\ ContinueEvent(pending)
    /\ FallBack(IF pending = Main THEN "own_event" ELSE "foreign")

(* Every other event is answered in the name of the main thread.           *)
OtherEvent ==
    /\ Taken({"exception", "notification", "exit_process"})
    /\ \/ StepAgain
       \/ ContinueRefused(Main) /\ FallBack("foreign")

(***************************************************************************)
(* Back in try_mapped_dump and in the debug loop.                          *)
(***************************************************************************)

(* The product is written and the loop's event answered, or the dump fails.*)
Product ==
    /\ stepPc = "product"
    /\ \/ /\ IF pending = evThread
             THEN ContinueEvent(evThread) /\ stepPc' = "dumped"
             ELSE UNCHANGED portVars /\ stepPc' = "failed"
          /\ UNCHANGED <<evThread, inImage, steps, cut>>
       \/ FallBack("dump_failed") /\ UNCHANGED portVars

(* The loop answers the event it holds; a refusal is the run's error.      *)
ResumeLoop ==
    /\ stepPc = "resume"
    /\ \/ ContinueEvent(evThread) /\ stepPc' = "guard_path" /\ cut' = "none"
       \/ ContinueRefused(evThread) /\ stepPc' = "failed" /\ UNCHANGED cut
    /\ UNCHANGED <<evThread, inImage, steps>>

Over == stepPc \in {"dumped", "guard_path", "failed"}

Dumper ==
    \/ Arm \/ OutOfSteps \/ Take \/ StepWaitError \/ Timeout \/ StepTrap
    \/ ShellFault \/ AnsweredTwice \/ OtherEvent \/ Product \/ ResumeLoop

(* A step of the main thread may be the jump into the image.               *)
StepDebuggee ==
    /\ ~Over
    /\ \/ /\ \E t \in Threads : RaiseExit(t) \/ \E k \in Kinds : Raise(t, k)
          /\ UNCHANGED inImage
       \/ Raise(Main, "single_step") /\ inImage' = TRUE
    /\ UNCHANGED <<stepPc, evThread, steps, cut>>

StepOver == Over /\ UNCHANGED stepVars

StepNext == Dumper \/ StepDebuggee \/ StepOver

StepSpec == StepInit /\ [][StepNext]_stepVars

FairStep == StepSpec /\ WF_stepVars(Dumper)

-----------------------------------------------------------------------------
(* The state the attempt is in, as the debug loop sees it.                 *)
Phase ==
    IF stepPc \in {"arm", "wait", "event"} THEN "stepping"
    ELSE IF stepPc = "product" THEN "image"
    ELSE IF stepPc = "resume" THEN "giving_up" ELSE stepPc

Promise == INSTANCE MappedStep WITH phase <- Phase, reason <- cut

(* The stepping keeps the promise that the debug loop is written against:  *)
(* a product is never turned into a failed run by the answer after it,     *)
(* which the first continue_event, in the main thread's name, would cause  *)
(* while a worker's event is pending (helpers.rs:679, mod.rs:2349), and a  *)
(* fallback only fails the run when it lost the loop's event: a worker's   *)
(* event at the call, a fault of the shell and a failed dump do not.       *)
KeepsItsPromise == Promise!AttemptSpec

(* The stepping ends, at the latest after max_steps rounds, however many   *)
(* traps the shell takes (helpers.rs:681).                                 *)
SteppingEnds == []<>Over

(* "Events from other threads are resumed immediately" (helpers.rs:663):   *)
(* they are not the end of the stepping.  This is what the source says of  *)
(* itself, and it does not hold: a worker's event is answered twice, or in *)
(* the wrong name (AnsweredTwice, OtherEvent).                             *)
OtherThreadsResumed == cut # "foreign"
=============================================================================
