----------------------------- MODULE TextGuard -----------------------------
(***************************************************************************)
(* The code-section guard of a v3 EXE target: process_guarded_access and   *)
(* consume_tm_return_int3 (crates/packers/themida/src/guard.rs) with the   *)
(* breakpoint, access-violation and single-step arms of the debug loop     *)
(* around them (crates/cli/src/unpacker/), from the moment the guard is    *)
(* installed to the moment an OEP is accepted.                             *)
(*                                                                         *)
(* .text is PAGE_NOACCESS.  A fault opens it for one instruction of the    *)
(* faulting thread, or, for a TLS callback, until the callback returns     *)
(* into the Themida section; a fault inside .text that is neither is taken *)
(* for the program's entry point.  Every access violation of the process   *)
(* comes this way (av_handler.rs:390), those of the debuggee's own that    *)
(* have nothing to do with the guard included.                             *)
(***************************************************************************)
EXTENDS DebugPort, Naturals

CONSTANTS
    X64,          \* the build: x86_64 has no callback signature and no int3
    TlsTotal,     \* tls_total, a guess when the callback array is encrypted
    Callbacks,    \* the most TLS callbacks a program has
    StormLimit,   \* AV_STORM_LIMIT, 1024
    RetryLimit    \* VIRTUALIZED_OEP_RETRY_LIMIT, 64

ASSUME GuardAssumption ==
    /\ X64 \in BOOLEAN
    /\ TlsTotal \in Nat /\ Callbacks \in Nat
    /\ StormLimit \in Nat /\ StormLimit > 1 /\ RetryLimit \in Nat

(* What a thread is about to execute.                                      *)
InThemida == {"shell", "shell_write", "return", "past_return"}
InText == {"callback", "body", "entry", "program"}
TouchesText == {"library", "shell_write"}
Code == InThemida \cup InText \cup TouchesText

VARIABLES
    guardPc,     \* "loop", or how it ended: "oep" | "exit" | "stuck" | "error"
    at,          \* the next instruction of each thread
    tf,          \* its trap flag
    fault,       \* the access that raised its access violation
    bad,         \* that instruction also accesses memory that is not there
    total,       \* TLS callbacks of the program
    begun,       \* those the shell has called
    escaped,     \* the entry point was executed under the debug loop
    blind,       \* history: how .text was open or closed at the wrong time
    dep,         \* the system enforces DEP for the image (NX_COMPAT)
    text,        \* protection of .text
    tm,          \* protection of the Themida section
    byte,        \* the byte at the callback's return site
    saved,       \* ThemidaState.tm_return_int3, its byte
    stepping,    \* ThemidaState.guard_stepping
    ftm,         \* ThemidaState.ftm_guard
    tlsCounter,  \* ThemidaState.tls_counter
    touches,     \* length of ThemidaState.guard_addrs, counted up to 2
    traceMsvc,   \* ThemidaState.trace_msvc_oep
    retries,     \* LoopState.virtualized_oep_retries
    oep,         \* LoopState.oep
    last, streak \* LoopState.av_storm

plan == <<total, begun, escaped, dep>>
program == <<at, tf, fault, bad, plan, blind>>
guard == <<text, tm, byte, saved, stepping, ftm, tlsCounter, touches,
           traceMsvc>>
loop == <<guardPc, retries, oep, last, streak>>
guardVars == <<portVars, program, guard, loop>>

Faults == {"none", "text_data", "text_exec", "tm_exec", "own"}

GuardTypeOK ==
    /\ PortTypeOK
    /\ guardPc \in {"loop", "oep", "exit", "stuck", "error"}
    /\ at \in [Threads -> Code]
    /\ tf \in [Threads -> BOOLEAN]
    /\ fault \in [Threads -> Faults]
    /\ bad \in [Threads -> BOOLEAN]
    /\ total \in 0 .. Callbacks /\ begun \in 0 .. Callbacks
    /\ blind \subseteq {"race", "undercut"}
    /\ {escaped, dep, stepping, ftm, traceMsvc} \subseteq BOOLEAN
    /\ text \in {"noaccess", "open"} /\ tm \in {"rwx", "rw"}
    /\ byte \in {"orig", "int3"} /\ saved \in {"none", "orig", "int3"}
    /\ tlsCounter \in 0 .. TlsTotal /\ touches \in 0 .. 2
    /\ retries \in 0 .. RetryLimit + 1
    /\ oep \in {"none", "found", "guess"} \cup Code
    /\ last \in {<<>>} \cup (Threads \X Code \X Faults)
    /\ streak \in 0 .. StormLimit

(* handle_hw_breakpoint has just installed the guard.                      *)
GuardInit ==
    /\ raised = [t \in Threads |-> "none"] /\ pending = NoThread /\ gone = FALSE
    /\ guardPc = "loop" /\ oep = "none"
    /\ retries = 0 /\ last = <<>> /\ streak = 0
    /\ at = [t \in Threads |-> "shell"] /\ tf = [t \in Threads |-> FALSE]
    /\ fault = [t \in Threads |-> "none"] /\ bad = [t \in Threads |-> FALSE]
    /\ total \in 0 .. Callbacks /\ begun = 0 /\ escaped = FALSE /\ blind = {}
    /\ dep \in BOOLEAN /\ (X64 => dep)
    /\ text = "noaccess" /\ tm = "rwx" /\ byte = "orig" /\ saved = "none"
    /\ stepping = FALSE /\ ftm = FALSE /\ tlsCounter = 0 /\ touches = 0
    /\ traceMsvc = FALSE

(***************************************************************************)
(* The debuggee.                                                           *)
(***************************************************************************)
FaultOf(t) ==
    IF at[t] \in InThemida /\ tm = "rw" /\ dep THEN "tm_exec"
    ELSE IF at[t] = "return" /\ byte = "int3" THEN "none"
    ELSE IF at[t] \in InText /\ text = "noaccess" THEN "text_exec"
    ELSE IF bad[t] THEN "own"
    ELSE IF at[t] \in TouchesText /\ text = "noaccess" THEN "text_data"
    ELSE "none"

(* The shell calls every TLS callback and then the entry point.  Between   *)
(* two accesses to .text a thread executes something else.                 *)
After(t) ==
    CASE at[t] = "callback" -> {"body"}
      [] at[t] = "body"     -> {"return"}
      [] at[t] \in TouchesText -> {"shell"}
      [] at[t] \in {"entry", "program"} -> {"program"}
      [] OTHER ->
            {"shell", "shell_write", "library"} \cup
            IF t # Main THEN {}
            ELSE IF begun < total THEN {"callback"} ELSE {"entry"}

(* A guarded access is being stepped: its trap is still to come.           *)
BeingStepped(t) == tf[t] \/ raised[t] = "single_step"

(* A callback or the entry point is reached through a .text that is open   *)
(* for the access of another thread.                                       *)
Races(t) ==
    /\ at[t] \in {"callback", "entry"}
    /\ ~ftm
    /\ \E u \in Threads \ {t} : BeingStepped(u)

Fault(t) ==
    /\ FaultOf(t) # "none"
    /\ Raise(t, "access_violation")
    /\ fault' = [fault EXCEPT ![t] = FaultOf(t)]
    /\ blind' = IF FaultOf(t) = "own" /\ Races(t)
                THEN blind \cup {"race"} ELSE blind
    /\ UNCHANGED <<at, tf, bad, plan>>

HitInt3(t) ==
    /\ FaultOf(t) = "none"
    /\ at[t] = "return" /\ byte = "int3"
    /\ Raise(t, "breakpoint")
    /\ at' = [at EXCEPT ![t] = "past_return"]
    /\ UNCHANGED <<tf, fault, bad, plan, blind>>

(* An instruction in the shell, a callback, the program or a library may   *)
(* access memory of its own that is not there: the debuggee counts on its  *)
(* structured exception handlers for such faults.                          *)
MayBeBad(next) == IF next \in TouchesText THEN {FALSE} ELSE BOOLEAN

Execute(t) ==
    /\ FaultOf(t) = "none"
    /\ ~(at[t] = "return" /\ byte = "int3")
    /\ CanRun(t)
    /\ \E next \in After(t) :
        /\ at' = [at EXCEPT ![t] = next]
        /\ begun' = IF next = "callback" THEN begun + 1 ELSE begun
        /\ \E b \in MayBeBad(next) : bad' = [bad EXCEPT ![t] = b]
    /\ escaped' = (escaped \/ at[t] = "entry")
    /\ blind' = IF Races(t) THEN blind \cup {"race"} ELSE blind
    /\ \/ tf[t] /\ Raise(t, "single_step")
       \/ ~tf[t] /\ UNCHANGED portVars
    /\ tf' = [tf EXCEPT ![t] = FALSE]
    /\ fault' = [fault EXCEPT ![t] = "none"]
    /\ UNCHANGED <<total, dep>>

(* Another thread provides the memory.                                     *)
Repair(t, u) ==
    /\ t # u /\ CanRun(u) /\ bad[t]
    /\ bad' = [bad EXCEPT ![t] = FALSE]
    /\ UNCHANGED <<portVars, at, tf, fault, plan, blind>>

(* Anything else a thread raises, an int3 of its own included; the other   *)
(* exceptions are one kind with the notifications, the loop answers both.  *)
Report(t) ==
    /\ \/ RaiseExit(t)
       \/ \E k \in {"notification", "rip"} : Raise(t, k)
       \/ at[t] # "past_return" /\ Raise(t, "breakpoint")
    /\ UNCHANGED program

GuardDebuggee ==
    /\ guardPc = "loop"
    /\ \E t \in Threads :
        \/ Fault(t) \/ HitInt3(t) \/ Execute(t) \/ Report(t)
        \/ \E u \in Threads : Repair(t, u)
    /\ UNCHANGED <<guard, loop>>

(***************************************************************************)
(* The debug loop: traps and breakpoints.                                  *)
(***************************************************************************)
Event(t, kind) == guardPc = "loop" /\ raised[t] = kind /\ Serve(t)

OnSingleStepOpen(t) ==
    /\ Event(t, "single_step")
    /\ stepping' = FALSE
    /\ UNCHANGED <<program, loop, text, tm, byte, saved, ftm, tlsCounter,
                   touches, traceMsvc>>

(* The guard goes up under a callback that is running.                     *)
Undercuts == ftm /\ at[Main] \in {"callback", "body"}

(* The trap after a guarded access: the guard goes up again.               *)
OnSingleStep(t) ==
    /\ Event(t, "single_step")
    /\ text' = IF stepping THEN "noaccess" ELSE text
    /\ blind' = IF stepping /\ Undercuts THEN blind \cup {"undercut"} ELSE blind
    /\ stepping' = FALSE
    /\ UNCHANGED <<at, tf, fault, bad, plan, loop, tm, byte, saved, ftm, tlsCounter, touches,
                   traceMsvc>>

OurInt3(t) == saved # "none" /\ at[t] = "past_return"

OnReturnInt3Kept(t) ==
    /\ Event(t, "breakpoint")
    /\ OurInt3(t)
    /\ saved' = "none"
    /\ at' = [at EXCEPT ![t] = "return"]
    /\ text' = "noaccess" /\ ftm' = FALSE /\ stepping' = FALSE
    /\ UNCHANGED <<tf, fault, bad, plan, blind, byte, tm, tlsCounter, touches,
                   traceMsvc, loop>>

(* consume_tm_return_int3: the callback has returned.                      *)
OnReturnInt3(t) ==
    /\ Event(t, "breakpoint")
    /\ OurInt3(t)
    /\ byte' = saved
    /\ saved' = "none"
    /\ at' = [at EXCEPT ![t] = "return"]
    /\ text' = "noaccess" /\ ftm' = FALSE /\ stepping' = FALSE
    /\ UNCHANGED <<tf, fault, bad, plan, blind, tm, tlsCounter, touches,
                   traceMsvc, loop>>

(* Not the int3 of ours that is outstanding, no slot matches: the event is *)
(* answered.                                                               *)
OnForeignInt3(t) ==
    /\ Event(t, "breakpoint")
    /\ ~OurInt3(t)
    /\ UNCHANGED <<program, guard, loop>>

OnOther(t) ==
    /\ Event(t, "notification")
    /\ UNCHANGED <<program, guard, loop>>

(* The exit event ends the loop, a failed wait the run.                    *)
OnEnd(t) ==
    /\ guardPc = "loop"
    /\ \/ raised[t] = "exit_process" /\ WaitReturns(t) /\ guardPc' = "exit"
       \/ WaitFails(t) /\ guardPc' = "error"
    /\ UNCHANGED <<program, guard, retries, oep, last, streak>>

(***************************************************************************)
(* The debug loop: access violations.                                      *)
(***************************************************************************)
Streak(t) == IF last = <<t, at[t], fault[t]>> THEN streak + 1 ELSE 1

(* AvStorm::record says the target is stuck.                               *)
OnStorm(t) ==
    /\ guardPc = "loop" /\ raised[t] = "access_violation"
    /\ WaitReturns(t)
    /\ Streak(t) >= StormLimit
    /\ guardPc' = "stuck"
    /\ last' = <<t, at[t], fault[t]>> /\ streak' = Streak(t)
    /\ UNCHANGED <<program, guard, retries, oep>>

(* A fault whose target is in .text is the guard's own and starts over.    *)
Counted(t) ==
    /\ guardPc = "loop" /\ raised[t] = "access_violation"
    /\ Streak(t) < StormLimit
    /\ IF fault[t] \in {"tm_exec", "own"}
       THEN last' = <<t, at[t], fault[t]>> /\ streak' = Streak(t)
       ELSE last' = <<>> /\ streak' = 0

Resumed(t) == Counted(t) /\ Serve(t)

keepLoop == <<guardPc, retries, oep>>

(* Branch 1: the first fault after a callback, whatever it is a fault of,  *)
(* closes .text again.                                                     *)
RearmAfterTls(t) ==
    /\ Resumed(t)
    /\ ftm
    /\ ftm' = FALSE
    /\ text' = "noaccess"
    /\ blind' = IF Undercuts THEN blind \cup {"undercut"} ELSE blind
    /\ UNCHANGED <<at, tf, fault, bad, plan, tm, byte, saved, stepping, tlsCounter, touches,
                   traceMsvc, keepLoop>>

StepPastForgotten(t) ==
    /\ Resumed(t)
    /\ ~ftm
    /\ at[t] \notin InText
    /\ text' = "open"
    /\ touches' = IF touches = 2 THEN 2 ELSE touches + 1
    /\ tf' = [tf EXCEPT ![t] = TRUE]
    /\ UNCHANGED <<at, fault, bad, plan, blind, tm, byte, saved, stepping,
                   ftm, tlsCounter, traceMsvc, keepLoop>>

StepPastClosed(t) ==
    /\ Resumed(t)
    /\ ~ftm
    /\ at[t] \notin InText
    /\ stepping' = TRUE
    /\ touches' = IF touches = 2 THEN 2 ELSE touches + 1
    /\ tf' = [tf EXCEPT ![t] = TRUE]
    /\ UNCHANGED <<at, fault, bad, plan, blind, text, tm, byte, saved, ftm,
                   tlsCounter, traceMsvc, keepLoop>>

(* Branches 2 and 3: a library or the shell, itself outside .text, with no *)
(* question what it was that it could not access.                          *)
StepPast(t) ==
    /\ Resumed(t)
    /\ ~ftm
    /\ at[t] \notin InText
    /\ text' = "open"
    /\ stepping' = TRUE
    /\ touches' = IF touches = 2 THEN 2 ELSE touches + 1
    /\ tf' = [tf EXCEPT ![t] = TRUE]
    /\ UNCHANGED <<at, fault, bad, plan, blind, tm, byte, saved, ftm,
                   tlsCounter, traceMsvc, keepLoop>>

BudgetOpen == tlsCounter < TlsTotal

TakenForCallbackUnsigned(t) ==
    at[t] \in InText /\ fault[t] = "text_exec" /\ BudgetOpen

(* exc_type = 8, the budget is open and, on x86, the arguments on the      *)
(* stack are those of a TLS callback.                                      *)
TakenForCallback(t) ==
    /\ at[t] \in InText /\ fault[t] = "text_exec"
    /\ BudgetOpen /\ (X64 \/ at[t] = "callback")

(* Branch 4: .text stays open, the Themida section loses execute, and on   *)
(* x86 the return site is patched with an int3.                            *)
EnterCallback(t) ==
    /\ Resumed(t)
    /\ ~ftm
    /\ TakenForCallback(t)
    /\ tlsCounter' = tlsCounter + 1
    /\ text' = "open" /\ tm' = "rw" /\ ftm' = TRUE
    /\ IF X64 THEN UNCHANGED <<byte, saved>>
       ELSE byte' = "int3" /\ saved' = byte
    /\ UNCHANGED <<program, stepping, touches, traceMsvc, keepLoop>>

Possible(t) ==
    Counted(t) /\ ~ftm /\ at[t] \in InText /\ ~TakenForCallback(t)

(* Branch 5: the hit after an MSVC VM entry completes the stub at oep; the *)
(* event is answered and the loop left.                                    *)
MsvcTraceComplete(t) ==
    /\ Possible(t)
    /\ traceMsvc
    /\ Serve(t)
    /\ text' = "open"
    /\ guardPc' = "oep"
    /\ UNCHANGED <<program, tm, byte, saved, stepping, ftm, tlsCounter,
                   touches, traceMsvc, retries, oep>>

(***************************************************************************)
(* PossibleOEP.  Whether the return address lies in the Themida section,   *)
(* whether a compiler's entry pattern is found and whether the linker is   *)
(* one of the traced MSVC versions are left open.                          *)
(***************************************************************************)

(* If the first instruction of the chosen address jumps into the Themida   *)
(* section, the first prologue a scan of .text comes across replaces it.   *)
Rescanned(chosen) == {chosen, "found"}

(* handle_tls_callbacks asks once more, as if the fault had been one of    *)
(* execution (av_handler.rs:714): what has a callback's arguments, and on  *)
(* x64 whatever it is, is counted as one more callback.                    *)
SkipsCallback(t) == BudgetOpen /\ (X64 \/ at[t] = "callback")

Recounted(t) == IF SkipsCallback(t) THEN tlsCounter + 1 ELSE tlsCounter

(* The arguments are no callback's while the budget is open: the OEP.      *)
NotACallback(t) == BudgetOpen /\ ~SkipsCallback(t)

(* The OEP is accepted with its fault pending: because its arguments are   *)
(* no callback's, because a pattern was found, or as the address of the    *)
(* fault.                                                                  *)
AcceptOep(t) ==
    /\ Possible(t)
    /\ ~traceMsvc
    /\ WaitReturns(t)
    /\ tlsCounter' = Recounted(t)
    /\ oep' \in IF NotACallback(t) THEN {at[t]} ELSE Rescanned(at[t])
    /\ guardPc' = "oep"
    /\ text' = "open"
    /\ UNCHANGED <<program, tm, byte, saved, stepping, ftm, touches, traceMsvc,
                   retries>>

(* The thread goes on elsewhere, where the next instruction may be bad.    *)
SentTo(t, next) ==
    /\ at' = [at EXCEPT ![t] = next]
    /\ \E b \in BOOLEAN : bad' = [bad EXCEPT ![t] = b]

(* A return address in the Themida section: the OEP is virtualised, the    *)
(* thread is sent back there, until the retries run out and the scan of    *)
(* .text or the last candidate decides.                                    *)
RetryVirtualized(t) ==
    /\ Possible(t)
    /\ ~traceMsvc
    /\ ~NotACallback(t)
    /\ tlsCounter' = Recounted(t)
    /\ retries' = retries + 1
    /\ \/ /\ retries + 1 < RetryLimit
          /\ Serve(t)
          /\ SentTo(t, "shell")
          /\ text' = "noaccess"
          /\ UNCHANGED <<guardPc, oep>>
       \/ /\ retries + 1 >= RetryLimit
          /\ WaitReturns(t)
          /\ oep' \in Rescanned(at[t])
          /\ guardPc' = "oep"
          /\ text' = "open"
          /\ UNCHANGED <<at, bad>>
    /\ UNCHANGED <<tf, fault, plan, blind, tm, byte, saved, stepping, ftm,
                   touches, traceMsvc>>

(* No pattern, an MSVC linker and two recorded accesses: FTraceMSVCOEP,    *)
(* also on the fault that exhausts the retries.  The thread is sent back   *)
(* to its return address, if it has one.                                   *)
EnterMsvcTrace(t) ==
    /\ Possible(t)
    /\ ~traceMsvc
    /\ ~NotACallback(t)
    /\ tlsCounter' = Recounted(t)
    /\ touches = 2
    /\ Serve(t)
    /\ traceMsvc' = TRUE
    /\ oep' = "guess"
    /\ \/ SentTo(t, "shell")
       \/ ~X64 /\ SkipsCallback(t) /\ SentTo(t, "return")
       \/ (X64 \/ ~SkipsCallback(t)) /\ UNCHANGED <<at, bad>>
    /\ text' = "noaccess"
    /\ \/ UNCHANGED retries
       \/ retries + 1 >= RetryLimit /\ retries' = retries + 1
    /\ UNCHANGED <<tf, fault, plan, blind, tm, byte, saved, stepping, ftm,
                   touches, guardPc>>

AccessViolation(t) ==
    \/ OnStorm(t) \/ RearmAfterTls(t) \/ StepPast(t) \/ EnterCallback(t)
    \/ MsvcTraceComplete(t) \/ AcceptOep(t) \/ RetryVirtualized(t)
    \/ EnterMsvcTrace(t)

LoopServes(t) ==
    \/ OnSingleStep(t) \/ OnReturnInt3(t) \/ OnForeignInt3(t)
    \/ OnOther(t) \/ OnEnd(t) \/ AccessViolation(t)

Debugger == \E t \in Threads : LoopServes(t)

GuardFinished == guardPc # "loop" /\ UNCHANGED guardVars

GuardNext == Debugger \/ GuardDebuggee \/ GuardFinished

GuardSpec == GuardInit /\ [][GuardNext]_guardVars

(* The loop serves what is raised, in the order of the port's queue, so    *)
(* that each thread is served, and every thread gets to execute its next   *)
(* instruction, whatever else is reported in between.                      *)
GuardFairSpec ==
    /\ GuardSpec
    /\ \A t \in Threads : WF_guardVars(LoopServes(t))
    /\ \A t \in Threads :
        SF_guardVars(guardPc = "loop" /\ (Fault(t) \/ HitInt3(t) \/ Execute(t))
                /\ UNCHANGED <<guard, loop>>)

-----------------------------------------------------------------------------
(* .text is open under the debug loop only while something is outstanding  *)
(* that closes it: the trap of a stepped access or the end of a callback,  *)
(* whatever other threads fault or trap in between (guard.rs, mod.rs:1473).*)
OpenForAReason == guardPc = "loop" /\ text = "open" => stepping \/ ftm

(* The program's entry point is not executed behind the loop's back: its   *)
(* first instruction faults, and the fault is served as a possible OEP     *)
(* ("Sets .text to PAGE_NOACCESS so writes/executes from the packer        *)
(* trigger access violations that the debugger intercepts", guard.rs:3).   *)
(* The one way past the guard is an instruction of another thread that is  *)
(* being stepped over while the first thread arrives.                      *)
EntryIntercepted == escaped => "race" \in blind

(* An accepted address is the entry point's, unless a pattern or the MSVC  *)
(* trace replaced it (guard.rs branch order, av_handler.rs:709).  A TLS    *)
(* callback is only taken for it when there are more of them than the      *)
(* guess; a callback's body or running code only after .text was open for  *)
(* another thread when a callback or the entry point came, or was closed   *)
(* under a running callback.                                               *)
AcceptedAtEntry ==
    guardPc = "oep" /\ blind = {} =>
        \/ oep \in {"entry", "found", "guess"}
        \/ oep = "callback" /\ begun > TlsTotal

(* The entry point is found: nothing goes past it, and nothing else is     *)
(* taken for it, however much the guess of the number of TLS callbacks is  *)
(* too high (guard.rs:303-305).                                            *)
EntryFound == EntryIntercepted /\ AcceptedAtEntry

(* The int3 at a callback's return site can be undone: while it is planted *)
(* the byte kept for it is the shell's own (guard.rs:430), "the caller     *)
(* should then restore the original byte" (guard.rs:491).                  *)
Int3CanBeUndone == byte = "int3" => saved = "orig"

(* No int3 of the debugger is left in an image that is about to be dumped. *)
NoPatchInDump == guardPc = "oep" => byte = "orig"

(* The patch of the return site does not outlive its use, as long as the   *)
(* guard is not put up under the callback whose return it waits for.       *)
PatchUndone == "undercut" \notin blind => Int3CanBeUndone /\ NoPatchInDump

(* A library's or the shell's access to .text completes: the fault opens   *)
(* .text for exactly that instruction (guard.rs branches 2 and 3), and     *)
(* traps of other threads' accesses, which close it, only delay this.      *)
TouchCompletes ==
    \A t \in Threads :
        <>[](\A u \in Threads \ {t} : ~BeingStepped(u)
                /\ raised[u] # "access_violation")
            => (at[t] \in TouchesText
                    ~> (guardPc # "loop" \/ gone \/ at[t] \notin TouchesText))

(* "When the signature does not match, this is not a callback" (guard.rs:  *)
(* 303): the first fault in .text without a callback's arguments is the    *)
(* program's.                                                              *)
MismatchIsNoCallback == guardPc = "oep" => oep # "body"
=============================================================================
