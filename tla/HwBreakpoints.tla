--------------------------- MODULE HwBreakpoints ---------------------------
(***************************************************************************)
(* The way to the code-section guard: the hardware breakpoints the debug   *)
(* loop moves from CloseHandle to the first word of .text to VirtualAlloc  *)
(* (handle_hw_breakpoint, crates/cli/src/unpacker/helpers.rs), the table   *)
(* of slots and its copies in the debug registers of every thread          *)
(* (crates/core/src/windows_debugger.rs), and the arms of the loop that    *)
(* touch them (crates/cli/src/unpacker/mod.rs).                            *)
(*                                                                         *)
(* The kernel delivers the events of a process in the order in which they  *)
(* were raised, and whether a thread's context may be written is settled   *)
(* when the thread is created.  Events that touch neither the table nor a  *)
(* debug register are left out, and so are the targets that do without     *)
(* this staging (DLLs, Ancient ones) and the MAGICMIDA_NO_CHBP and         *)
(* MAGICMIDA_STUB_TRAP diagnostics.  Traps of guarded accesses, which come *)
(* after the staging, are in TextGuard.                                    *)
(***************************************************************************)
EXTENDS DebugPort, Naturals, Sequences

CONSTANT MaxStrays    \* bound on traps that no breakpoint caused

ASSUME StrayAssumption == MaxStrays \in Nat

Slots == {0, 3}                       \* the slots the unpacker uses
Instructions == {"close", "write", "alloc", "cor"}
Bps == Instructions \cup {"none"}

VARIABLES
    pc,        \* "loop", or how it ended: "mapped" | "dotnet" | "exit" | "failed"
    table,     \* WindowsDebugger.hw_breakpoints
    known,     \* the keys of WindowsDebugger.threads
    bpSet,     \* LoopState.close_handle_bp_set
    guard,     \* LoopState.guard_installed
    classic,   \* themida_version is V1
    dotnet,    \* is_dotnet, and _CorExeMain was resolved
    dr,        \* the debug registers of each thread
    reach,     \* threads whose context can be written
    life,      \* "unborn" | "live" | "dead"
    at,        \* the instruction a stopped thread will execute again
    what,      \* what the event a thread has raised is about
    order,     \* the threads that have raised one, oldest first
    loaded,    \* the loader has raised its initial breakpoint
    written,   \* the shell has written the first word of .text
    passed,    \* milestones the main thread has passed in order
    strays     \* traps that no breakpoint caused

unpacker == <<pc, table, known, bpSet, guard>>
program == <<life, at, loaded, written, passed, strays>>
given == <<classic, dotnet, reach>>
vars == <<portVars, unpacker, program, given, dr, what, order>>

Topics == Instructions \cup {"none", "elsewhere", "load_dll", "create_thread",
                             "exit_thread"}

TypeOK ==
    /\ PortTypeOK
    /\ pc \in {"loop", "mapped", "dotnet", "exit", "failed"}
    /\ table \in [Slots -> Bps]
    /\ known \subseteq Threads /\ reach \subseteq Threads
    /\ {bpSet, guard, classic, dotnet, loaded, written} \subseteq BOOLEAN
    /\ dr \in [Threads -> [Slots -> Bps]]
    /\ life \in [Threads -> {"unborn", "live", "dead"}]
    /\ at \in [Threads -> Instructions \cup {"any"}]
    /\ what \in [Threads -> Topics]
    /\ order \in Seq(Threads)
    /\ passed \in 0 .. 3
    /\ strays \in 0 .. MaxStrays

Empty == [s \in Slots |-> "none"]

(***************************************************************************)
(* The table and its copies.                                               *)
(***************************************************************************)

(* apply_debug_registers_thread for every thread of "who", failures        *)
(* tolerated.                                                              *)
Apply(regs, slots, who) ==
    [t \in Threads |-> IF t \in who \cap known \cap reach THEN slots ELSE regs[t]]

(* The threads set_hw_breakpoint writes to: the main thread alone when     *)
(* this is the only slot in use, which it takes for the first install.     *)
Installed(slots) ==
    IF \E s \in Slots : slots[s] # "none" /\ \A u \in Slots \ {s} : slots[u] = "none"
    THEN {Main} ELSE known

SetBp(slot, bp) ==
    /\ table[slot] = "none"
    /\ table' = [table EXCEPT ![slot] = bp]
    /\ dr' = Apply(dr, table', Installed(table'))

ClearBp(slot) ==
    /\ table' = [table EXCEPT ![slot] = "none"]
    /\ dr' = Apply(dr, table', known)

ReplaceBpOnMain(slot, bp) ==
    /\ table' = [table EXCEPT ![slot] = bp]
    /\ dr' = Apply(dr, table', Installed(table'))

(* clear_hw_breakpoint and then set_hw_breakpoint.                         *)
ReplaceBp(slot, bp) ==
    LET cleared == Apply(dr, [table EXCEPT ![slot] = "none"], known)
    IN  /\ table' = [table EXCEPT ![slot] = bp]
        /\ dr' = Apply(cleared, table', Installed(table'))

(* CREATE_PROCESS has been answered: a .NET target has its breakpoint, and *)
(* the main thread has raised the LoadDll of ntdll.                        *)
Init ==
    /\ raised = [t \in Threads |-> IF t = Main THEN "notification" ELSE "none"]
    /\ pending = NoThread /\ gone = FALSE
    /\ what = [t \in Threads |-> IF t = Main THEN "load_dll" ELSE "none"]
    /\ order = <<Main>>
    /\ pc = "loop" /\ known = {Main} /\ bpSet = FALSE /\ guard = FALSE
    /\ classic \in BOOLEAN /\ dotnet \in BOOLEAN
    /\ reach \in {r \in SUBSET Threads : Main \in r}
    /\ table = (IF dotnet THEN [Empty EXCEPT ![3] = "cor"] ELSE Empty)
    /\ dr = [t \in Threads |-> IF t = Main THEN table ELSE Empty]
    /\ life = [t \in Threads |-> IF t = Main THEN "live" ELSE "unborn"]
    /\ at = [t \in Threads |-> "any"]
    /\ loaded = FALSE /\ written = FALSE /\ passed = 0 /\ strays = 0

(***************************************************************************)
(* The debuggee.                                                           *)
(***************************************************************************)
Report(t, kind, topic) ==
    /\ Raise(t, kind)
    /\ what' = [what EXCEPT ![t] = topic]
    /\ order' = Append(order, t)
    /\ UNCHANGED <<unpacker, given>>

Armed(t, i) == \E s \in Slots : dr[t][s] = i

Runs(t) == CanRun(t) /\ life[t] = "live"

(* The shell is past a milestone once the main thread has executed it      *)
(* after the ones before.                                                  *)
Milestone(t, i) ==
    passed' = IF t = Main /\ passed < 3 /\ i = <<"close", "write", "alloc">>[passed + 1]
              THEN passed + 1 ELSE passed

Executes(t, i) ==
    /\ Runs(t) /\ loaded
    /\ at[t] \in {"any", i}
    /\ i = "cor" => dotnet

Execute(t, i) ==
    /\ Executes(t, i) /\ ~Armed(t, i)
    /\ at' = [at EXCEPT ![t] = "any"]
    /\ Milestone(t, i)
    /\ written' = (written \/ i = "write")
    /\ UNCHANGED <<portVars, unpacker, given, life, loaded, strays, dr, what, order>>

(* An execute breakpoint stops the thread before the instruction.          *)
HitExecute(t, i) ==
    /\ Executes(t, i) /\ Armed(t, i) /\ i # "write"
    /\ Report(t, "single_step", i)
    /\ at' = [at EXCEPT ![t] = i]
    /\ UNCHANGED <<dr, life, loaded, written, passed, strays>>

(* A write breakpoint stops it behind the instruction.                     *)
HitWrite(t) ==
    /\ Executes(t, "write") /\ Armed(t, "write")
    /\ Report(t, "single_step", "elsewhere")
    /\ Milestone(t, "write")
    /\ written' = TRUE
    /\ UNCHANGED <<dr, life, at, loaded, strays>>

(* The first event a thread of the process raises that is neither a module *)
(* nor a thread: no code of the program has run before.                    *)
LoaderBreakpoint ==
    /\ Runs(Main) /\ ~loaded
    /\ Report(Main, "breakpoint", "elsewhere")
    /\ loaded' = TRUE
    /\ UNCHANGED <<dr, life, at, written, passed, strays>>

(* A trap of the shell's own: an int3 or a set trap flag.                  *)
StrayTrap(t, kind) ==
    /\ Runs(t) /\ loaded /\ at[t] = "any" /\ strays < MaxStrays
    /\ Report(t, kind, "elsewhere")
    /\ strays' = strays + 1
    /\ UNCHANGED <<dr, life, at, loaded, written, passed>>

LoadsDll(t) ==
    /\ Runs(t) /\ at[t] = "any"
    /\ Report(t, "notification", "load_dll")
    /\ UNCHANGED <<dr, program>>

(* Debug registers are not inherited: a new thread has none armed.         *)
Starts(t) ==
    /\ life[t] = "unborn" /\ t # Main
    /\ Report(t, "notification", "create_thread")
    /\ life' = [life EXCEPT ![t] = "live"]
    /\ dr' = [dr EXCEPT ![t] = Empty]
    /\ UNCHANGED <<at, loaded, written, passed, strays>>

Ends(t) ==
    /\ Runs(t) /\ t # Main /\ at[t] = "any"
    /\ Report(t, "notification", "exit_thread")
    /\ UNCHANGED <<dr, program>>

Exits(t) ==
    /\ Runs(t) /\ at[t] = "any"
    /\ RaiseExit(t)
    /\ what' = [what EXCEPT ![t] = "elsewhere"]
    /\ order' = <<t>>
    /\ UNCHANGED <<dr, unpacker, program, given>>

Debuggee ==
    LoaderBreakpoint \/ \E t \in Threads :
        \/ \E i \in Instructions : Execute(t, i) \/ HitExecute(t, i)
        \/ HitWrite(t)
        \/ StrayTrap(t, "single_step") \/ StrayTrap(t, "breakpoint")
        \/ LoadsDll(t) \/ Starts(t) \/ Ends(t) \/ Exits(t)

(***************************************************************************)
(* The debug loop: wait_event_timeout with its bookkeeping, and the arms.  *)
(***************************************************************************)
Wait(t) ==
    /\ pc = "loop" /\ order # <<>> /\ t = Head(order)
    /\ WaitReturns(t)
    /\ order' = Tail(order)
    /\ known' = CASE what[t] = "create_thread" -> known \cup {t}
                  [] what[t] = "exit_thread"   -> known \ {t}
                  [] OTHER                     -> known
    /\ dr' = (IF what[t] = "create_thread" /\ table # Empty
              THEN [dr EXCEPT ![t] = IF t \in reach THEN table ELSE @] ELSE dr)
    /\ UNCHANGED <<pc, table, bpSet, guard, program, given, what>>

Answer(t) ==
    /\ ContinueEvent(t)
    /\ what' = [what EXCEPT ![t] = "none"]
    /\ UNCHANGED <<known, at, loaded, written, passed, strays, given, order>>

OnLoadDll(t) ==
    /\ pc = "loop" /\ what[t] = "load_dll"
    /\ Answer(t)
    /\ \/ bpSet /\ UNCHANGED <<table, dr>>
       \/ ~bpSet /\ SetBp(0, "close")
    /\ bpSet' = TRUE
    /\ UNCHANGED <<pc, guard, life>>

OnThread(t) ==
    /\ pc = "loop" /\ what[t] \in {"create_thread", "exit_thread"}
    /\ Answer(t)
    /\ life' = (IF what[t] = "exit_thread" THEN [life EXCEPT ![t] = "dead"] ELSE life)
    /\ UNCHANGED <<pc, table, bpSet, guard, dr>>

InstallGuard == ClearBp(0) /\ guard' = TRUE

(* handle_hw_breakpoint.  Whatever is neither CloseHandle nor VirtualAlloc *)
(* counts as the write while the write breakpoint is in the table.         *)
HandleHwBreakpointForgetting(topic) ==
    \/ topic = "close" /\ classic /\ InstallGuard
    \/ topic = "close" /\ ~classic /\ ReplaceBp(0, "write") /\ UNCHANGED guard
    \/ topic = "alloc" /\ InstallGuard
    \/ topic \notin {"close", "alloc"} /\ ClearBp(0) /\ UNCHANGED guard

HandleHwBreakpoint(topic) ==
    \/ topic = "close" /\ classic /\ InstallGuard
    \/ topic = "close" /\ ~classic /\ ReplaceBp(0, "write") /\ UNCHANGED guard
    \/ topic = "alloc" /\ InstallGuard
    \/ topic \notin {"close", "alloc"} /\ table[0] = "write"
       /\ ReplaceBp(0, "alloc") /\ UNCHANGED guard
    \/ topic \notin {"close", "alloc"} /\ table[0] # "write"
       /\ UNCHANGED <<table, dr, guard>>

(* The breakpoint and the single-step arm.  Only the breakpoint arm knows  *)
(* _CorExeMain.  It is the last event of the loop, and unanswered, when    *)
(* try_mapped_dump takes over for a classic target with a materialised     *)
(* image, or when the context the breakpoint arm rewrites cannot be read.  *)
Trap(t) == pc = "loop" /\ pending = t /\ raised[t] \in {"single_step", "breakpoint"}

DotnetHit(t) == raised[t] = "breakpoint" /\ what[t] = "cor" /\ table[3] = "cor"

OnTrap(t) ==
    /\ Trap(t)
    /\ Answer(t)
    /\ IF DotnetHit(t) THEN ClearBp(3) /\ pc' = "dotnet" /\ UNCHANGED guard
                       ELSE HandleHwBreakpoint(what[t]) /\ UNCHANGED pc
    /\ UNCHANGED <<bpSet, life>>

OnTrapLast(t) ==
    /\ Trap(t) /\ ~DotnetHit(t)
    /\ HandleHwBreakpoint(what[t])
    /\ \/ classic /\ pc' = "mapped"
       \/ raised[t] = "breakpoint" /\ pc' = "failed"
    /\ UNCHANGED <<portVars, known, bpSet, program, given, what, order>>

OnExit(t) ==
    /\ pc = "loop" /\ pending = t /\ raised[t] = "exit_process"
    /\ pc' = "exit"
    /\ UNCHANGED <<portVars, table, known, bpSet, guard, program, given, dr, what,
                   order>>

Loop ==
    \E t \in Threads :
        \/ Wait(t) \/ OnLoadDll(t) \/ OnThread(t)
        \/ OnTrap(t) \/ OnTrapLast(t) \/ OnExit(t)

Next == Debuggee \/ Loop

Spec == Init /\ [][Next]_vars
-----------------------------------------------------------------------------
(***************************************************************************)
(* Properties.                                                             *)
(***************************************************************************)

(* No thread has a breakpoint armed that the table no longer holds, not    *)
(* even one that was created or was stopped at an event of its own while   *)
(* the table changed: clear_hw_breakpoint reaches every registered thread, *)
(* and an unregistered one has nothing armed.                              *)
NoStaleBreakpoint ==
    \A t \in Threads : life[t] = "live" =>
        \A s \in Slots : dr[t][s] \in {"none", table[s]}

(* Only breakpoints of the staging have stopped a thread: a trap of the    *)
(* shell's own, or the hit of _CorExeMain, can be taken for the write.     *)
Undisturbed == strays = 0 /\ ~dotnet

Stage == CASE guard                -> 4
           [] table[0] = "alloc"   -> 3
           [] table[0] = "write"   -> 2
           [] table[0] = "close"   -> 1
           [] OTHER                -> 0

(* Several threads may have hit a breakpoint before the first of these     *)
(* hits is handled, and a late one must not put an earlier breakpoint back *)
(* in the table: the shell has passed that place for good and the guard    *)
(* would never be installed.                                               *)
StagesInOrder == [][Undisturbed => Stage' >= Stage]_vars

(* The main thread never gets past CloseHandle, the write and VirtualAlloc *)
(* without the guard, whichever milestones other threads take away from it *)
(* and although the later breakpoints are installed on it alone.           *)
GuardedBeforeProgram == passed = 3 /\ Undisturbed => guard

(* For the targets that decompress in place the guard is installed only    *)
(* after the shell has written .text.                                      *)
GuardAfterDecompression == guard /\ ~classic /\ Undisturbed => written

(* The guard comes neither too late nor too early.                         *)
GuardOnTime == GuardedBeforeProgram /\ GuardAfterDecompression

(* cli/src/unpacker/mod.rs:686-687: "When the .NET runtime calls           *)
(* _CorExeMain, we dump the process immediately without any import         *)
(* reconstruction."  Violated: the hit of a hardware breakpoint is a       *)
(* single-step event and only the breakpoint arm looks at slot 3.          *)
DumpedAtCorExeMain ==
    [][\A t \in Threads : pending = t /\ pending' # t /\ what[t] = "cor"
          => pc' = "dotnet"]_vars
=============================================================================
