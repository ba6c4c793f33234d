# A TLA+ model of Magicmida-RS

Magicmida-RS unpacks protected Windows executables. A program protected by
Themida is run under the Windows debug API until the shell has decrypted it, is
stopped at its original entry point (OEP), gets its import table rebuilt and is
written to a file; an image packed by UPX is rebuilt from its bytes; a
running or VMProtect-protected image is sampled from memory. This directory
models the parts in which the order of events, or the agreement of two passes
over the same data, decides the outcome.

Everything here is checked with TLC (`*.cfg`) and, where stated, proved with
TLAPS (`*_proofs.tla`). Paths below are relative to `src/crates/`; `PROJECT.json`
lists every component, and for every definition the lines it translates.

## 1. The system

### 1.1 Components, their state and their operations

| Component | Source | State | Operations |
|---|---|---|---|
| Debug port | `core/src/windows_debugger.rs`, `debugger.rs` | the event that was dequeued and not answered; the thread table | `wait_event`, `wait_event_timeout`, `continue_event`, `drain_exit_events`, `Drop` |
| Breakpoints | `core/src/breakpoint.rs`, `windows_debugger.rs` | four slots of hardware breakpoints; DR0-DR3/DR7 of every thread | `set_/clear_hw_breakpoint`, `apply_debug_registers_thread` |
| Debug loop | `cli/src/unpacker/mod.rs`, `helpers.rs` | `LoopState`, `ThemidaState` | one arm per kind of event; `handle_hw_breakpoint`; the scans after it |
| Code-section guard | `packers/themida/src/guard.rs`, `cli/.../av_handler.rs` | protection of `.text` and of the Themida section, `guard_stepping`, `ftm_guard`, TLS counter, saved byte of the return site, storm counter | `process_guarded_access`, `consume_tm_return_int3`, `handle_access_violation` |
| Classic OEP verification | `cli/.../av_handler.rs` | a candidate and a deadline | the 12 s window |
| IAT window | `cli/.../av_handler.rs` | a deadline, the guard of the import table | the 5 s window of an EXE, the settle window of a DLL |
| IAT trace engine | `packers/themida/src/trace_imports/` | `traced_api`, `trace_in_vm`, `did_set_exit_process`, the trash counter, a copy of the table | `trace_imports`, `trace_one_slot` |
| Capture of mapped images | `cli/.../mod.rs`, `helpers.rs`, `pe/src/dumper/mapped_images.rs` | bases seen and dumped, the image that waits, the file numbers, the trap flag | `try_map_scan`, `try_ancient_watch_scan`, `try_v2_watch_scan`, `try_mapped_dump`, `try_exit_dump`, `step_until_in_image` |
| IAT discovery | `packers/themida/src/iat/` | none beyond a call | `determine_iat_address`, `scan_iat_boundaries`, `fix_iat` |
| Import reconstruction | `pe/src/dumper/import_*.rs`, `remote_modules.rs`, `pe/src/import_table.rs` | none beyond a call | exports, forwarders, thunk runs, descriptors, what goes into the slots |
| PE dumper | `pe/src/dumper/`, `pe/src/postprocess.rs`, `pe/src/section.rs` | the section table, `SizeOfImage`, `ImageBase`, `dump_buf`, `out_data` | the steps of `dump_process`: patch, shrink, read, append, trim, write, rebase, pack, build relocations |
| UPX static unpacker | `packers/upx` | none beyond a call | `unpack_static`: header, decode, unfilter, rebuild imports, relocations and resources |
| VMProtect analysis, packer interface | `packers/vmprotect`, `packers/api` | none | verdicts, the carving of payloads |
| Image dump of a running process | `cli/src/dump_image.rs` | the samples in hand | `dump_image`, `dump_image_stable` |
| Command line | `cli/src/args.rs`, `interactive.rs`, `main.rs`, `analyze.rs` | the mode | parsing, the guided mode, the packer gate, dispatch |
| Run job | `run/src/job.rs`, `parse.rs`, `lib.rs` | the child, two reader threads, a waiter thread, a channel, `RunState` | `spawn`, `pump`, `cancel`, `kill_tree` |
| MCP server | `mcp/src/main.rs` | one `JobHandle` per run behind a mutex, a pump thread per run | `unpack_start`, `unpack_status`, `unpack_cancel` |
| GUI | `gui/src/ui.rs` | the job, its status, an offered product | a frame loop: pump, finish, cancel |

Not modelled: process creation, memory access, anti-anti-debug, identification
and post-processing of Themida targets, OEP byte patterns, PE parsing, the
disassembler, the diagnostic binaries (section 5).

### 1.2 How they interact

```
 GUI frame loop --.
                   > Job ---- mida-cli: CommandLine (parse, guide, gate, dispatch)
 MCP pump thread -'  (stderr)     |
    (RunJob)                      |-- UpxUnpack          (static)
                                  |-- DumpImage          (samples a running process)
                                  '-- the debug loop, over one DebugPort
                                        |-- HwBreakpoints            to the guard
                                        |-- TextGuard, ClassicVerify from the guard to the OEP
                                        |-- IatWindow --> TraceImports
                                        |-- MappedCapture --> MappedStep <= StepToImage
                                        '-- at the end, on the frozen image:
                                            IatDiscovery --> ImportRebuild --> PeDump
```

The components under the loop share one thing: the event that was dequeued
last. Windows delivers nothing and lets nothing run while an event is
unanswered, and refuses an answer in the name of a thread that is not owed one.
Every engine is entered with an event pending, and must leave it as its caller
expects; nothing in the types says who owes the answer.

Discovery and reconstruction share the import table: what discovery takes for
a slot, reconstruction must describe, and what it leaves out, nobody touches.
The front-ends see a run through the lines of a log and an exit code, carried
by three threads: reader, waiter and pump.

### 1.3 What is hard

* **Ownership of the pending event** across the engines and their callers.
* **Other threads of the debuggee**: every engine follows the main thread and
  meets the events of the others at any moment.
* **Protections, flags and patches that must be undone**: `.text` is opened for one
  instruction, an int3 is planted at a return site, the trap flag is left on by
  the stepping; what undoes them is an event that may be taken for another, or
  a fault of the debuggee's own that has nothing to do with the guard.
* **Breakpoints that are copies**: a table, and debug registers per thread that
  are written without being read.
* **Images that come and go** while several scans look for them, each with a
  memory of its own.
* **Guesses**: the number of TLS callbacks, the size of the import table, when a
  pattern is the OEP, when a process has settled.
* **Ends**: time limits, step limits, visited sets and storm limits are all that
  ends a shell, or a search, that never gets anywhere.
* **Coordinates**: a section is at one place in memory, at another in the
  product, at a third in the file; an import is a slot, a thunk in a run and an
  entry of a directory. Each pass takes what an earlier one left for granted.
* **Two lists of checks** that must agree: the guided mode's and the gate's, the
  packer's and the unpacker's, the writer's and the Windows loader's.
* **Three threads between a process and its verdict**: the exit code and the
  last line travel separately.

### 1.4 What makes each component correct

* Port: at most one event is pending, and the debuggee is frozen until it is answered.
* Breakpoints: no thread has a breakpoint armed that the table has dropped; the
  staging goes forward only; the guard comes after the decompression and before
  the program.
* Guard: `.text` is open only while something is outstanding that closes it; the
  entry point is intercepted, unless another thread had `.text` open; what is
  accepted is the entry point; patches are undone; an access that is let through completes.
* IAT window, stepping, tracing: each hands over the event its successor
  answers; a slot gets only what its own trace reached; each ends.
* Capture: an image that is there at the end is dumped; no snapshot overwrites another.
* Imports: the search ends and what it finds holds an import; stubs of the
  neighbourhood are not lost; the directory leads the loader to the functions the
  slots held, in the slots they were held in, and touches no other slot.
* Dumper: the sections of the product follow one another in memory and share no
  bytes of the file; only zeroes are dropped; the import slots hold what the
  rebuilt imports expect; pointers, `ImageBase` and relocation table agree.
* UPX: what the packer's filter, codes and tables encode is what comes back.
* Image dump: a settled image was one moment of the process; a sample in hand is written.
* Command line: what the guided mode shows and suggests is what the program accepts.
* Job and front-ends: success needs exit status 0; an answer that says *done* is
  complete; calls are answered; cancelling ends the run; no child outlives an idle server.

## 2. The modules

| Module | Models | Shape |
|---|---|---|
| `DebugPort` | the debug API as `windows_debugger.rs` uses it: `raised`, `pending`, `gone` | operators used by the others: `Raise`, `RaiseExit`, `WaitReturns`, `WaitFails`, `ContinueEvent`, `ContinueRefused`, `Serve` |
| `HwBreakpoints` | slots, debug registers and the staging CloseHandle → write of `.text` → VirtualAlloc → guard | one action per arm of the loop, `HandleHwBreakpoint`; the kernel's queue in `order` |
| `TextGuard` | the guard, TLS callbacks, the int3 at the return site, the storm limit, the retry and MSVC modes, acceptance of the OEP, under several threads with faults of their own | one action per branch of the fault handler |
| `ClassicVerify` | the candidates of a Themida 1.x target and their verification window | the branches before the window, its rounds |
| `IatWindow` | what follows an accepted OEP: locating the table, the window of an EXE, the settle window of a DLL | deadline as a budget of rounds, one action per branch |
| `TraceImports` | the slot loop and the event loop of the trace engine | one action per classification and per kind of event |
| `MappedStep` | what an attempt to step into a mapped image promises the loop: a product or a fallback, the loop's event kept or lost | abstract; 3 variables |
| `StepToImage` | `step_until_in_image` and the end of `try_mapped_dump` | one action per arm; implements `MappedStep` |
| `EngineChain` | `StepToImage`, `IatWindow` and `TraceImports` on one port, in the order a run comes through them | the composition: `OepAccepted` and `TraceBegins` lead from one to the next |
| `MappedCapture` | every scan of the loop for images the shell materialises, up to the verdict on the run | one action per scan and arm; the attempt is `MappedStep`'s |
| `IatDiscovery` | the search for a reference, the boundaries of the table, the classification of slots, the V1, V2 and V3 repairs | a state machine of passes, each a definition over the code or the table |
| `ImportRebuild` | from slots to thunk runs, descriptors, hints and slot contents | definitions over a table and a set of exports |
| `Imports` | `IatDiscovery` up to the end of the repair, then `ImportRebuild` | the composition: actions `Dump` and `Build` |
| `PeDump` | the layout of the product through all of `dump_process` | one action per step: `PatchHeader` … `Save` |
| `CommandLine` | parsing, the guided mode and the line it shows, the verdicts of three packers, the gate, dispatch and exit status | actions of the user and of the program |
| `UpxUnpack` | the phases of `unpack_static`, the match codes of NRV2B/D/E, the call filter, the rebuilt directories | definitions, and one action per phase |
| `DumpImage` | the sampler and its criterion of stability, the payloads carved from a sample | page by page against a process that writes and ends |
| `Static` | a guided command, the gate, and the path it leads to: `UpxUnpack` or `DumpImage` | the composition |
| `RunJob` | a run under either front-end | one action per step of each thread |

`MCMappedCapture`, `MCImports` and `MCStatic` give the
constants that a `.cfg` cannot express; the other modules are instantiated by
their `.cfg` directly. `MCMappedCapture` declares the two image bases symmetric: it checks
safety only, and no definition distinguishes them. `X_proofs` holds the theorems of `X`,
`PortEngines_proofs` those of `TraceImports`, `IatWindow`, `StepToImage` and `TextGuard`; all others stand beside their
composition. `DataInduction` has the lemmas in place of induction theorems.

**Abstract and detailed.** `MappedStep` is the specification the debug loop is
written against; `StepToImage` states its refinement as `KeepsItsPromise ==
INSTANCE MappedStep WITH ...`, checked in `engine_chain` and proved. `MappedCapture`
uses the abstract attempt in place of the detailed one, so that its states
are not multiplied by the stepping's rounds.

**Abstractions.** An address is what the code compares it with: an instruction
is `"close"`, `"write"`, `"entry"`, `"library"`, not a number. Instructions, slot
contents, stubs and pages are of a few kinds, those the code tells apart; modules,
functions and names are numbers. Wall-clock limits are budgets of rounds.
A log line is one of the four classes the parser draws a verdict from.
In `TextGuard` every instruction may, besides what it is, access memory that is not
there (`bad`): an access violation meant for the debuggee's own handlers. The loop answers it as
handled, so that no handler sees it and the instruction is executed again; only another
thread can make it succeed (`Repair`). TLS callbacks and the entry point are called by the main thread.
In `TraceImports` the class of a slot is an input that ranges over
the results of `Classify` of `IatDiscovery`. In `Imports` the table that is read
for the dump is independent of the one discovery ended with: the shell and the
trace engine have written to it in between, so it may hold anything.
In `PeDump` sizes are counted in units, two to a `FileAlignment`, and the content of
a unit is where it came from; what the scans and builders compute from bytes
(the sizes of `.pdata`, of the imports and of the relocation table) is input.
Captures that are switched on by environment variables are left out.

**The debuggee** is the environment. It raises any event from any thread that
is not stopped, within what the code around the modelled part establishes.
Assumed of Windows: one event per stopped thread, nothing runs while one is
pending, events of a process are delivered in the order they were raised
(`HwBreakpoints`), debug registers are not inherited by new threads, the right
to write a thread's context is settled when it is created, reading and writing
the context of a live main thread succeeds (`MappedCapture`).

**Mutants.** For each checked property a module contains a definition with a
plausible bug, such as `ReplaceBpOnMain`, next to the real one and used by
nothing; exchanging the two makes TLC refute the property. The mutant of a
conjunction breaks one of its parts.

## 3. What is checked

### 3.1 Passing runs

| Run | Distinct states (about) | Shows |
|---|---|---|
| `engine_chain` | 251 000 | of the stepping `KeepsItsPromise` (it implements `MappedStep`) and `SteppingEnds`; of the window `Handover` (`HandsOverTheEvent`, `ForeignEventStays`, `StopsAtFirstQuietRound`) for EXE and DLL, and `WindowEnds` under a storm of faults; of the trace `NoStaleApi`, `EventProtocol` (`AnsweredBeforeWaiting`, `EventHeldBetweenSlots`), `OneExitProcess`, `StopsOnlyPastTheTable`, and `EngineEnds` although a worker may raise events for ever |
| `text_guard` | 3 510 000 | `OpenForAReason`, `EntryFound` (`EntryIntercepted`, `AcceptedAtEntry`), `PatchUndone` (`Int3CanBeUndone`, `NoPatchInDump`), with two threads, faults of the debuggee's own, DEP on and off |
| `guarded_touch` | 274 000 | `TouchCompletes`, with two threads and faults of their own |
| `hw_breakpoints` | 843 000 | `NoStaleBreakpoint`, `GuardOnTime` (not after the program, not before the decompression), `StagesInOrder` |
| `run_job` | 207 000 | `VerdictIsTrue` (`SuccessNeedsExitZero`, `DoneCarriesVerdict`, `FalseFailureOnlyOnALateLine`), `IdleServerTakesTheRunWithIt`, `CallsAnswered`, `CancelEnds`, under either front-end |
| `mapped_capture` | 2 338 000 | `LastChanceTaken`, `SnapshotsKept`, for the shells V1, Ancient and V2 and images that appear, fill, are wiped and go |
| `imports` | 1 069 000 | of discovery `SearchFindsAnImport` (`SearchIsBounded`, `ReferenceHoldsAnImport`), `NeighbouringStubsKept`, `TableIsTight` (`TableInsideRead`, `GapsInTableAreShort`); of reconstruction `LoaderFindsTheSame`, `ThunksInTheirSlots`, `DenseTablesAreRead`, `UndescribedUntouched` |
| `pe_dump` | 293 000 | `ProductIsWhole` (`TypeOK`, `ImageIsContiguous`, `FileRangesDisjoint`, `ReservationHolds`), `NothingLost` (`DataReachesFile`, `ImportsInPlace`), `PointersFollowTheBase64`, on every image of up to two data sections |
| `static` | 855 000 | of the command line `CommandsAreReadBack` (`RequestArrives`, `ShownLineIsTheCommand`), `SuggestionPassesTheGate`; of UPX `EveryMatchHasOneCode`, `UnfilterRestores`, `TablesReadBack` (`ImportsLeadToNames`, `RelocsReadBack`, `ResourcesReadBack`); of the sampler `SettledIsASnapshot`, `SampleInHandIsWritten` |

Each property is stated in words above its definition. `LoaderFindsTheSame`,
`UnfilterRestores` and `TablesReadBack` compare with a reference: what the
Windows loader's walk finds, what the packer's filter produced, what the packed
tables said.

### 3.2 Bounds

In parentheses the value of the code.

| Run | Constants | Why enough |
|---|---|---|
| `engine_chain` | main and one worker. Stepping: `MaxSteps` 3. Window: 3 rounds (50, 450 or 20). Trace: 3 slots, every assignment of the five classes; `TrashThreshold` 1 (64), `TraceLimit` 3 (500 000), VM window 1-3 (100-5000) | the first round of the stepping, which answers the loop's own event, one like all later ones, and the last; in the window a quiet round, a foreign event or a fault can come first, in the middle or last; a run of garbage longer than the threshold fits with a slot on either side of it; two slots can both reach the VM, one after the other; a trace can end before, in and after the VM window and at its limit |
| `text_guard` | x86, main and one worker, DEP on or off; up to 2 callbacks against `TlsTotal` 1 (4, when it is a guess); storm limit 2 (1024), retry limit 2 (64) | no callback, as many and more than the budget; each thread can fault, be stepped, trap and fault on its own at every point of the other's path; a streak that is broken and one that is not |
| `guarded_touch` | x86, main and one worker, no callbacks, no retries, storm limit 2 | one thread's access is opened, trapped and closed while the other's is at any point; the entry point, which ends the loop, can come at any time |
| `callback_fault` | x86, one thread; up to 2 callbacks against `TlsTotal` 2; storm limit 3, retry limit 2 | one callback with one fault of its own is enough |
| `hw_breakpoints` | 3 threads of any rights, one stray trap, any number of modules loaded | a late hit on one worker while another and the main thread are at later stages; threads born and ended in between |
| `run_job` | one line of noise, 2 drain rounds (50) | a line before, between and after the ones that matter; one drain round that finds nothing and one that does |
| `mapped_capture` | 2 bases, `SnapshotCap` 2 (64) | one image waits, is dumped or wiped while another comes; the cap is reached, and one more catch comes after it |
| `mapped_numbering` | the V2 shell, 2 bases | two candidates in one scan |
| `imports` | code of 3 instructions; slots 1, 3 and 4, of which 1 lies in a gap; reads of 4 or 7 slots with `Lead` 3 (1280), `MaxSlots` 7 (5120); `DelphiSkip` 2 (3), `FollowDepth` 2 (32), `InstrLimit` 3 (200); `ZeroRun` 1 (64), `BackwardCap` 2 (512), `ForwardGap` 1 (48), `BackwardGap` 1 (64), `EarlierGap` 2 and `BackwardHead` 4 (0x800 and 0x1000 bytes); 3 modules, 8 sets of exports, `TableSlots` 4, `MaxGap` 2 | calls that form a cycle and that exceed the depth; a head, a run of padding, a gap, and a block behind them around the reference, each at its limit and past it; a module with one, two and no slot, in one run and in two, an address with two names, a forwarder to another module's export of the same name, a stub, an address nobody exports |
| `pe_dump` | `FA` 2 (0x200), `SA` 4 (0x1000), `Huge` 12 (1 MiB), `Reserve` 8; code, one or two data sections, with or without a shell section last; sizes 3 and 18, data of 1 unit or all of it | 18 is more than `Huge` and no multiple of `SA`, 3 no multiple of `FA` and less than `SA`: a section can be trimmed or not, before, behind or between others; a `bss` section of 18 leaves a gap the packing closes. A payload is smaller or larger than what was set aside for it |
| `static` | command lines of up to 2 typed tokens of 13, behind the command and its operand; section sets of the three packers with what makes each uncertain; code of 7 bytes of which 4 kinds; up to two DLLs of up to 3 functions, three relocations, three levels of resources; pages of 16 and a cap of 44 (0x1000, 0x10000000); 3 pages, 3 samples, three forms of a page | an option with and without its operand, twice, and unknown; a call at, before and behind another, and an escape; a block of relocations that is padded and one that is not, a delta that is extended; a process that changes or ends before, within and between two samples |

### 3.3 Fairness

* `engine_chain`: the steps of whichever loop is running, and the two that lead to the next
  loop, are weakly fair: it is one sequential program. Of the debuggee nothing is assumed
  while it is stepped (a quiet wait ends the stepping) or in the window, except that time
  passes there (the deadline is read from a clock). While the table is traced the main thread's steps and their
  delivery are strongly fair: the scheduler runs it and the queue reaches it however many events
  a worker raises. So is the failure of a wait that finds nothing.
* `guarded_touch`: weak fairness of the loop's service of each thread (events are delivered in
  order, so that none waits for ever), strong fairness of each thread's next
  instruction, whatever other events are reported in between. `TouchCompletes` itself supposes that the other thread
  at last leaves `.text` alone: two threads that fault in turn can close it on each other for ever.
* `run_job`: weak fairness of each thread and of the exit of a child that
  has logged its last line. `PumpLine` is strongly fair: the pump takes a mutex
  that a polling client also takes again and again. The child's work need not
  end, and a client need not call.

`text_guard`, `hw_breakpoints`, `mapped_capture`, `imports`, `pe_dump`, `static` and the
violation runs check safety only, without fairness. The debug loop has no time
limit of its own, so nothing makes a capture come about; and the passes of the
rest are bounded by their data. Deadlock is not checked in `run_job`, `hw_breakpoints`,
`pe_dump` and `static`, which stop when the run, the dump or the command is over.

### 3.4 Where the code and its own statements disagree

Three are runs of their own, whose one property TLC refutes.

| Run | Statement | What happens |
|---|---|---|
| `classic_verify` | `av_handler.rs:534-536`: a candidate is verified by what it does when it runs (`VerifiedByRunning`) | the fault that stopped it is not answered: the window watches a frozen process and accepts |
| `mapped_numbering` | `mod.rs:2096-2097` "Use numbered filenames so multiple candidates in one run are all preserved" (`CandidatesKept`) | the number is the size of a set, read once before the loop that adds to it: the second candidate of a scan overwrites the first |
| `callback_fault` | `guard.rs:302-303` "When the signature does not match, this is not a callback — fall through to branch 6 and let the caller treat it as the OEP" (`MismatchIsNoCallback`) | an access violation of a running callback's own closes `.text` under it (`guard.rs:187`, called for every access violation at `av_handler.rs:390`); the refetch has no callback arguments and the callback's body is accepted as the OEP, with the int3 still planted at its return site |

The rest was met while modelling. A name in `code` is a definition that is in the
module for this purpose: made an invariant, TLC refutes it.

Debug loop and engines:

* `OtherThreadsResumed`: `helpers.rs:663` "Events from other threads are resumed
  immediately". They are, and the next round answers in the target's name again,
  which is refused and ends the stepping.
* `DumpedAtCorExeMain`: `mod.rs:686-687` "When the .NET runtime calls _CorExeMain, we
  dump the process immediately". The hit is a single-step event, and only the
  breakpoint arm (1312) looks at slot 3.
* The IAT window (`av_handler.rs:1147`, "for 5 seconds") ends at its first quiet
  100 ms wait, or at the first event of another thread; `Handover`
  states what happens instead. It never opens the guarded
  table, so a program that touches it makes no progress until the deadline.
* The settle window of a DLL waits before it has answered the fault at the OEP:
  nothing can run and nothing is reported in its 2 s. The source says that it has no
  effect (130-159), not why.
* `classic_rejected` and `classic_pending_ret` are read in four places and assigned
  in none: a rejected candidate is verified again, and the probe of a
  return address is never armed.
* A quiet wait of `step_until_in_image` ends the stepping (`helpers.rs:685`), and
  after that the loop's own answer (`mod.rs:2361`) is refused. It answers first-chance
  exceptions of the main thread as handled.
* `.text` is one section for all threads. Opened for one thread's access, it lets another execute
  the entry point or reach a callback unseen (`Races`); closed by one thread's trap or
  fault, it is closed under a callback the main thread is running (`Undercuts`), whose int3 is
  then still planted when its body is taken for the OEP, or is planted over itself (`guard.rs:430`).
  The history variable `blind` records both, and `EntryFound` and `PatchUndone` say
  that nothing else defeats the guard.
* On x64 there is no callback signature: with a budget above the number of callbacks the
  entry point is counted as a callback and `EntryFound` fails. The code opens a budget
  there only for a callback array it can read on disk (`init.rs:290-294`).
* `guard.rs:169`, "Temporarily restore full access so the faulting instruction can
  complete": with DEP the return of a TLS callback faults on the Themida section,
  which never gets its execute right back, and storms. `TouchCompletes` is
  about accesses to `.text` only.
* Faults that alternate between two addresses, or two threads, never reach the storm limit.
* `set_hw_breakpoint` takes every breakpoint that is alone in the table for "the
  very first install" and writes it to the main thread only, not "the rest of
  the threads … on subsequent install" as its comment says.
  `GuardOnTime` holds nevertheless, because the main thread has it.
* Any trap that is neither CloseHandle nor VirtualAlloc is taken for the write
  while the write breakpoint is in slot 0, and may bring the guard before the
  decompression; the staging properties therefore exclude stray traps.
* `apply_debug_registers_thread` never closes the handle it opens;
  `disable_hw_breakpoint` and `reset_hw_breakpoints` are never called.

Capture of mapped images:

* `WrittenDumpSucceeds`: `mod.rs:2141-2142` "Returns `true` when the dump was written
  and the caller should `break`". The phases after the loop ask for an OEP (2475)
  that this path never sets, so the run fails.
* `ImportersExcluded`: images with "a real import directory" are to be skipped
  (1104-1106, 1733-1735); the field read is directory 0, the exports
  (`mapped_images.rs:225-228`; `dumper/helpers.rs:40` has the right number).
* `ScanDumpReplaced`: an early dump of an Ancient shell is to be overwritten by
  the one at ExitProcess (1769-1775), which does not happen while the first one waits.
* The image that waits is not looked at again: it may be gone when the breakpoint
  comes, and is never dumped if none does.
* Comments and code differ: "import_rva==0 OR ep==0" (1551-1552, 1799-1800) and the
  AND of 1850-1851; "the canonical raw.bin is overwritten each time" (1888-1889), where
  only numbered files are written; the watch is "armed at the CloseHandle hit"
  but at CREATE_PROCESS (601-605); the V2 watch runs "after EVERY debug event" (2015)
  but in the timeout arm only (418); the scans are said to see a frozen process
  and run after `continue_event` (1678-1685); "2 s-gated" and 500 ms (1698, 1712).
* `v2_dll_bases` keeps the base of a DLL that was unloaded.

Imports:

* `EntryBehindPaddingKept`: `boundaries.rs:203` "the start is the first slot after
  it". The code adds one too many, and the first entry behind a run of padding is lost.
* `OrdinalsSurvive`: an export without a name becomes the name `#n`
  (`import_table.rs:18`), by which no loader finds it.
* A dense `FirstThunk` is taken for granted of tables the regrouping has not made
  dense, and a terminator can be written over a slot that was not resolved.
* `fix_iat_v1` takes whatever a slot holds for a jumper (`fix.rs:24-30` promises
  less); `fix_iat_v2` gives up all slots when one stub cannot be read.
* `find_earliest_iat_ref` reads every operand as RIP-relative, on x86 too;
  the clamp of the head never applies; `gap_is_all_zeros` is never true, and the
  fallback for a table without blocks always ends in *not found*.
* On a relocated x64 image every pointer into the image passes for an API address.
* `build_import_table_from_original` has the 64-bit layout built in; the thunks of
  the fallback have the address 0; names are not in lower case as `types.rs` says.
* `fixup_api_call_sites` is called for x86 only and looks for the x64 form; it
  takes sites six bytes apart and writes seven.

Dumper:

* `PointersFollowTheBase`, for x86: `header_patch.rs:64` "Restored ImageBase … (will
  patch absolute addresses)". `postprocess.rs:109` converts a slice of `ptr_size` bytes
  to `[u8; 8]`, which fails for four: nothing of a 32-bit image is rebased.
* A kept section that is the last one, loses its trailing zeroes and has a size that
  is no multiple of `SectionAlignment`: what was appended was placed behind it
  rounded to `FileAlignment` (`create_section_index`) and moves down by its size
  rounded to `SectionAlignment` (`trim_huge_sections`), onto its data. And a huge
  section behind a trimmed one is searched for zeroes at its new file offset, in
  a buffer that is indexed by addresses. `TrimmedWell` names the two cases
  and excludes them from three properties; without it TLC refutes them.
* `trim_huge_sections` judges the appended sections too, by `dump_buf`, which has nothing of
  them (*past the buffer — treat as zero*, `section.rs`): a `.pdata`, `.import` or
  `.reloc` of more than 1 MiB is taken for zeroes, and its `SizeOfRawData` becomes 0 or
  what lies at its offset by chance. `TheProductIsWhole` needs `NothingAppendedIsHuge` for that reason.
* `shrink_sections` moves the kept sections down and `dump_buf` is read at the new
  addresses: right only if what was removed came last, as `build_pdata_payload`
  says it does. With `ShellLast = FALSE`, `DataReachesFile` fails.
* The size of the relocation table is estimated with file offsets over the memory
  image; `normalize_tls_directory` hands an address to a function that takes an
  RVA; after a shrink the dump is never seen to have relocations; `dump_dotnet`
  appends the headers at the end; a .NET run logs `Done.` even if nothing was dumped.

Static tools and command line:

* `ShownLineIsTheCommand` with a name in `Spaced`: the line "you can paste"
  (`interactive.rs:16-18`) does not quote names with spaces (339-372).
* The guided mode says that `q` leaves, but a `q` at the second question is a path;
  it suggests `analyze --extract` for files it cannot classify, where that fails;
  it suggests a live run for a Themida file that is entered in its first section,
  which `init_pe_details` refuses.
* `--packer vmprotect` sends a file with UPX's marks down the live branch; *auto*
  takes any PE whose entry is not in its first section for Themida's (`args.rs:12`).
* `analyze.rs:103` "this should be impossible" is where a file with `UPX0` alone ends up.
* Two payloads of one name overwrite each other (`analyze.rs:292`, `dump_image.rs:571`).
* `LastCompleteImage`: what is written when the process goes (`dump_image.rs:742`) may
  be a sample it did not live to the end of.
* `DirectoriesHonoured`: the number of directories is read at the offset PE32+ has it,
  in PE32 files too (`unpack.rs:168`); `RELOCS_STRIPPED` never reaches the file (286-291).

Front-ends:

* `NoOrphans`: `mcp/src/main.rs:1111` "Do not leave orphaned CLI children behind when
  the client disconnects". A client that disconnects while a call is being answered
  makes the write fail; `main` returns by `?` (1105) before the children are killed.
* `DrainedBeforeTheReport`: `mcp/src/main.rs:366-367` says the last line is parsed "before we report
  finished". The exit code is published one line earlier, and is all a status call waits for:
  an answer in between says of a run that succeeded that it is done and has failed.
  `DoneCarriesVerdict` says what an answer does guarantee, and `FalseFailureOnlyOnALateLine` what
  remains after the drain: the job is dropped some time after the last look
  into its channel, 10 ms in the server, and a line sent in between is lost.
* The GUI accepts a product on disk in place of the `Done.` line and the MCP server
  does not, so that they can disagree about one run.

## 4. What is proved

`tlapm` checks every proof. The theorems hold for every value of the constants
that satisfies the assumptions of the modules: `PortAssumption` (the main
thread is a thread, "no thread" is not) and per module that its bounds are
natural numbers, `StormLimit` greater than 1, `DrainRounds` at least 1, and `ApiTag` no slot.
`CaptureAssumption` asks for a finite set of bases, `SamplerAssumption` for at
least one page, `DiscoveryAssumption` for code that
is not empty and for limits in the order the code gives them (a run of zeroes shorter than the
walk back, the walk back half of what is read before the reference),
`DumpAssumption` for alignments
of which one divides the other, headers within the first page, `FileAlignment` at most `Huge` and a
provisional size of `.import` below the final one,
`ImportAssumption` for lists of imports whose names fit into the places the packer has set for them,
`TreeAssumption` for trees of three levels, types, names and languages,
`FilterAssumption` for a byte of at least 16 values and code within a
displacement's reach, `RelocAssumption` for a page of at least one byte and deltas that are numbers, `RebuildAssumption` for finitely many modules and exports, for no
export at address 0, for one export of a name in a module and for one stub per target. TLC evaluates them all in the runs.

| Module | Theorems | Argument |
|---|---|---|
| `PortEngines_proofs` | of `TraceImports`: `TypeCorrect`, `OnlyItsOwnApi`, `EventsAnsweredInTurn`, `ExitProcessOnce`, `GivesUpBehindTheTable` | three invariants on top of the types. `PortInv`: an event is held at each slot boundary. `ApiInv`: nothing has been reached while a slot is being traced, which is why a stale API cannot be adopted. `TrashInv`: the counter counts the garbage slots right before the present one |
| | of `IatWindow`: `WindowTypeCorrect`, `WindowSafety` (`Handover`) | `WindowInv`: between two waits the main thread's event is pending unless a wait was quiet, failed, or returned another thread's |
| | of `StepToImage`: `StepTypeCorrect`, `StepKeepsItsPromise` (`StepSpec => KeepsItsPromise`) | `StepInv`: whose event is pending at each point, and for each way out why. With it every step of the stepping is a step of `MappedStep` or leaves its variables alone: the refinement, for every number of threads and rounds |
| | of `TextGuard`: `GuardTypeCorrect`, `OpenOnlyForAReason`, `FindsTheEntry`, `UndoesThePatch` | `BelowLimits` makes the types inductive; `SharedInv` is what holds of the threads together, `EntryInv` what tells the entry point; see below |
| `HwBreakpoints_proofs` | `TypeCorrect`, `NoStale`, `GuardInTime`, `StagesKeepTheirOrder` (an action property) | see below |
| `Imports_proofs` | of the discovery: `LocatedTableIsTight`, `StubsAreKept`, `TheSearchFindsAnImport` | see below |
| | of the rebuild: `ThunksAreInTheirSlots`, `UndescribedStays`, `DenseDescriptorsAreRead`, `TheLoaderFindsTheSame` | see below |
| `MappedCapture_proofs` | `CaptureTypeCorrect`, `TakesTheLastChance`, `KeepsSnapshots` (an action property) | `NumberFree`: an Ancient shell's numbers are taken in order by its own watch only, so that the next one is free. `LeftForAReason`: a loop that has been left does not go on, and the debuggee is held, so that what was there at ExitProcess is there at the end |
| `PeDump_proofs` | `LayoutStands`, `TheImageIsContiguous`, `TheProductIsWhole`, `WhatWasInMemoryIsThere`, `PointersAreOfOneBase` | four invariants: `LayoutInv` of the virtual addresses, `RoomInv` of the file, `ImageInv` of what the product has of the debuggee, `ContentInv` of the units of the file; see below |
| `FrontEnds_proofs` | of `Static`: `SettledWasOneMoment`, `WritesTheSampleInHand`, `CommandsReadBack`, `SuggestionsPassTheGate` | see below |
| | of `RunJob`: `TypeCorrect`, `TheVerdictIsTrue`, `IdleServerEndsItsRun` | `JobInvariant`: `CodeInv` relates exit code, parser and verdicts, `LineInv` says where a line that was written is, `AnswerInv` what an answer holds at each of its three reads. For the verdict: a last line that was sent is in the channel, parsed, or `late`, and nothing is thrown away before a look has found the channel empty |
| `UpxUnpack_proofs` | `TheFilterIsUndone`, `CodesAreUnique`, `BlocksReadBack`, `ImportsReadBack`, `TreesReadBack`, `CountedAsBuilt`, `TablesAreReadBack` | see below |
| `DataInduction` | `Least`, `MinOf`, `MaxOf`, `UpFrom`, `Recursion`, `RunsAgree` | see below |

`HwBreakpoints` needs the longest argument. That a late hit cannot put an earlier stage
back is no property of one step: it depends on what other threads have raised
and in which order. `QueueInv` says the queue holds each stopped thread once.
`RegsInv` says no live thread has armed what the table does not hold, and
unregistered or unwritable ones have nothing armed; so only the breakpoint of
the present stage can be hit, and hits are queued in the order of the stages:
`OrderInv`. When a hit is taken from the head of the queue, nothing of an earlier
stage is behind it, which with `StageInv`, the stages at which each kind of hit
can still be on its way, gives the three milestone properties.

`TextGuard`: any number of threads share the section, and any of them may fault on its own at any point.
`SharedInv` is what no thread can disturb: other threads than the main one never execute in `.text`
(`OthersOutside`), an open section is that of a callback or has a trap outstanding that closes it (`TrapOutstanding`),
a thread that ran into the int3 waits for the loop (`ReturnAwaited`), and a planted int3 has the shell's byte kept for it
and a callback on its way to it (`PatchPlanted`), unless the guard went up under that callback.
`UndoesThePatch` follows with no hypothesis. `EntryInv` adds what the main thread's place in
`.text` tells (`PlacesExplained`): running code has passed the entry point, the body of a callback is executed in the callback
mode, unless `blind` says how it was left early. `CallbacksCounted` relates the budget to the callbacks the
shell has called, so that a callback that finds the budget used up is one more than the guess.
`FindsTheEntry` needs `SignatureOrNoBudget`: on x64, where nothing tells a callback, there is no budget.

`Static`, the sample in hand: the history variable `taken` is the last sample that was read to its end.
`TakenIsKept` says where the dump has it: it is the present sample until that has been compared and the previous one from
then on, through all samples that begin, fail or end early after it. So a dump that fails never
had one, and what is carved is that one (`WritesTheSampleInHand`).

`Static`: two equal samples could each be a mixture of moments. `BehindEachOther` says
that they are not: while the process lives its pages only go forward, so that the
previous sample is at most what was there between the two, and that at most the
present sample. If the samples are equal, both are what was there in between.
The theorem is about `Static`'s `Spec`, for any number of pages, any payloads and
any limit on the samples; a process that writes an earlier value back is outside it.

**Induction over data.** The induction theorems of the library take an operator as
a parameter, which no installed prover can instantiate. `DataInduction` states what
is needed about sets in place of predicates: a non-empty set of
naturals with a bound has a `Least` element; a set that has `a` and with each
number the next has all (`UpFrom`). A recursive function is defined on an initial
segment; that a function iterates a step up to any length is `Recursion`, by `UpFrom`
over the set of lengths for which there is one.

`Imports_proofs`: the boundary walks of the table end at the first slot at which they
could, `WalkStops` and `WalkStarts`, and a block of the table is a run of valid slots between
two that are not, `BlockShape`; `TableInv` carries what `Bound` found to the end of
the repair. `SearchInv` says that the code is as the program has it until a reference
is settled on, and that what is settled on holds an import. That the search of the
code ends at all is a count: every instruction it decodes is decoded in a frame that has
not been there before (`DecodesNew`), and there are at most Text * (Text + 1) of these.

`Imports_proofs`, the rebuild: `RebuildInv` carries four facts through the vote, the regrouping,
the normalisation and the writing. `IsBuilder` says that the modules own
disjoint sets of slots: without it the order in which the modules are written would
decide what a slot holds. `Gathered` says that during the vote only slots before the one that is
voted on next are owned, which is why a later group cannot claim a slot of an earlier
one, and that those of them that some module exports all are. `Clustered` says what `normalize_module_runs` leaves: each descriptor is a maximal run of the slots
that had a thunk, so that the slot behind it is nobody's and a terminator can be
written there. `Written` says that it was, and that a slot nobody took still
has its address: it is no terminator's place either, since what
follows a run and has an export would have got a thunk in the vote, or lies in a
run that was dropped whole. `ThunksAreInTheirSlots` is
the end of that argument, `UndescribedStays` uses the maximality of
the runs, and `DenseDescriptorsAreRead` adds that back-to-back buckets lie
where the sum of the lengths before them says (`DenseOffsets`, an induction over the modules by `Recursion`).
`BucketedIs`, `ClusterIs` and `NormalisedIs` are what the regrouping does to a table,
`AllLookupsAre` and `AllOutputsAre` what a row of modules writes.

That the loader finds the same functions (`TheLoaderFindsTheSame`) needs one more invariant,
`FoundInv`: each thunk of the builder has a name that its module exports and that leads
where its slot led (`Leads`), and the table, in which the vote replaces a forwarder string by what it
means, still means what the debuggee's meant (`Followed`), so that the regrouping looks
up stubs for the right function. Each step then moves a thunk only to an export that
leads to the same place: `ThunkLeads` for the vote (a module that exports the address, one that
forwards to it, or the target of a string there), `RehomedLeads` for `validate_and_regroup`,
`LeadsToo` for `normalize_module_runs`. With `RebuildInv` the slots the loader
walks are the descriptor's own (`WalkedIsOwn`) and hold their thunks. The theorem is
under `AgreeingWorlds`: in what is read of the export tables nothing is exported by
ordinal only, entries of one name or at one address lead to one function, and a forwarder
string is forwarded to by nobody, has no code and no code jumps to it. The worlds of the run agree
(`MCWorldsAgree`, which TLC evaluates). Without it the statement is false of the code:
an ordinal becomes the name "#n" (3.4), and `normalize_module_runs` gives
a cluster to any module that has all its names, whatever they lead to there. A chain of
forwarders is beyond its first link neither in the code's maps nor in `LoaderFinds`.

`PeDump_proofs`: every step reads the section table the one before has left, so that the
invariants say what the table is at each stage. `LayoutInv` is about memory: until the
image is read the table is a debuggee's (`OfDebuggee`), afterwards one of
sections of known kinds; code comes first, each section starts where the one before
it ends, rounded up (`Follows`), and `SizeOfImage` is behind the last. `ImageIs` shows it of every image `Init` may
choose, `LaidOutIs` and `KeptAre` of what compaction makes of it, and `LayoutTable` of an announcement that gives
`.reloc` another size. `ImageIsContiguous` follows for every image, with no hypothesis.

`RoomInv` is about the file. What is appended comes after everything live
(`LiveFirst`). While sections are appended the file mirrors memory, and a section that ends
at a `SectionAlignment` or is followed by a live one leaves the room that trimming
takes from it (`Spread`). `TrimSections` walks the table: `TrimsNext` is one step of it, in which
the sections behind the present one keep that room (`Roomy`) although they have moved,
`TrimRoom` the walk. `PacksNext` and `PackRoom` are the same for the packing, where
the end of what has been passed never goes beyond the next section. So the ranges
are in order (`Ordered`) unless the last live section was trimmed and
ends between two alignments (`Loose`, `Well`): of the two cases `TrimmedWell` excludes, only that one
matters for `FileRangesDisjoint`. `ReservationStands` says `.reloc` still has what was
reserved when the table is built, which is why a dump fails only by its estimate. Under
`NothingAppendedIsHuge` no appended section is trimmed; without it `.reloc` could lose its reservation.

`ImageInv` ties the table to the debuggee. With the shell behind all other sections
compaction moves nothing (`InPlace`), so that `dump_buf` holds each section's data at the
address the product gives it; while sections are appended the file mirrors
memory (`Mirrored`). `CutAll` walks the trimming once more, for the content:
`DataEndCovers` says that what a section is cut behind has only zeroes behind it, as long as
it is looked for at the section's own place in the buffer, which is so until a section before it has been trimmed: the
second case `TrimmedWell` excludes (`Judged`, `NothingCut`). The live sections stay apart whatever was
trimmed (`LiveApart`); only what was appended can be run into, and it is written later.

`ContentInv` is about the file. `Reaches`: a unit of a section is what the section
is to hold, or the same pointer rebased; it holds of what is written (`WrittenOnce`, since the ranges are
in order), through the rebasing, and through the packing, where `Carried` says that a section that
has been passed is at its new place and one that has not is still untouched at its old: a
section only moves down, into what nothing needs any more (`ApartIn`, `CarriesNext`). It needs
`WellCut`, the case in which trimming went well. `OneBase`, that no pointer of a live
section is for the other base, does not: where an appended section shares bytes with a live one,
what it wrote there is no pointer, hence the condition of `DumpAssumption` that `SA` is above 3, the numbers below it standing for what the
dumper writes itself. `NoneRebased` says that it starts so, `CodeHasNone` that x64 code has no pointer to miss, and
`AllRelocated` that the table finds what the rebasing left. `TableSpared` is the other half of
the imports: an entry of the table is for a unit that holds an address, and the slot holds a hint.
`WhatWasInMemoryIsThere` assumes `ShellLast`: a section behind a removed shell is moved in the
section table but read from where it was, so without it the statement is false (3.4).
TLC checked all four invariants over the instance of `pe_dump`, where the hypotheses hold, before they were proved.

`Static`, the command line: `TokenRunIs` gives the parser's loop its equation, `ArgsAt` says
where each option of a front-end stands, and `RequestRead` walks through them:
output, packer, data sections, shrinking, verbosity, each there or not. The same steps in
the order of `Described` give the lines of the guided mode. `ReadInv` says
until when a request is outstanding and that nothing but a suggestion is asked to be confirmed.
`CommandsReadBack` contains the condition of the property: no name has a space in it.
For `SuggestionsPassTheGate`, `WizardInv` says that the file the detection
has seen and the packer it suggested stay together up to the gate.

`Static`, the filters: both walks are functions of the number of rounds, and
`Lockstep` takes them through the code together. `Paired` says that at every round
both stand at the same byte, that the unfilter has the program's own bytes behind it and the filter's
ahead; `Ahead` that the filter has not touched what it has not passed, `Kept` that
it does not come back to what it has. So both take the same bytes for a call
site, and `DisplacementBack` is the arithmetic of one operand modulo the size of a
displacement. `FilterInv` says that what is unfiltered is what a program was filtered to.

`Static`, the codes: that no value has two codes holds of bits of any length. `RunsBack` takes two walks
that end at one number back to 1: at each round both took the same bit, and as a walk of one
round more is larger, they have as many rounds (`ExtendedOnce`, `OffsetHasOne`,
`LengthOnce`). That each small value has a code is shown by writing the code down (`ShortLengths`,
`ShortOffsets`). `CopiedRepeats` is the copy: from the first byte on it repeats what lay before it.

`Static`, the relocations: `Tiling` is the loader's walk over whole blocks; it does not change
when words follow (`WholeStays`), and one block more makes it one step longer (`TilesMore`). `BlockLists`
finds in a block what was put there: an entry is its place modulo the page, so the page must be that of
its first entry and the entries in order (`OrderedIs`; `EnterReaches` carries it from entry to
entry). `TilesWalk` turns the tiling into the walk of the property.

`Static`, the imports: `ImportState` says of the tables between two rounds that each DLL, slot and
terminator behind the cursor is found as it was given (`NamesFound`, `SlotsFound`, `EndsFound`), that the names of
the DLLs end below one mark and those of the functions lie between two others, and that the room left holds
what is still to come (`RoomTo`, `ItemsTo`: the area was sized by the same sum). `Mid` is the same within a round, from
import to import (`ItemsKeep`). A name is written above all names found before or below where they begin, so
that what was found is still found (`NamesStay`, `SlotsStay`). Where the packer has set the places, they are in the order of the
slots and `ImportAssumption` makes a name fit into its own; where they are not set, the pointer to a
name may begin on the terminator of the name before, the name itself does not (`NamePlaced`).

`Static`, the resources: the recursion of `res_build` is a list of what waits, each with the slot its
parent keeps for it. `WorkShape` says that what waits takes exactly the room that is left of the directory and
of the names (`Left`, by the two walks that count), that each slot lies behind `bpos` and is waited for
once; it gives `CountedAsBuilt`: the error "directory size accounting drifted" has no way to occur.
`TreeBuilt` goes down the tree: a node waits for its entry or has it, with its name, and
leads to a header or to data, and so do its children. One node of the walk writes into a slot
nobody else waits for and beyond all that is written (`StepSettles`), so that what is built stays so
(`EntryStays` up to `TreeStays`). `TypesAt` says which type the walk is under: the units between
two types' places are those below the first, which makes of the flag that is cleared on the
first icon the statement about the whole tree (`UnderNext`, `Patches`).

Only model-checked:

* all liveness (`EngineEnds`, `WindowEnds`, `SteppingEnds`, `TouchCompletes`,
  `CallsAnswered`, `CancelEnds`), which is out of the prover's reach;
* the refutations of 3.4.

## 5. What is not modelled

* OEP byte patterns and Themida's version fingerprints: their results are
  inputs of `TextGuard` and of the initial states. PE parsing and the disassembler likewise.
* Anti-anti-debug, Themida post-processing (data sections, anti-dump patches):
  straight-line rewriting of bytes.
* I/O: process creation, memory access, ScyllaHide injection, files, the JSON-RPC transport, rendering.
* Of the debug loop: the capture of V2 payload threads, the stub trap and the DLL
  free run, which write files for diagnosis; what environment variables such as
  `MAGICMIDA_NO_V2_WATCH` switch.
* `drain_exit_events` and `Drop` of the port; software breakpoints, of which nothing is ever set.
* Of the imports: `fixup_api_call_sites`, and reading the export tables out of the
  process. Of the trace engine `trace_is_at_api`: its results are an input.
* Of the dumper: the .NET path, the resources and the TLS directory, the security
  cookie and stale pointers, which change bytes and no layout.
* Of VMProtect: the report on trampolines and exception directories, `classify_mode`.
* Of the command line: `/verify`, whose outcome is left open.

## 6. Plan

What is left, in this order:

1. **Composition**: `ClassicVerify` joins `TextGuard`, and `TextGuard` takes the place of `OepAccepted`
   in `EngineChain`; `Classify` takes the place of the input of `TraceImports`.
2. **The end of a session**: `drain_exit_events` and `Drop` over `DebugPort`: what is
   still owed to the kernel is answered, handles are closed once.
3. **The trap flag** after a stepping: `MappedCapture` has no model of the traps that follow where
   it stays set, so that `mod.rs:2384` is not the subject of a property.
4. **The front-ends' registries**: several runs at once in the MCP server, and the log
   classification of `run/src/parse.rs` as a function of the lines.
5. **Proofs**: `LoaderFindsTheSame` for chains of forwarders, which needs a loader that follows them to their end.
