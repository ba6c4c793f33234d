------------------------------- MODULE RunJob -------------------------------
(***************************************************************************)
(* One unpack run as a front-end sees it: the mida-cli child, the threads  *)
(* of Job (crates/run/src/job.rs) that carry its output to the parser, and *)
(* the front-end that owns the job: the frame loop of the GUI              *)
(* (crates/gui/src/ui.rs), or the pump thread of the MCP server with its   *)
(* request thread (crates/mcp/src/main.rs).                                *)
(*                                                                         *)
(* A line is one of four classes, the ones RunState::feed draws a verdict  *)
(* from and "noise" for the rest.  The CLI logs to stderr; the other       *)
(* reader carries nothing the verdict depends on and is left out.          *)
(***************************************************************************)
EXTENDS Naturals, Sequences

CONSTANTS
    MaxNoise,     \* bound on the lines of no consequence
    DrainRounds   \* pump calls after the exit is published, 50

ASSUME JobAssumption == MaxNoise \in Nat /\ DrainRounds \in Nat \ {0}

Lines == {"noise", "product", "done", "fatal"}
ExitCodes == {"none", "zero", "other"}
Verdicts == {"none", "ok", "failed"}

VARIABLES
    front,     \* who owns the job: "gui" | "mcp"
    cli,       \* the child: "working" | "wrote" | "done" | "fatal" | "exited"
    code,      \* its exit status
    disk,      \* its product is on disk
    noise,     \* lines of noise it has written
    pipe,      \* what it has written and the reader thread has not sent
    reader,    \* its thread: "reading" | "ended"
    waiter,    \* the waiter thread: "waiting" | "sent"
    chan,      \* the mpsc channel
    at,        \* the owner of the job: "polling" | "exiting" (a call of pump
               \* has returned the exit) | "draining" | "resting" (between two
               \* calls of the drain) | "gone" (the job is dropped)
    exit,      \* the second result of Job::pump
    round,     \* pump calls made while draining
    late,      \* history: the lines sent since a call of pump last found the
               \* channel empty and ended
    finished,  \* RunState.finished
    error,     \* RunState.error is set
    product,   \* RunState.output_path is set
    lock,      \* the mutex of RunState: "free" | "server" (its request thread)
    exitCode,  \* JobHandle.exit_code
    client,    \* the client of the server: "connected" | "left"
    srv,       \* what the request thread is doing
    ans,       \* the answer unpack_status is building
    status,    \* App.status
    button,    \* App.last_product is set
    cancelled  \* the user has asked to stop the run

child == <<cli, code, disk, noise>>
threads == <<pipe, reader, waiter, chan>>
pump == <<at, exit, round, late>>
state == <<finished, error, product>>
gui == <<status, button>>
mcp == <<client, exitCode, srv, ans, lock>>
jobVars == <<front, child, threads, pump, state, gui, mcp, cancelled>>

NoAnswer == [done |-> "none", ok |-> "none", summary |-> "none"]

TypeOK ==
    /\ front \in {"gui", "mcp"}
    /\ cli \in {"working", "wrote", "done", "fatal", "exited"}
    /\ {disk, error, product, button, cancelled} \subseteq BOOLEAN
    /\ {code, exit, exitCode} \subseteq ExitCodes
    /\ noise \in 0 .. MaxNoise
    /\ reader \in {"reading", "ended"} /\ waiter \in {"waiting", "sent"}
    /\ lock \in {"free", "server"}
    /\ pipe \in Seq(Lines) /\ chan \in Seq(Lines \cup {"exited"})
    /\ at \in {"polling", "exiting", "draining", "resting", "gone"}
    /\ round \in 0 .. DrainRounds /\ late \subseteq Lines
    /\ finished \in {"none", "yes", "no"}
    /\ srv \in {"ready", "waiting", "snapshot", "report", "reporting", "fields",
                "copying", "attach", "attaching", "killing", "writing",
                "gone", "died"}
    /\ client \in {"connected", "left"}
    /\ ans \in [done : ExitCodes, ok : Verdicts, summary : Verdicts]
    /\ status \in {"running", "ok", "failed"}

JobInit ==
    /\ front \in {"gui", "mcp"}
    /\ cli = "working" /\ code = "none" /\ disk = FALSE /\ noise = 0
    /\ pipe = <<>> /\ reader = "reading" /\ waiter = "waiting" /\ chan = <<>>
    /\ at = "polling" /\ exit = "none" /\ round = 0 /\ late = {}
    /\ finished = "none" /\ error = FALSE /\ product = FALSE
    /\ exitCode = "none" /\ client = "connected" /\ srv = "ready" /\ ans = NoAnswer /\ lock = "free"
    /\ status = "running" /\ button = FALSE /\ cancelled = FALSE

(***************************************************************************)
(* The child.                                                              *)
(***************************************************************************)
Says(line) ==
    /\ pipe' = Append(pipe, line)
    /\ UNCHANGED <<front, reader, waiter, chan, pump, state, gui, mcp, cancelled>>

CliLogs ==
    /\ cli # "exited" /\ noise < MaxNoise
    /\ noise' = noise + 1
    /\ Says("noise")
    /\ UNCHANGED <<cli, code, disk>>

CliWrites ==
    /\ cli = "working"
    /\ cli' = "wrote" /\ disk' = TRUE
    /\ Says("product")
    /\ UNCHANGED <<code, noise>>

(* A .NET target is done without a product line.                           *)
CliDone ==
    /\ cli \in {"working", "wrote"}
    /\ cli' = "done"
    /\ Says("done")
    /\ UNCHANGED <<code, disk, noise>>

CliFails ==
    /\ cli = "working"
    /\ cli' = "fatal"
    /\ Says("fatal")
    /\ UNCHANGED <<code, disk, noise>>

Exits(c) ==
    /\ cli' = "exited" /\ code' = c
    /\ UNCHANGED <<disk, noise>>

CliExits ==
    /\ \/ cli = "done" /\ Exits("zero")
       \/ cli = "fatal" /\ Exits("other")
    /\ UNCHANGED <<front, threads, pump, state, gui, mcp, cancelled>>

CliCrashes ==
    /\ cli \in {"working", "wrote"}
    /\ Exits("other")
    /\ UNCHANGED <<front, threads, pump, state, gui, mcp, cancelled>>

Child == CliLogs \/ CliWrites \/ CliDone \/ CliFails \/ CliExits \/ CliCrashes

KillTheDebuggee == UNCHANGED child

(* taskkill /T /F: the process, if there still is one, ends with status 1. *)
KillTree ==
    \/ cli # "exited" /\ Exits("other")
    \/ cli = "exited" /\ UNCHANGED child

(* The owner of the job is in a call of pump, or about to make one.        *)
Pumping == at \in {"polling", "draining"}

(***************************************************************************)
(* The threads of the job.  A send to a dropped channel ends the reader,   *)
(* and the line is lost: it stays in "pipe".                               *)
(***************************************************************************)
ReaderSends ==
    /\ reader = "reading" /\ pipe # <<>>
    /\ \/ /\ at # "gone"
          /\ chan' = Append(chan, Head(pipe)) /\ pipe' = Tail(pipe)
          /\ late' = IF Pumping THEN late ELSE late \cup {Head(pipe)}
          /\ UNCHANGED reader
       \/ /\ at = "gone"
          /\ reader' = "ended"
          /\ UNCHANGED <<chan, pipe, late>>
    /\ UNCHANGED <<front, child, waiter, at, exit, round, state, gui, mcp, cancelled>>

ReaderEnds ==
    /\ reader = "reading" /\ pipe = <<>> /\ cli = "exited"
    /\ reader' = "ended"
    /\ UNCHANGED <<front, child, pipe, waiter, chan, pump, state, gui, mcp, cancelled>>

WaiterSends ==
    /\ waiter = "waiting" /\ cli = "exited"
    /\ waiter' = "sent"
    /\ chan' = Append(chan, "exited")
    /\ UNCHANGED <<front, child, pipe, reader, pump, state, gui, mcp, cancelled>>

(***************************************************************************)
(* Job::pump: everything in the channel, the lines behind Exited included, *)
(* until try_recv finds it empty.  What is sent from then on waits for the *)
(* next call, and is lost with the job when there is none.                 *)
(***************************************************************************)
Feed(line) ==
    /\ finished' = CASE line = "done"  -> "yes"
                     [] line = "fatal" -> "no"
                     [] OTHER          -> finished
    /\ error' = (error \/ line = "fatal")
    /\ product' = (product \/ line = "product")

PumpLine ==
    /\ Pumping /\ chan # <<>> /\ Head(chan) # "exited"
    /\ lock = "free"
    /\ Feed(Head(chan))
    /\ chan' = Tail(chan)
    /\ UNCHANGED <<front, child, pipe, reader, waiter, pump, gui, mcp, cancelled>>

PumpExited ==
    /\ Pumping /\ chan # <<>> /\ Head(chan) = "exited"
    /\ exit' = code
    /\ chan' = Tail(chan)
    /\ UNCHANGED <<front, child, pipe, reader, waiter, at, round, late, state, gui,
                   mcp, cancelled>>

PumpReturnsUnread(where) ==
    /\ at' = where /\ late' = {}
    /\ UNCHANGED <<front, child, threads, exit, round, state, gui, mcp, cancelled>>

(* The last look into the channel: the call returns.                       *)
PumpReturns(where) ==
    /\ chan = <<>>
    /\ at' = where /\ late' = {}
    /\ UNCHANGED <<front, child, threads, exit, round, state, gui, mcp, cancelled>>

ExitSeen == at = "polling" /\ exit # "none" /\ PumpReturns("exiting")

(***************************************************************************)
(* The GUI: one pump call per frame, and the user's button.  The frame     *)
(* that saw the exit takes the job, reads the state, looks for the product *)
(* on disk and drops the job.                                              *)
(***************************************************************************)
GuiOk == exit = "zero" /\ (finished = "yes" \/ (product /\ disk))

GuiFinish ==
    /\ front = "gui" /\ at = "exiting"
    /\ status' = (IF GuiOk THEN "ok" ELSE "failed")
    /\ button' = (GuiOk /\ product /\ disk)
    /\ at' = "gone"
    /\ UNCHANGED <<front, child, threads, exit, round, late, state, mcp, cancelled>>

(* Between two frames, by the thread that draws them.                      *)
GuiCancel ==
    /\ front = "gui" /\ at = "polling" /\ exit = "none"
    /\ cancelled' = TRUE
    /\ \/ finished # "none" /\ UNCHANGED child
       \/ finished = "none" /\ KillTree
    /\ UNCHANGED <<front, threads, pump, state, gui, mcp>>

(***************************************************************************)
(* The pump thread of the MCP server publishes the exit code, calls pump   *)
(* DrainRounds more times, sleeps after each and ends, which drops the     *)
(* job.                                                                    *)
(***************************************************************************)
McpPublish ==
    /\ front = "mcp" /\ at = "exiting"
    /\ exitCode' = exit
    /\ at' = "draining"
    /\ UNCHANGED <<front, child, threads, exit, round, late, state, gui, client, srv,
                   ans, lock, cancelled>>

DrainLook == at = "draining" /\ PumpReturns("resting")

DrainRound ==
    /\ at = "resting"
    /\ round' = round + 1
    /\ at' = (IF round + 1 < DrainRounds THEN "draining" ELSE "gone")
    /\ UNCHANGED <<front, child, threads, exit, late, state, gui, mcp, cancelled>>

(***************************************************************************)
(* The request thread of the MCP server: one tool call at a time.          *)
(***************************************************************************)
ReportOk == IF exitCode = "zero" /\ finished = "yes" /\ ~error THEN "ok" ELSE "failed"

elsewhere == <<front, child, threads, pump, state, gui, client, exitCode>>

StatusCall ==
    /\ front = "mcp" /\ srv = "ready" /\ client = "connected"
    /\ srv' = "waiting" /\ ans' = NoAnswer
    /\ UNCHANGED <<elsewhere, lock, cancelled>>

(* The run has finished, or wait_ms has passed.                            *)
StatusWaited ==
    /\ srv = "waiting"
    /\ srv' = "snapshot"
    /\ UNCHANGED <<elsewhere, ans, lock, cancelled>>

TakeDone ==
    /\ srv = "snapshot"
    /\ ans' = [ans EXCEPT !.done = exitCode]
    /\ srv' = "report"
    /\ UNCHANGED <<elsewhere, lock, cancelled>>

AfterReport == IF srv \in {"report", "reporting"} THEN "fields" ELSE "writing"

(* JobHandle::report, called by snapshot and again by tool_unpack_status:  *)
(* nothing while the run is going on.                                      *)
NoReport ==
    /\ srv \in {"report", "attach"} /\ exitCode = "none"
    /\ srv' = AfterReport
    /\ UNCHANGED <<elsewhere, ans, lock, cancelled>>

LockForReport ==
    /\ srv \in {"report", "attach"} /\ exitCode # "none"
    /\ lock = "free"
    /\ lock' = "server"
    /\ srv' = (IF srv = "report" THEN "reporting" ELSE "attaching")
    /\ UNCHANGED <<elsewhere, ans, cancelled>>

ReportHoldingTheLock ==
    /\ srv \in {"reporting", "attaching"}
    /\ UNCHANGED lock
    /\ ans' = IF srv = "reporting" THEN [ans EXCEPT !.ok = ReportOk]
                                   ELSE [ans EXCEPT !.summary = ReportOk]
    /\ srv' = AfterReport
    /\ UNCHANGED <<elsewhere, cancelled>>

ReadReport ==
    /\ srv \in {"reporting", "attaching"}
    /\ lock' = "free"
    /\ ans' = IF srv = "reporting" THEN [ans EXCEPT !.ok = ReportOk]
                                   ELSE [ans EXCEPT !.summary = ReportOk]
    /\ srv' = AfterReport
    /\ UNCHANGED <<elsewhere, cancelled>>

LockForFields ==
    /\ srv = "fields" /\ lock = "free"
    /\ lock' = "server"
    /\ srv' = "copying"
    /\ UNCHANGED <<elsewhere, ans, cancelled>>

CopyFieldsAndDone ==
    /\ srv = "copying"
    /\ lock' = "free"
    /\ ans' = [ans EXCEPT !.done = exitCode]
    /\ srv' = "attach"
    /\ UNCHANGED <<elsewhere, cancelled>>

CopyFields ==
    /\ srv = "copying"
    /\ lock' = "free"
    /\ srv' = "attach"
    /\ UNCHANGED <<elsewhere, ans, cancelled>>

CancelCall ==
    /\ front = "mcp" /\ srv = "ready" /\ client = "connected"
    /\ cancelled' = TRUE
    /\ srv' = (IF exitCode = "none" THEN "killing" ELSE "writing")
    /\ UNCHANGED <<elsewhere, ans, lock>>

Kill ==
    /\ srv = "killing"
    /\ KillTree
    /\ srv' = "writing"
    /\ UNCHANGED <<front, threads, pump, state, gui, client, exitCode, ans, lock,
                   cancelled>>

(* The client goes away: stdin ends, and with it, perhaps, stdout.         *)
ClientLeaves ==
    /\ front = "mcp" /\ client = "connected"
    /\ client' = "left"
    /\ UNCHANGED <<front, child, threads, pump, state, gui, exitCode, srv, ans, lock,
                   cancelled>>

WriteAnswer ==
    /\ srv = "writing"
    /\ srv' = "ready"
    /\ UNCHANGED <<elsewhere, ans, lock, cancelled>>

(* The server's threads end with it.                                       *)
Dropped ==
    /\ at' = "gone" /\ reader' = "ended" /\ waiter' = "sent"
    /\ UNCHANGED <<front, pipe, chan, exit, round, late, state, gui, client, exitCode,
                   ans, lock, cancelled>>

(* Nobody reads the answer: main returns the error of the write.           *)
WriteFails ==
    /\ srv = "writing" /\ client = "left"
    /\ srv' = "died"
    /\ Dropped
    /\ UNCHANGED child

ServerLeaves ==
    /\ srv = "ready" /\ client = "left"
    /\ srv' = "gone"
    /\ UNCHANGED child
    /\ Dropped

ServerExits ==
    /\ srv = "ready" /\ client = "left"
    /\ srv' = "gone"
    /\ \/ exitCode = "none" /\ KillTree
       \/ exitCode # "none" /\ UNCHANGED child
    /\ Dropped

Answering ==
    \/ StatusWaited \/ TakeDone \/ NoReport \/ LockForReport \/ ReadReport
    \/ LockForFields \/ CopyFields \/ Kill
    \/ WriteAnswer \/ WriteFails \/ ServerExits

Job ==
    \/ ReaderSends \/ ReaderEnds \/ WaiterSends
    \/ PumpLine \/ PumpExited \/ ExitSeen
    \/ GuiFinish \/ McpPublish \/ DrainLook \/ DrainRound

JobNext ==
    \/ Child \/ Job \/ GuiCancel \/ ClientLeaves
    \/ StatusCall \/ CancelCall \/ Answering

JobSpec == JobInit /\ [][JobNext]_jobVars

(* The threads of the job and of the server are scheduled, the mutex is    *)
(* not withheld from the pump for ever, and a child that has logged its    *)
(* last line exits.  The unpacking itself need never end.                  *)
JobFairSpec ==
    /\ JobSpec
    /\ WF_jobVars(ReaderSends) /\ WF_jobVars(ReaderEnds) /\ WF_jobVars(WaiterSends)
    /\ SF_jobVars(PumpLine) /\ WF_jobVars(PumpExited)
    /\ WF_jobVars(ExitSeen) /\ WF_jobVars(GuiFinish) /\ WF_jobVars(McpPublish)
    /\ WF_jobVars(DrainLook) /\ WF_jobVars(DrainRound)
    /\ WF_jobVars(Answering) /\ WF_jobVars(CliExits)
-----------------------------------------------------------------------------
(***************************************************************************)
(* Properties.                                                             *)
(***************************************************************************)
Has(queue, line) == \E i \in DOMAIN queue : queue[i] = line

(* Neither front-end calls a run a success unless the CLI exited with      *)
(* status 0, whatever it had logged before it was killed, and the button   *)
(* that opens the product is offered only for a product on disk.           *)
SuccessNeedsExitZero ==
    /\ "ok" \in {status, ans.ok, ans.summary} => code = "zero"
    /\ button => disk /\ status = "ok"

(* An answer of unpack_status that says the run is done carries a verdict  *)
(* and a summary, and a summary never takes back a success: the three are  *)
(* read at three moments, with the pump thread in between.                 *)
DoneCarriesVerdict ==
    srv \in {"ready", "writing"} =>
        /\ ans.done # "none" => ans.ok # "none" /\ ans.summary # "none"
        /\ ans.ok = "ok" => ans.summary = "ok"

(* Once the job is dropped, a successful run that the front-end counts as  *)
(* failed is one whose Done. line came too late: the reader thread had not *)
(* sent it, or sent it when the last call of pump had already found the    *)
(* channel empty (job.rs, ui.rs, mcp/src/main.rs:364-375).  A line that    *)
(* was in the channel at the last look is never thrown away with it,       *)
(* before or behind the exit status.                                       *)
FalseFailureOnlyOnALateLine ==
    /\ at = "gone" /\ code = "zero" /\ srv \notin {"gone", "died"}
    /\ \/ front = "gui" /\ status = "failed"
       \/ front = "mcp" /\ ReportOk = "failed"
    => Has(pipe, "done") \/ "done" \in late

(* The verdict a front-end shows is the run's: no success that was none,   *)
(* no half of an answer, and no failure but one by a line that came late.  *)
VerdictIsTrue ==
    SuccessNeedsExitZero /\ DoneCarriesVerdict /\ FalseFailureOnlyOnALateLine

(* Every tool call is answered: the request thread never waits for a       *)
(* mutex it holds.                                                         *)
CallsAnswered == srv # "ready" ~> srv \in {"ready", "gone", "died"}

(* A run the user stops is over for the front-end, even if the debug loop  *)
(* of the CLI would never have ended, and even when Job::cancel does       *)
(* nothing because a last line has been parsed.                            *)
Over ==
    \/ front = "gui" /\ status # "running"
    \/ front = "mcp" /\ (exitCode # "none" \/ srv \in {"gone", "died"})

CancelEnds == cancelled ~> Over

(* A server whose client goes away between two calls takes an unfinished   *)
(* run with it.                                                            *)
IdleServerTakesTheRunWithIt == srv = "gone" => cli = "exited"

(* mcp/src/main.rs:1111: "Do not leave orphaned CLI children behind when   *)
(* the client disconnects."  Violated: a client that disconnects during a  *)
(* call makes the write of the answer fail, and main returns before the    *)
(* children are killed.                                                    *)
NoOrphans == srv \in {"gone", "died"} => cli = "exited"

(* mcp/src/main.rs:366-367: "Drain anything still buffered so the final    *)
(* `Done.`/`[FATAL]` line is parsed before we report finished."  Violated: *)
(* the exit code is published before the drain, and unpack_status answers  *)
(* meanwhile that a successful run is done and has failed.  Only the end   *)
(* of the drain would justify that.                                        *)
DrainedBeforeTheReport ==
    srv = "writing" /\ ans.done # "none" /\ ans.summary = "failed" /\ code = "zero"
        => at = "gone"
=============================================================================
