--------------------------- MODULE MappedCapture ---------------------------
(***************************************************************************)
(* The debug loop of unpack (crates/cli/src/unpacker/mod.rs) and the scans *)
(* it makes for a program that the shell materialises as an image of its   *)
(* own: the periodic scan, the scan at a breakpoint, the watch of Ancient  *)
(* and V2 shells, and the last chance at ExitProcess.                      *)
(*                                                                         *)
(* Every handler works while its event holds the debuggee still and is one *)
(* step here.  The periodic scan and the watches run at the loop's tail or *)
(* after a quiet 500 ms, when the event has been answered: the debuggee    *)
(* moves between what they see and what they write, and what is an image   *)
(* when it is chosen may be another one when it is dumped.                 *)
(***************************************************************************)
EXTENDS MappedStep, Naturals, FiniteSets

CONSTANTS
    Versions,      \* the shell generations of a run, among V1, Ancient, V2
    Bases,         \* where images come and go below 2 GB
    Packed,        \* the packed image, which stays
    NoBase,
    SnapshotCap    \* ANCIENT_SNAPSHOT_CAP, 64 in the code

ASSUME CaptureAssumption ==
    /\ IsFiniteSet(Bases)
    /\ Versions \subseteq {"V1", "Ancient", "V2"}
    /\ Packed \notin Bases /\ NoBase \notin Bases \cup {Packed}
    /\ SnapshotCap \in Nat

VARIABLES
    version,     \* pe_info.themida_version
    mem,         \* the image at each base
    at,          \* where the loop is
    closed,      \* the CloseHandle breakpoint has been hit
    scanned,     \* the first periodic scan has been made
    seen,        \* seen_image_bases
    waiting,     \* pending_mapped_dump
    target,      \* the base of the image being stepped into or written
    watch,       \* ancient_watch, v2_watch
    dllBases,    \* v2_dll_bases
    dumped,      \* v2_dumped_bases
    todo,        \* candidates of the V2 scan still to write
    number,      \* the file number of that scan
    snapshots,   \* ancient_snapshots
    files,       \* the numbered raw dumps
    raw,         \* the last dump to <stem>.raw.bin: of what, by which scan,
                 \* and whether it was reported as written
    ended,       \* why the loop was left
    result       \* what the run reported

program == <<version, mem>>
search  == <<closed, scanned, seen, waiting, watch, dllBases>>
written == <<dumped, snapshots, files, raw>>
vars == <<program, search, written, at, target, todo, number,
          ended, result, attemptVars>>

-----------------------------------------------------------------------------
(* Images by what their headers say.  library and plugin import, are on    *)
(* the module list, and the plugin exports nothing; bare is a resource     *)
(* file; partial is the program while its header is still being scrubbed,  *)
(* program is complete, wiped has lost its content; region is the program  *)
(* of a V2 shell, with a header of its own.                                *)
Kinds == {"free", "library", "plugin", "bare", "partial", "program", "wiped",
          "region"}

Importing == {"library", "plugin", "region"}

Registered == {"library", "plugin"}

(* `import_rva == 0` as parse_image computes it: directory 0 of the        *)
(* optional header, which is where the exports are.                        *)
NoDirectory == {"plugin", "bare", "partial", "program", "wiped"}

NoEntry == {"bare", "program", "wiped"}

FileViews == {"bare", "partial", "program", "wiped"}

NoImage == [base |-> NoBase, kind |-> "free"]

Found(b) == [base |-> b, kind |-> mem[b]]

(* scan_mapped_images, without the packed image.                           *)
Images(kinds) == {b \in Bases : mem[b] \in kinds}

Classic == version \in {"V1", "Ancient"}

(* No event holds the debuggee: between the answer to one and the next,    *)
(* and while the main thread is stepped, until it stands in the image.     *)
Running ==
    /\ at \in {"wait", "map_scan", "map_write", "watch_scan", "watch_write",
              "v2_scan", "v2_write", "step"}
    /\ phase # "image"

Init ==
    /\ version \in Versions
    /\ mem \in [Bases -> {"free", "library", "bare"}]
    /\ at = "wait" /\ ended = "none" /\ result = "none"
    /\ closed = FALSE /\ scanned = FALSE /\ seen = {}
    /\ waiting = NoImage /\ target = NoBase
    /\ watch = (version = "Ancient")
    /\ dllBases = {} /\ dumped = {} /\ todo = {} /\ number = 0
    /\ snapshots = 0 /\ files = [n \in {} |-> NoBase]
    /\ raw = [base |-> NoBase, by |-> "none", ok |-> FALSE]
    /\ phase = "idle" /\ reason = "none"

-----------------------------------------------------------------------------
(* The debuggee, whenever no event holds it.                               *)
Become(b, kind) == mem' = [mem EXCEPT ![b] = kind]

Debuggee ==
    /\ Running
    /\ \E b \in Bases :
        \/ mem[b] = "free" /\ Become(b, "bare")
        \/ mem[b] = "free" /\ Classic /\ Become(b, "partial")
        \/ mem[b] = "free" /\ version = "V2" /\ Become(b, "region")
        \/ mem[b] = "partial" /\ Become(b, "program")
        \/ mem[b] = "program" /\ Become(b, "wiped")
        \/ mem[b] \notin {"free", "program"} /\ Become(b, "free")
    /\ UNCHANGED <<version, search, written, at, target, todo, number,
                   ended, result, attemptVars>>

-----------------------------------------------------------------------------
(* dump_mapped_image_raw; the error of a failed module list comes after    *)
(* raw.bin has been written.                                               *)
WriteRaw(base, by) ==
    \E ok \in BOOLEAN : raw' = [base |-> base, by |-> by, ok |-> ok]

(* The event is answered and the loop comes to its tail, where only the    *)
(* classic shells are scanned.                                             *)
Answered == at' = IF Classic THEN "map_scan" ELSE "wait"

(* After the periodic scan the Ancient watch, if it is armed.              *)
Watching == IF version = "Ancient" /\ watch THEN "watch_scan" ELSE "wait"

Leave(why) == at' = "post" /\ ended' = why

-----------------------------------------------------------------------------
(* LoadDll: a new image at a base, recorded for V2, and taken for the      *)
(* materialised program when both of its header fields are zero.           *)
OnLoadDll ==
    /\ at = "wait"
    /\ \E b \in Bases, kind \in {"library", "plugin", "program"} :
        /\ mem[b] = "free"
        /\ kind = "program" => Classic
        /\ Become(b, kind)
        /\ dllBases' = IF version = "V2" THEN dllBases \cup {b} ELSE dllBases
        /\ waiting' = IF /\ Classic /\ waiting = NoImage
                         /\ kind \in NoDirectory \cap NoEntry
                      THEN [base |-> b, kind |-> kind] ELSE waiting
    /\ Answered
    /\ UNCHANGED <<version, closed, scanned, seen, watch, written, target, todo,
                   number, ended, result, attemptVars>>

(* Threads, strings, unloads, exceptions and handled faults are answered;  *)
(* a fault in .text may end the hunt with an OEP, or with the exit of the  *)
(* process seen in the verification window.                                *)
OnOtherEvent ==
    /\ at = "wait"
    /\ \/ Answered /\ UNCHANGED ended
       \/ Leave("oep")
       \/ Leave("exited")
    /\ UNCHANGED <<program, search, written, target, todo, number,
                   result, attemptVars>>

(* wait_event returns an error, which ends the run.                        *)
WaitError ==
    /\ at = "wait"
    /\ at' = "over" /\ result' = "error"
    /\ UNCHANGED <<program, search, written, target, todo, number,
                   ended, attemptVars>>

(* 500 ms without an event.                                                *)
Quiet ==
    /\ at = "wait"
    /\ at' = IF Classic THEN "map_scan" ELSE "v2_scan"
    /\ UNCHANGED <<program, search, written, target, todo, number,
                   ended, result, attemptVars>>

-----------------------------------------------------------------------------
(* try_map_scan, at most every 500 ms: the first one records what is there,*)
(* a later one takes the largest image without directory at a base that no *)
(* earlier scan has seen.                                                  *)
MapScan ==
    /\ at = "map_scan"
    /\ waiting = NoImage
    /\ scanned' = TRUE
    /\ seen' = seen \cup Images(Kinds \ {"free"})
    /\ LET fresh == IF scanned THEN Images(NoDirectory) \ seen ELSE {}
       IN  \/ /\ fresh = {}
             /\ at' = Watching
             /\ UNCHANGED <<waiting, target>>
          \/ /\ version = "V1"
             /\ \E b \in fresh : waiting' = Found(b)
             /\ at' = Watching
             /\ UNCHANGED target
          \/ /\ version = "Ancient"
             /\ target' \in fresh
             /\ at' = "map_write"
             /\ UNCHANGED waiting
    /\ UNCHANGED <<program, closed, watch, dllBases, written, todo, number,
                   ended, result, attemptVars>>

(* An image is waiting already, or the last scan was just now.             *)
NotDue ==
    /\ at = "map_scan"
    /\ at' = Watching
    /\ UNCHANGED <<program, search, written, target, todo, number,
                   ended, result, attemptVars>>

(* The Ancient candidate is dumped at once, and waits from then on.        *)
MapWrite ==
    /\ at = "map_write"
    /\ WriteRaw(target, "scan")
    /\ waiting' = Found(target)
    /\ target' = NoBase
    /\ at' = Watching
    /\ UNCHANGED <<program, closed, scanned, seen, watch, dllBases, dumped,
                   snapshots, files, todo, number, ended,
                   result, attemptVars>>

-----------------------------------------------------------------------------
(* try_ancient_watch_scan: one of the images that are no modules, or the   *)
(* first section of the packed image, in turn; past the cap it only looks. *)
(* The module list may be unavailable.                                     *)
AncientWatch ==
    /\ at = "watch_scan"
    /\ \E listed \in {Registered, {}} :
        target' \in Images(Kinds \ ({"free"} \cup listed)) \cup {Packed}
    /\ IF snapshots >= SnapshotCap THEN at' = "wait" ELSE at' = "watch_write"
    /\ UNCHANGED <<program, search, written, todo, number, ended,
                   result, attemptVars>>

NewFile(n, base) ==
    files' = [k \in DOMAIN files \cup {n} |-> IF k = n THEN base ELSE files[k]]

NumberedAgain ==
    /\ \/ NewFile(snapshots, target)
       \/ UNCHANGED files
    /\ UNCHANGED snapshots

(* The number is taken whether or not the write succeeds.                  *)
Numbered ==
    /\ \/ NewFile(snapshots, target)
       \/ UNCHANGED files
    /\ snapshots' = snapshots + 1

AncientWrite ==
    /\ at = "watch_write"
    /\ Numbered
    /\ target' = NoBase
    /\ at' = "wait"
    /\ UNCHANGED <<program, search, dumped, raw, todo, number,
                   ended, result, attemptVars>>

(* try_v2_watch_scan: images in private memory below the system DLLs, at   *)
(* no base a DLL was ever loaded at.  All the new candidates of one scan   *)
(* get the number that was current when it began.                          *)
V2Watch ==
    /\ at = "v2_scan"
    /\ todo' = IF watch THEN Images({"region"}) \ (dllBases \cup dumped) ELSE {}
    /\ \/ todo' = {} /\ at' = "wait" /\ UNCHANGED number
       \/ todo' # {} /\ at' = "v2_write" /\ number' = Cardinality(dumped)
    /\ UNCHANGED <<program, search, written, target, ended, result,
                   attemptVars>>

V2Write ==
    /\ at = "v2_write"
    /\ \E b \in todo :
        /\ dumped' = dumped \cup {b}
        /\ NewFile(number, b) \/ UNCHANGED files
        /\ todo' = todo \ {b}
    /\ \/ todo' = {} /\ at' = "wait" /\ number' = 0
       \/ todo' # {} /\ UNCHANGED <<at, number>>
    /\ UNCHANGED <<program, search, snapshots, raw, target,
                   ended, result, attemptVars>>

-----------------------------------------------------------------------------
(* A hit of a hardware breakpoint.  The CloseHandle one comes once         *)
(* (handle_hw_breakpoint): a V1 shell has decompressed and its largest     *)
(* file view is taken, whatever waited before; V2 begins to watch.         *)
Hit ==
    /\ at = "wait" /\ version # "Ancient"
    /\ at' = "hit"
    /\ \/ UNCHANGED <<closed, watch, waiting>>
       \/ /\ ~closed /\ closed' = TRUE
          /\ watch' = (version = "V2")
          /\ \/ /\ version = "V1"
                /\ \E b \in Images(FileViews) : waiting' = Found(b)
             \/ /\ version = "V2" \/ Images(FileViews) = {}
                /\ UNCHANGED waiting
    /\ UNCHANGED <<program, scanned, seen, dllBases, written, target, todo,
                   number, ended, result, attemptVars>>

(* try_mapped_dump of a V1 or V2 shell: what waits, or else what a scan    *)
(* made now finds, is stepped into.                                        *)
StepInto ==
    /\ at = "hit"
    /\ target' \in IF waiting # NoImage THEN {waiting.base}
                   ELSE Images(NoDirectory) \ seen
    /\ waiting' = NoImage
    /\ at' = "step" /\ phase' = "stepping" /\ reason' = "none"
    /\ UNCHANGED <<program, closed, scanned, seen, watch, dllBases, written,
                   todo, number, ended, result>>

NothingToStepInto ==
    /\ at = "hit"
    /\ waiting = NoImage /\ Images(NoDirectory) \subseteq seen
    /\ Answered
    /\ UNCHANGED <<program, search, written, target, todo, number,
                   ended, result, attemptVars>>

(* The attempt itself, and the product.  The loop tells no more of its     *)
(* failures apart than whether they lost its event.                        *)
Attempt ==
    /\ at = "step"
    /\ \/ /\ \/ EnterImage /\ mem[target] # "free"
             \/ GiveUp /\ reason' \in {"fault", "foreign"}
             \/ ProductFails
          /\ UNCHANGED <<at, ended, target>>
       \/ /\ ProductWritten
          /\ target' = NoBase
          /\ Leave("product")
    /\ UNCHANGED <<program, search, written, todo, number, result>>

(* Without a product the image is dumped raw, the trap flag is taken off   *)
(* (the main thread's context is not modelled), and the loop's event is    *)
(* answered, unless the stepping lost it.                                  *)
GoOn ==
    /\ at = "step"
    /\ WriteRaw(target, "hit")
    /\ target' = NoBase
    /\ \/ LoopGoesOn /\ Answered /\ UNCHANGED result
       \/ LoopFails /\ at' = "over" /\ result' = "error"
    /\ UNCHANGED <<program, search, dumped, snapshots, files, todo,
                   number, ended>>

(* An Ancient shell's own trap: the strictest signature that anything      *)
(* fits, then one zero field, then anything off the module list, is dumped *)
(* raw and the hunt is over; otherwise the trap is answered.               *)
AncientTrap ==
    /\ at = "wait" /\ version = "Ancient"
    /\ LET strict == Images(NoDirectory \cap NoEntry)
           relaxed == Images(NoDirectory \cup NoEntry)
           unlisted == Images(Kinds \ ({"free"} \cup Registered))
           picked == IF strict # {} THEN strict
                     ELSE IF relaxed # {} THEN relaxed ELSE unlisted
       IN  \/ \E b \in picked :
               /\ WriteRaw(b, "hit")
               /\ IF raw'.ok THEN Leave("raw") ELSE Answered /\ UNCHANGED ended
          \/ /\ picked = {}
             /\ Answered
             /\ UNCHANGED <<raw, ended>>
    /\ UNCHANGED <<program, search, dumped, snapshots, files, target,
                   todo, number, result, attemptVars>>

-----------------------------------------------------------------------------
LastChance == {b \in Bases : mem[b] \in NoDirectory \cap NoEntry}

(* ExitProcess: try_exit_dump, for images at whatever base, unless one is  *)
(* waiting; the loop ends.                                                 *)
OnExitProcessUnseen ==
    /\ at = "wait"
    /\ \/ /\ waiting = NoImage
          /\ \E b \in LastChance \ seen : WriteRaw(b, "exit")
       \/ /\ waiting # NoImage \/ LastChance \subseteq seen
          /\ UNCHANGED raw
    /\ Leave("exit")
    /\ UNCHANGED <<program, search, dumped, snapshots, files, target,
                   todo, number, result, attemptVars>>

OnExitProcess ==
    /\ at = "wait"
    /\ \/ /\ waiting = NoImage
          /\ \E b \in LastChance : WriteRaw(b, "exit")
       \/ /\ waiting # NoImage \/ LastChance = {}
          /\ UNCHANGED raw
    /\ Leave("exit")
    /\ UNCHANGED <<program, search, dumped, snapshots, files, target,
                   todo, number, result, attemptVars>>

(* run_post_loop_phases: nothing is repaired or dumped without an OEP.     *)
PostLoop ==
    /\ at = "post"
    /\ at' = "over"
    /\ result' \in IF ended = "oep" THEN {"ok", "error"} ELSE {"error"}
    /\ UNCHANGED <<program, search, written, target, todo, number,
                   ended, attemptVars>>

Finished == at = "over" /\ UNCHANGED vars

Loop ==
    \/ OnLoadDll \/ OnOtherEvent \/ WaitError \/ Quiet
    \/ MapScan \/ NotDue \/ MapWrite
    \/ AncientWatch \/ AncientWrite \/ V2Watch \/ V2Write
    \/ Hit \/ StepInto \/ NothingToStepInto \/ Attempt \/ GoOn
    \/ AncientTrap \/ OnExitProcess \/ PostLoop

Next == Loop \/ Debuggee \/ Finished

Spec == Init /\ [][Next]_vars

-----------------------------------------------------------------------------
TypeOK ==
    /\ version \in Versions
    /\ mem \in [Bases -> Kinds]
    /\ at \in {"wait", "map_scan", "map_write", "watch_scan", "watch_write",
              "v2_scan", "v2_write", "hit", "step", "post", "over"}
    /\ seen \subseteq Bases /\ dllBases \subseteq Bases
    /\ dumped \subseteq Bases /\ todo \subseteq Bases
    /\ snapshots \in 0 .. SnapshotCap
    /\ number \in 0 .. Cardinality(Bases)
    /\ ended \in {"none", "oep", "exited", "product", "raw", "exit"}
    /\ result \in {"none", "ok", "error"}

(* The last chance is taken: a run that ended at ExitProcess with an image *)
(* of the materialised shape in memory has dumped such an image, wherever  *)
(* it lies and whatever an earlier scan saw at its base, unless an image   *)
(* found earlier was still waiting for a breakpoint (mod.rs:1540-1555,     *)
(* 1791-1888).                                                             *)
LastChanceTaken ==
    (ended = "exit" /\ LastChance # {} /\ waiting = NoImage) =>
        raw.by = "exit" /\ raw.base \in LastChance

(* Every catch of the exit window stays: a numbered snapshot is never      *)
(* written over, and there are at most as many as the cap allows           *)
(* (mod.rs:1886-1889, 1915-1930).                                          *)
SnapshotsKept ==
    [][version = "Ancient" =>
        \A n \in DOMAIN files :
            n < SnapshotCap /\ n \in DOMAIN files' /\ files'[n] = files[n]]_vars

(* "Use numbered filenames so multiple candidates in one run are all       *)
(* preserved" (mod.rs:2096-2097): no file is written over.                 *)
CandidatesKept ==
    [][\A n \in DOMAIN files :
        n \in DOMAIN files' /\ files'[n] = files[n]]_vars

(* Three more statements of the source, which do not hold either.          *)

(* "Returns `true` when the dump was written and the caller should `break` *)
(* out of the debug loop" (mod.rs:2141-2142): the run then ends well.  The *)
(* phases after the loop ask for an OEP that this path never sets (2475).  *)
WrittenDumpSucceeds == ended \in {"product", "raw"} => result # "error"

(* "System DLLs and the packed image itself carry a real import directory, *)
(* so they are excluded" (mod.rs:1104-1106, 1733-1735): what a scan found  *)
(* has no imports.  The field read is the export directory.                *)
ImportersExcluded == waiting.kind \notin Importing

(* What a scan dumped of an Ancient shell is overwritten by the fallback   *)
(* at ExitProcess (mod.rs:1769-1775).  It waits, and that forbids it.      *)
ScanDumpReplaced == ended = "exit" /\ LastChance # {} => raw.by # "scan"
=============================================================================
