------------------------------- MODULE Static -------------------------------
(***************************************************************************)
(* mida-cli without a debuggee: the command line or the guided mode leads   *)
(* to the static unpacker of UPX or to the image dump of a process that     *)
(* runs anyway, and takes their outcome as its own.  What else a command    *)
(* does ends in RunEnds of CommandLine.                                     *)
(***************************************************************************)
EXTENDS CommandLine, UpxUnpack, DumpImage

vars == <<cliVars, upxVars, dumpVars>>

Init == CliInit /\ UpxInit /\ DumpInit

\* What led here does not matter to the unpacker, but who runs it does
Forget(route) ==
    /\ result' = [route |-> route] /\ target' = Nothing /\ cmd' = Nothing
    /\ UNCHANGED <<request, argv, stage, home>>

\* unpack_upx_static, dump_image, dump_image_stable
StartUpx ==
    /\ stage = "running" /\ result.route = "static"
    /\ BeginUpx /\ Forget("in unpack_static") /\ UNCHANGED dumpVars

StartDump ==
    /\ stage = "running" /\ result.route = "dump-image"
    /\ BeginDump(cmd.wait) /\ Forget("in dump_image") /\ UNCHANGED upxVars

\* The product is written when unpack_static had none to complain of
UpxReturns ==
    /\ phase \in {"done", "failed"}
    /\ phase' = "off" /\ file' = {} /\ oh' = {} /\ work' = {}
    /\ \E written \in BOOLEAN : Finish(phase = "done" /\ written)
    /\ UNCHANGED dumpVars

DumpReturns ==
    /\ dump.pc = "over" /\ stage = "running"
    /\ \E written \in BOOLEAN : Finish(dump.outcome # "error" /\ written)
    /\ UNCHANGED <<upxVars, dumpVars>>

Next ==
    \/ CliNext /\ UNCHANGED <<upxVars, dumpVars>>
    \/ StartUpx
    \/ UpxNext /\ UNCHANGED <<cliVars, dumpVars>>
    \/ UpxReturns
    \/ StartDump
    \/ DumpNext /\ UNCHANGED <<cliVars, upxVars>>
    \/ DumpReturns

Spec == Init /\ [][Next]_vars

=============================================================================
