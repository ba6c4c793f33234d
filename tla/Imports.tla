------------------------------- MODULE Imports -------------------------------
(***************************************************************************)
(* The imports of the product, from the search of the code to the slots of *)
(* the written file: run_post_loop_phases locates and repairs the table    *)
(* (IatDiscovery) and hands it to dump_process, which rebuilds the import  *)
(* directory from it (ImportRebuild).                                      *)
(***************************************************************************)
EXTENDS IatDiscovery, ImportRebuild

\* No program has been started to be dumped yet
NotDumped ==
    /\ stage = "wait"
    /\ world = {} /\ known = {}
    /\ classic = FALSE
    /\ live = <<>> /\ iat = <<>> /\ candidates = <<>>
    /\ next = 0
    /\ builder = <<>> /\ output = <<>>

ImportsInit == Init /\ NotDumped

\* The strategy goes with the version of the shell, and so does classic_imports
Repair(version) ==
    /\ CASE version \in {"V1", "Ancient"} -> FixV1
         [] version = "V2" -> FixV2
         [] OTHER -> FixV3
    /\ classic' = (version \in {"V1", "Ancient"})
    /\ UNCHANGED <<stage, world, known, live, iat, candidates, next, builder, output>>

\* A table that was not located or not repaired ends the run.  Otherwise the
\* dump reads it again: what it finds there, and in the modules, is anything.
Dump ==
    /\ stage = "wait" /\ pc = "done"
    /\ stage' = "read"
    /\ world' \in Worlds
    /\ live' \in [1 .. TableSlots -> Values]
    /\ layout' = "x86"
    /\ slots' = {}
    /\ UNCHANGED <<pc, code, held, ref, table, loc>>
    /\ UNCHANGED <<known, classic, iat, candidates, next, builder, output>>

Discover == (Scan \/ Rescan \/ AdoptEarlier \/ ReadTable \/ Bound \/ Enter \/ Over)
                /\ UNCHANGED rebuildVars

ImportsNext ==
    \/ Discover
    \/ \E version \in {"V1", "Ancient", "V2", "V3", "unknown"} : Repair(version)
    \/ Dump
    \/ RebuildNext /\ UNCHANGED vars

ImportsSpec == ImportsInit /\ [][ImportsNext]_<<vars, rebuildVars>>
=============================================================================
