--------------------------- MODULE ClassicVerify ---------------------------
(***************************************************************************)
(* The verification window of a classic (V1 or Ancient) OEP candidate, in  *)
(* handle_access_violation (crates/cli/src/unpacker/av_handler.rs).        *)
(*                                                                         *)
(* The candidate's fault is pending.  Work of the shell in .text is        *)
(* stepped past and a jump into the protector left alone.  Otherwise the   *)
(* guard of .text stays down and the protector's home section goes         *)
(* PAGE_NOACCESS, so that a helper of the shell faults when it returns     *)
(* home; a candidate that stays away for the whole window is taken for the *)
(* OEP.                                                                    *)
(***************************************************************************)
EXTENDS DebugPort, Naturals

CONSTANT Rounds      \* waits of 200 ms in the window of 12 s

VARIABLES
    budget,      \* rounds left
    candidate,   \* what the fault is: "data" | "trampoline" | "helper" | "entry"
    atHome,      \* threads whose fault lies in the home section
    home,        \* protection of the home section
    textGuarded, \* .text is PAGE_NOACCESS
    verdict      \* "open" while the window is, "none" before it

windowVars == <<budget, candidate, atHome, home, textGuarded, verdict>>
vars == <<portVars, windowVars>>

Candidates == {"data", "trampoline", "helper", "entry"}

TypeOK ==
    /\ PortTypeOK
    /\ budget \in 0 .. Rounds
    /\ candidate \in Candidates /\ textGuarded \in BOOLEAN
    /\ atHome \subseteq Threads
    /\ home \in {"noaccess", "rwx"}
    /\ verdict \in {"none", "stepped", "not_direct", "open", "verified",
                   "rejected", "exited", "error"}

Init ==
    /\ PendingInit(Main, "access_violation")
    /\ budget = Rounds /\ candidate \in Candidates /\ atHome = {}
    /\ home = "rwx" /\ textGuarded = FALSE
    /\ verdict = "none"

(* A read or write of .text is decompression work: the trap behind the     *)
(* instruction puts the guard up again, which process_guarded_access took  *)
(* down.                                                                   *)
StepOver ==
    /\ verdict = "none"
    /\ candidate = "data"
    /\ ContinueEvent(Main)
    /\ verdict' = "stepped"
    /\ textGuarded' = TRUE
    /\ UNCHANGED <<budget, candidate, atHome, home>>

(* The instruction jumps into the protector: the heuristics of other       *)
(* targets decide.                                                         *)
Trampoline ==
    /\ verdict = "none"
    /\ candidate = "trampoline"
    /\ verdict' = "not_direct"
    /\ UNCHANGED <<portVars, budget, candidate, atHome, home, textGuarded>>

(* No verification is running when a candidate comes, and no address is    *)
(* ever put into classic_rejected: every candidate gets a window.          *)
OpenWindow ==
    /\ verdict = "none"
    /\ candidate \in {"helper", "entry"}
    /\ home' = "noaccess"
    /\ verdict' = "open"
    /\ UNCHANGED <<portVars, budget, candidate, atHome, textGuarded>>

Open == verdict = "open"

(* Quiet window: the home section is restored, the candidate accepted.     *)
Verified ==
    /\ Open
    /\ budget = 0
    /\ home' = "rwx"
    /\ verdict' = "verified"
    /\ UNCHANGED <<portVars, budget, candidate, atHome, textGuarded>>

Quiet ==
    /\ Open
    /\ budget > 0
    /\ NothingToReport
    /\ budget' = budget - 1
    /\ UNCHANGED <<portVars, candidate, atHome, home, textGuarded, verdict>>

(* Execution came home: the guard of .text goes up again, the fault is     *)
(* answered and the hunt goes on in the debug loop.                        *)
Rejected ==
    /\ Open
    /\ budget > 0
    /\ \E t \in atHome : raised[t] = "access_violation" /\ Serve(t)
    /\ home' = "rwx"
    /\ textGuarded' = TRUE
    /\ verdict' = "rejected"
    /\ UNCHANGED <<budget, candidate, atHome>>

(* Every other event is answered and the window goes on.                   *)
Passed ==
    /\ Open
    /\ budget > 0
    /\ \E t \in Threads :
        /\ raised[t] # "exit_process"
        /\ ~(t \in atHome /\ raised[t] = "access_violation")
        /\ Serve(t)
    /\ budget' \in {budget, budget - 1}
    /\ UNCHANGED <<candidate, atHome, home, textGuarded, verdict>>

(* ExitProcess stays pending and ends the debug loop; a failed wait leaves *)
(* the window, and the candidate is accepted with the home still closed.   *)
Cut ==
    /\ Open
    /\ budget > 0
    /\ \E t \in Threads :
        \/ raised[t] = "exit_process" /\ WaitReturns(t) /\ verdict' = "exited"
        \/ WaitFails(t) /\ verdict' = "error"
    /\ UNCHANGED <<budget, candidate, atHome, home, textGuarded>>

(* A helper's thread returns home and faults there.                        *)
Debuggee ==
    /\ Open
    /\ \E t \in Threads :
        \/ /\ RaiseExit(t) \/ \E k \in Kinds : Raise(t, k)
           /\ UNCHANGED atHome
        \/ /\ candidate = "helper" /\ t = Main /\ home = "noaccess"
           /\ Raise(t, "access_violation")
           /\ atHome' = {t}
    /\ UNCHANGED <<budget, candidate, home, textGuarded, verdict>>

Finished == verdict \notin {"none", "open"} /\ UNCHANGED vars

Next ==
    \/ StepOver \/ Trampoline \/ OpenWindow
    \/ Verified \/ Quiet \/ Rejected \/ Passed \/ Cut
    \/ Debuggee \/ Finished

Spec == Init /\ [][Next]_vars

-----------------------------------------------------------------------------
(* "A shell helper faults the moment it returns home; the real OEP never   *)
(* touches the protector" (av_handler.rs:534-536): a verdict says something *)
(* of the candidate, so the process is not standing still when it is       *)
(* reached.                                                                *)
VerifiedByRunning == verdict = "verified" => ~Frozen
=============================================================================
