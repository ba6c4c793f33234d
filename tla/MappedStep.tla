----------------------------- MODULE MappedStep -----------------------------
(***************************************************************************)
(* What stepping into the mapped image promises the debug loop: one        *)
(* attempt, after which either a product is written and the loop's event   *)
(* answered, or the loop goes on with the .text guard.  The run only fails *)
(* here when the attempt lost the event that the loop was holding.         *)
(*                                                                         *)
(* StepToImage is the detailed specification (step_until_in_image and the  *)
(* end of try_mapped_dump); MappedCapture uses this one.                   *)
(***************************************************************************)

VARIABLES
    phase,    \* "idle" | "stepping" | "image" | "giving_up" |
              \* "dumped" | "guard_path" | "failed"
    reason    \* why the attempt is ending without a product

attemptVars == <<phase, reason>>

(* The ways out of the stepping that keep the loop's event, and those that *)
(* have answered it or can no longer answer it.                            *)
Keeping == {"not_main", "fault"}

Losing == {"timeout", "foreign", "own_event", "steps", "wait_error"}

AttemptInit == phase = "stepping" /\ reason = "none"

EnterImage ==
    /\ phase = "stepping"
    /\ phase' = "image"
    /\ UNCHANGED reason

GiveUp ==
    /\ phase = "stepping"
    /\ phase' = "giving_up"
    /\ reason' \in Keeping \cup Losing

ProductWritten ==
    /\ phase = "image"
    /\ phase' = "dumped"
    /\ UNCHANGED reason

ProductFails ==
    /\ phase = "image"
    /\ phase' = "giving_up"
    /\ reason' = "dump_failed"

LoopGoesOn ==
    /\ phase = "giving_up"
    /\ phase' = "guard_path"
    /\ reason' = "none"

LoopFails ==
    /\ phase = "giving_up"
    /\ reason \in Losing
    /\ phase' = "failed"
    /\ UNCHANGED reason

AttemptNext ==
    \/ EnterImage \/ GiveUp \/ ProductWritten \/ ProductFails
    \/ LoopGoesOn \/ LoopFails

AttemptSpec == AttemptInit /\ [][AttemptNext]_attemptVars
=============================================================================
