-------------------------- MODULE BookingLifecycle --------------------------
(***************************************************************************)
(* What a booking's status promises to whoever reads it: the arrows of the *)
(* command table, whether the booking holds its seats, and whether it was  *)
(* ever confirmed. Nothing here says why a booking waits; BookingApproval  *)
(* does, and implements this.                                              *)
(***************************************************************************)

VARIABLES
    status,     \* the booking's status, "absent" before it is created
    holds,      \* whether the pool counts its seats
    stamped     \* whether confirmed_at is set

vars == <<status, holds, stamped>>

Early == {"draft", "quote", "pending"}
Live == Early \cup {"pending_approval", "pending_foc", "confirmed"}
Released == {"cancelled", "rejected", "cancelled_weather"}
Waiting == {"pending_approval", "pending_foc"}

\* Only a booking waiting for its approval may be live and hold nothing.
GoesTo(statuses) ==
    /\ status' \in statuses
    /\ status' # "pending_approval" => holds' = TRUE

\* The stamp comes with a confirmation, and stays.
MayStamp == stamped' = stamped \/ (status' = "confirmed" /\ stamped' = TRUE)
StampsOnConfirm == stamped' = (stamped \/ status' = "confirmed")

Init ==
    /\ status \in {"absent", "completed"} \cup Early \cup Waiting
    /\ holds = (status # "absent")
    /\ stamped = FALSE

Create == status = "absent" /\ GoesTo({"quote", "confirmed"} \cup Waiting) /\ StampsOnConfirm

(* Confirming weighs nothing: the booking held its seats and goes on.      *)
Confirm ==
    /\ status \in Early /\ holds = TRUE
    /\ status' \in {"confirmed"} \cup Waiting /\ holds' = TRUE /\ StampsOnConfirm

(* Approving gives the seats, whatever status the booking goes on to.      *)
Approve ==
    /\ status \in Waiting
    /\ status' \in Early \cup {"confirmed", "pending_foc", "completed"} /\ holds' = TRUE /\ StampsOnConfirm

Reject == status \in Waiting /\ status' = "rejected" /\ holds' = FALSE /\ stamped' = stamped

(* Back to a quote, which holds its seats; a booking that held none may    *)
(* wait on.                                                                *)
Unconfirm ==
    /\ status \in Waiting \cup {"confirmed"}
    /\ \/ status' = "quote" /\ holds' = TRUE
       \/ status = "pending_approval" /\ holds = FALSE /\ status' = "pending_approval" /\ holds' = FALSE
    /\ stamped' = stamped

Cancel == status \in Live /\ status' \in Released \ {"rejected"} /\ holds' = FALSE /\ stamped' = stamped
Restore == status \in Released /\ status' = "confirmed" /\ holds' = TRUE /\ stamped' = stamped

(* An edit never cancels or revives. It may set a live booking to waiting, *)
(* and may let one that waits go on where it was going.                    *)
Edit ==
    \/ status \in Live \cup {"completed"} /\ GoesTo({status, "pending_approval"}) /\ MayStamp
    \/ status = "confirmed" /\ status' = "pending_foc" /\ holds' = TRUE /\ stamped' = stamped
    \/ status = "pending_approval" /\ holds = FALSE /\ GoesTo(Live \cup {"completed"}) /\ MayStamp

Next == Create \/ Confirm \/ Approve \/ Reject \/ Unconfirm \/ Cancel \/ Restore \/ Edit

Spec == Init /\ [][Next]_vars
=============================================================================
