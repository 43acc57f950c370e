-------------------------- MODULE BookingApproval --------------------------
(***************************************************************************)
(* One booking's status and the approvals it waits for                     *)
(* (domain/booking-approvals.ts, domain/booking-actions.ts): free (FOC)    *)
(* passengers, a discount, and days over the allotment. What the seat pool *)
(* answers when the booking is weighed is an input here; SeatPool computes *)
(* it. Every command is one transaction on the booking, so one action.     *)
(***************************************************************************)
EXTENDS Integers, Sequences, FiniteSets

CONSTANTS
    MaxFoc,        \* bound: free passengers on the booking
    MaxDiscount,   \* bound: size of the discount, in steps
    MaxApprovals,  \* bound: approvals ever asked for
    Reasons,       \* bound: whether saves carry an FOC reason, do not, or either
    Imported       \* statuses a booking imported from the legacy system may have

ASSUME BoundAssumption ==
    /\ MaxFoc \in Nat /\ MaxDiscount \in Nat /\ MaxApprovals \in Nat /\ Reasons \subseteq BOOLEAN
    /\ Imported \subseteq {"draft", "pending", "pending_approval", "pending_foc", "completed"}

VARIABLES
    status,      \* the booking's status; "absent" before it is created
    approvals,   \* every approval asked for, oldest first
    foc,         \* free passengers across its trips
    discount,    \* its discount
    reason,      \* whether it carries an FOC reason
    stamps,      \* how many times confirmed_at was written
    unasked      \* history: imported or restored, so its status was not decided here

vars == <<status, approvals, foc, discount, reason, stamps, unasked>>

Early == {"draft", "quote", "pending"}
Waiting == {"pending_approval", "pending_foc"}
Released == {"cancelled", "rejected", "cancelled_weather"}
Live == Early \cup Waiting \cup {"confirmed"}
Statuses == {"absent", "completed"} \cup Live \cup Released
Targets == Early \cup {"pending_foc", "confirmed", "completed", "rejected"}

Approvals ==
    [kind : {"approval", "foc"}, status : {"pending", "approved", "rejected", "replaced"},
     over : BOOLEAN, discount : Nat, foc : Nat, target : Targets]

\* Stands for "no such approval".
NoApproval == [kind |-> "none", status |-> "none", over |-> FALSE, discount |-> 0, foc |-> 0, target |-> "none"]

-----------------------------------------------------------------------------
(* Approvals                                                               *)

IsPending(a, kind) == a.kind = kind /\ a.status = "pending"

\* The last one asked, if several should wait.
PendingOf(list, kind) ==
    IF \E i \in 1..Len(list) : IsPending(list[i], kind)
    THEN list[CHOOSE i \in 1..Len(list) : /\ IsPending(list[i], kind)
                                          /\ \A j \in i + 1..Len(list) : ~IsPending(list[j], kind)]
    ELSE NoApproval

Holds(s, list) ==
    /\ s \in Live \cup {"completed"}
    /\ ~(s = "pending_approval" /\ PendingOf(list, "approval").over)

\* Whether some approval decided or asked covers n free passengers, or a discount of n.
FocGranted(list, n) ==
    \E i \in 1..Len(list) : list[i].kind = "foc" /\ list[i].status \in {"approved", "pending"} /\ list[i].foc >= n
DiscountGranted(list, n) ==
    \E i \in 1..Len(list) : list[i].kind = "approval" /\ list[i].status \in {"approved", "pending"} /\ list[i].discount >= n

\* Mutant: the request does not say for how many.
FocRequestUncounted(n) ==
    [kind |-> "foc", status |-> "pending", over |-> FALSE, discount |-> 0, foc |-> 0, target |-> "confirmed"]

FocRequest(n) ==
    [kind |-> "foc", status |-> "pending", over |-> FALSE, discount |-> 0, foc |-> n, target |-> "confirmed"]
Request(over, disc, target) ==
    [kind |-> "approval", status |-> "pending", over |-> over, discount |-> disc, foc |-> 0, target |-> target]

\* Mutants: everything that waits is closed, or everything of a kind, decided or not.
CloseAllKinds(list, kind, verdict) ==
    [i \in 1..Len(list) |-> IF list[i].status = "pending" THEN [list[i] EXCEPT !.status = verdict] ELSE list[i]]
CloseDecidedToo(list, kind, verdict) ==
    [i \in 1..Len(list) |-> IF list[i].kind = kind THEN [list[i] EXCEPT !.status = verdict] ELSE list[i]]

\* Every pending approval of a kind gets a new status.
Close(list, kind, verdict) ==
    [i \in 1..Len(list) |-> IF IsPending(list[i], kind) THEN [list[i] EXCEPT !.status = verdict] ELSE list[i]]

\* Mutant: what already waits is not replaced.
AskAgain(list, request) == IF request = NoApproval THEN list ELSE Append(list, request)

\* One approval waits per kind: a new request replaces a pending one of its kind.
Ask(list, request) ==
    IF request = NoApproval THEN list ELSE Append(Close(list, request.kind, "replaced"), request)

\* A decision closes the pending approval, or is recorded for a booking that had none.
Decide(list, kind, verdict, target) ==
    IF PendingOf(list, kind) # NoApproval THEN Close(list, kind, verdict)
    ELSE Append(list, [kind |-> kind, status |-> verdict, over |-> FALSE, discount |-> 0,
                     foc |-> IF kind = "foc" THEN foc ELSE 0, target |-> target])

-----------------------------------------------------------------------------
(* Deciding a status                                                       *)

(* decideStatus, for the facts given: where a save goes and what it asks.  *)
Base(intent, focs) == IF intent = "quote" THEN "quote" ELSE IF focs > 0 THEN "pending_foc" ELSE "confirmed"
FocAsked(intent, focs) == IF intent = "confirm" /\ focs > 0 THEN FocRequest(focs) ELSE NoApproval
\* Mutant: a discount is never asked for.
SaveAskedForSeats(intent, focs, disc, over) ==
    IF over THEN Request(TRUE, 0, Base(intent, focs)) ELSE NoApproval

SaveAsked(intent, focs, disc, over) ==
    LET base == Base(intent, focs)
        asked == base = "confirmed" /\ disc > 0
    IN  IF over \/ asked THEN Request(over, IF asked THEN disc ELSE 0, base) ELSE NoApproval
Decided(intent, focs, disc, over) ==
    IF SaveAsked(intent, focs, disc, over) # NoApproval THEN "pending_approval" ELSE Base(intent, focs)

\* Mutant: every confirmation writes the stamp.
StampAgain(to) == stamps' = IF to = "confirmed" THEN stamps + 1 ELSE stamps

\* confirmed_at and confirmed_by are written the first time it becomes confirmed.
Stamp(to) == stamps' = IF to = "confirmed" /\ stamps = 0 THEN stamps + 1 ELSE stamps

(* reweigh: the days of the changed itinerary against the allotment.       *)
Standing == IF status = "pending_approval" THEN PendingOf(approvals, "approval") ELSE NoApproval
\* Mutant: a booking nothing waits for has nowhere to go.
OnItsWayNowhere == Standing.target

OnItsWayTo == IF Standing # NoApproval THEN Standing.target
              ELSE IF status = "pending_approval" THEN "confirmed" ELSE status
FitsNow(weighed, over) == weighed /\ ~over /\ Standing.over

ReweighAsks(weighed, over) ==
    IF weighed /\ over THEN Request(TRUE, Standing.discount, OnItsWayTo)
    ELSE IF FitsNow(weighed, over) /\ Standing.discount > 0 THEN Request(FALSE, Standing.discount, OnItsWayTo)
    ELSE NoApproval
ReweighClears(weighed, over) == FitsNow(weighed, over) /\ Standing.discount = 0
ReweighTo(weighed, over) ==
    IF ReweighAsks(weighed, over) # NoApproval THEN "pending_approval"
    ELSE IF ReweighClears(weighed, over) THEN OnItsWayTo ELSE status

-----------------------------------------------------------------------------
(* Commands                                                                *)

Create(intent, focs, disc, why, over) ==
    /\ status = "absent"
    /\ intent = "confirm" /\ focs > 0 => why
    /\ approvals' = Ask(Ask(approvals, FocAsked(intent, focs)), SaveAsked(intent, focs, disc, over))
    /\ status' = Decided(intent, focs, disc, over)
    /\ foc' = focs /\ discount' = disc /\ reason' = why
    /\ Stamp(status')
    /\ UNCHANGED unasked

(* settleEdit, after the reweigh: more free passengers, or a bigger        *)
(* discount, than the booking had and than any approval covers are asked   *)
(* for again, and what already waits is asked again with them.             *)
Edit(focs, disc, why, weighed, over) ==
    LET asks == status \in Waiting \cup {"confirmed"}
        focRaised == asks /\ focs > foc /\ ~FocGranted(approvals, focs)
        discountRaised == asks /\ disc > discount /\ ~DiscountGranted(approvals, disc)
        asked == ReweighAsks(weighed, over)
        to == ReweighTo(weighed, over)
        waiting == IF to # "pending_approval" THEN NoApproval
                   ELSE IF asked # NoApproval THEN asked ELSE PendingOf(approvals, "approval")
        withFoc == IF focRaised /\ waiting.target = "confirmed"
                   THEN [waiting EXCEPT !.target = "pending_foc"] ELSE waiting
        toFoc == IF focRaised /\ to = "confirmed" THEN "pending_foc" ELSE to
        discounted == discountRaised /\ (toFoc = "confirmed" \/ (toFoc = "pending_approval" /\ withFoc.target = "confirmed"))
        approval == IF ~discounted THEN withFoc
                    ELSE IF withFoc = NoApproval THEN Request(FALSE, disc, "confirmed")
                    ELSE [withFoc EXCEPT !.discount = disc]
        request == IF approval # waiting THEN approval ELSE asked
        cleared == IF ReweighClears(weighed, over) /\ ~discounted
                   THEN Close(approvals, "approval", "replaced") ELSE approvals
        decided == focRaised \/ discountRaised \/ to # status \/ asked # NoApproval
    IN  /\ status # "absent"
        /\ focRaised => why
        /\ approvals' = Ask(Ask(cleared, IF focRaised THEN FocRequest(focs) ELSE NoApproval), request)
        /\ status' = IF discounted THEN "pending_approval" ELSE toFoc
        /\ foc' = focs /\ discount' = disc /\ reason' = why
        /\ IF decided THEN Stamp(status') ELSE UNCHANGED stamps
        /\ UNCHANGED unasked

(* An edit is weighed if it asks a booking holding its seats for more, or  *)
(* changes the itinerary of one waiting over the allotment at all, as a    *)
(* change of its free passengers does.                                     *)
EditBooking ==
    \E focs \in 0..MaxFoc, disc \in 0..MaxDiscount, why \in Reasons, weighed, over \in BOOLEAN :
        /\ over => weighed
        /\ weighed => Holds(status, approvals) \/ status = "pending_approval"
        /\ ~Holds(status, approvals) /\ status = "pending_approval" /\ focs # foc => weighed
        /\ Edit(focs, disc, why, weighed, over)

Confirm ==
    /\ status \in Early
    /\ foc > 0 => reason
    /\ approvals' = Ask(Ask(approvals, FocAsked("confirm", foc)), SaveAsked("confirm", foc, discount, FALSE))
    /\ status' = Decided("confirm", foc, discount, FALSE)
    /\ Stamp(status')
    /\ UNCHANGED <<foc, discount, reason, unasked>>

DecidedKind == IF status = "pending_foc" THEN "foc" ELSE "approval"

Approve ==
    LET kind == DecidedKind
        pending == PendingOf(approvals, kind)
    IN  /\ status \in Waiting
        /\ status' = IF kind = "foc" \/ pending = NoApproval THEN "confirmed" ELSE pending.target
        /\ approvals' = Decide(approvals, kind, "approved", status')
        /\ Stamp(status')
        /\ UNCHANGED <<foc, discount, reason, unasked>>

Reject ==
    /\ status \in Waiting
    /\ status' = "rejected"
    /\ approvals' = Decide(approvals, DecidedKind, "rejected", status')
    /\ UNCHANGED <<foc, discount, reason, stamps, unasked>>

(* Back to a quote: what waits is withdrawn. A booking that held no seats  *)
(* is weighed as the quote, and waits on if it is still over.              *)
Unconfirm(over) ==
    LET withdrawn == Close(Close(approvals, "approval", "replaced"), "foc", "replaced")
        still == status = "pending_approval" /\ PendingOf(approvals, "approval").over /\ over
    IN  /\ status \in Waiting \cup {"confirmed"}
        /\ status' = IF still THEN "pending_approval" ELSE "quote"
        /\ approvals' = Ask(withdrawn, IF still THEN Request(TRUE, 0, "quote") ELSE NoApproval)
        /\ UNCHANGED <<foc, discount, reason, stamps, unasked>>

\* Mutant: a trip already run can be cancelled.
CancelCompleted(to) ==
    /\ status \in Live \cup {"completed"}
    /\ status' = to
    /\ UNCHANGED <<approvals, foc, discount, reason, stamps, unasked>>

\* /cancel and /cancel-weather: an approval still waiting is left as it is.
Cancel(to) ==
    /\ status \in Live
    /\ status' = to
    /\ UNCHANGED <<approvals, foc, discount, reason, stamps, unasked>>

\* /restore: confirmed again, asking nothing and stamping nothing.
Restore ==
    /\ status \in Released
    /\ status' = "confirmed"
    /\ unasked' = TRUE
    /\ UNCHANGED <<approvals, foc, discount, reason, stamps>>

\* /partial-cancel: free passengers may be among those who leave.
PartialCancel(focs) ==
    /\ status \in Live
    /\ focs < foc
    /\ foc' = focs
    /\ UNCHANGED <<status, approvals, discount, reason, stamps, unasked>>

-----------------------------------------------------------------------------
Init ==
    /\ status \in {"absent"} \cup Imported
    /\ approvals = <<>>
    /\ foc \in 0..MaxFoc /\ discount \in 0..MaxDiscount /\ reason \in BOOLEAN
    /\ status = "absent" => foc = 0 /\ discount = 0 /\ reason = FALSE
    /\ stamps = 0
    /\ unasked = (status # "absent")

Next ==
    /\ \/ \E intent \in {"quote", "confirm"}, focs \in 0..MaxFoc, disc \in 0..MaxDiscount,
             why \in Reasons, over \in BOOLEAN :
             Create(intent, focs, disc, why, over)
       \/ EditBooking
       \/ Confirm \/ Approve \/ Reject
       \/ \E over \in BOOLEAN : Unconfirm(over)
       \/ \E to \in {"cancelled", "cancelled_weather"} : Cancel(to)
       \/ Restore
       \/ \E focs \in 0..MaxFoc : PartialCancel(focs)
    /\ Len(approvals') <= MaxApprovals

Spec == Init /\ [][Next]_vars

-----------------------------------------------------------------------------
(* Properties                                                              *)

\* The booking is one the table can hold.
TypeOK ==
    /\ status \in Statuses
    /\ approvals \in Seq(Approvals)
    /\ foc \in Nat /\ discount \in Nat /\ stamps \in Nat
    /\ reason \in BOOLEAN /\ unasked \in BOOLEAN

(* README, approvals: at most one per kind is pending, however edits,      *)
(* commands and re-asks are interleaved; /approve could not tell which.    *)
AtMostOnePending ==
    \A i, j \in 1..Len(approvals) :
        /\ approvals[i].status = "pending" /\ approvals[j].status = "pending"
        /\ approvals[i].kind = approvals[j].kind
        => i = j

Waits(kind) == \E i \in 1..Len(approvals) : IsPending(approvals[i], kind)

(* A booking that waits has the approval it waits for, so /approve decides *)
(* something and sends it where it was going; and when it goes on to       *)
(* pending_foc, its FOC approval is there too. Imported ones never had one.*)
WaitsForSomething ==
    ~unasked =>
        /\ status = "pending_approval" => Waits("approval")
        /\ status = "pending_foc" => Waits("foc")
        /\ \A i \in 1..Len(approvals) :
              status = "pending_approval" /\ IsPending(approvals[i], "approval") /\ approvals[i].target = "pending_foc"
                 => Waits("foc")

(* Free passengers never ride on a confirmed booking unless an FOC         *)
(* approval was asked for that many: not by any sequence of edits that     *)
(* raise and lower them, unconfirms, approvals and partial cancels.        *)
ConfirmedFocAsked ==
    ~unasked /\ status = "confirmed" /\ foc > 0 => FocGranted(approvals, foc)

(* A discount reaches confirmed only through an approval for that much,    *)
(* but for a booking that went through an FOC approval, which is not asked *)
(* for its discount (decideStatus, decision of 2026-10-10).                *)
ConfirmedDiscountAsked ==
    ~unasked /\ status = "confirmed" /\ discount > 0 =>
        DiscountGranted(approvals, discount) \/ \E i \in 1..Len(approvals) : approvals[i].kind = "foc"

(* The first confirmation is stamped, once, and kept through unconfirms    *)
(* and re-approvals; only a restore confirms without it.                   *)
StampedOnce == stamps <= 1 /\ (status = "confirmed" /\ ~unasked => stamps = 1)

(* A confirmed booking was asked for all it gives away, and says when it   *)
(* was first confirmed.                                                    *)
ConfirmedAsAsked == ConfirmedFocAsked /\ ConfirmedDiscountAsked /\ StampedOnce

(* README: approvals are kept after they are decided. The list only grows, *)
(* what was asked never changes, and a decided approval is final.          *)
ApprovalsAppendOnly ==
    [][/\ Len(approvals') >= Len(approvals)
       /\ \A i \in 1..Len(approvals) :
             /\ approvals'[i] = [approvals[i] EXCEPT !.status = approvals'[i].status]
             /\ approvals[i].status # "pending" => approvals'[i].status = approvals[i].status]_vars

\* The promise a reader of the booking relies on.
Lifecycle == INSTANCE BookingLifecycle WITH holds <- Holds(status, approvals), stamped <- (stamps > 0)
LifecycleSpec == Lifecycle!Spec
=============================================================================
