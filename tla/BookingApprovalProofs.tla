----------------------- MODULE BookingApprovalProofs -----------------------
(***************************************************************************)
(* What a booking's approvals guarantee for any number of free passengers, *)
(* discounts and approvals: their types, that at most one per kind waits   *)
(* and that the list is append-only; that a booking that waits has the     *)
(* approval it waits for, that nothing is confirmed that was not asked     *)
(* for, and that its status moves as BookingLifecycle promises.            *)
(***************************************************************************)
EXTENDS BookingApproval, TLAPS

Verdicts == {"pending", "approved", "rejected", "replaced"}
MaybeApproval == Approvals \cup {NoApproval}

\* At most one approval of the list waits per kind.
OneEach(list) ==
    \A i, j \in 1..Len(list) :
        list[i].status = "pending" /\ list[j].status = "pending" /\ list[i].kind = list[j].kind => i = j

\* bs is list, later: nothing forgotten or rewritten but the verdict of what was pending.
Grows(list, bs) ==
    /\ Len(bs) >= Len(list)
    /\ \A i \in 1..Len(list) :
          /\ bs[i] = [list[i] EXCEPT !.status = bs[i].status]
          /\ list[i].status # "pending" => bs[i].status = list[i].status

Later(list, bs) == bs \in Seq(Approvals) /\ OneEach(bs) /\ Grows(list, bs)

-----------------------------------------------------------------------------
(* The list operators                                                      *)

\* Giving an approval the verdict it has changes nothing.
LEMMA SameVerdict == ASSUME NEW a \in Approvals PROVE [a EXCEPT !.status = a.status] = a
  BY DEF Approvals

\* An approval with a new verdict is an approval of the same kind (replacePending).
LEMMA NewVerdict ==
    ASSUME NEW a \in Approvals, NEW v \in Verdicts, NEW b, b = [a EXCEPT !.status = v]
    PROVE  b \in Approvals /\ b.status = v /\ b.kind = a.kind
  BY DEF Approvals, Verdicts

\* Of two verdicts given in turn the last stays.
LEMMA LastVerdict ==
    ASSUME NEW a \in Approvals, NEW v, NEW w
    PROVE  [[a EXCEPT !.status = v] EXCEPT !.status = w] = [a EXCEPT !.status = w]
  BY DEF Approvals

\* A list is its own continuation, and continuing twice is continuing.
LEMMA GrowsIsReflexive == ASSUME NEW list \in Seq(Approvals) PROVE Grows(list, list)
<1>1. \A i \in 1..Len(list) : list[i] \in Approvals
  OBVIOUS
<1>2. \A i \in 1..Len(list) : list[i] = [list[i] EXCEPT !.status = list[i].status]
  BY <1>1, SameVerdict
<1> QED
  BY <1>2 DEF Grows

\* Two continuations in turn, as a command that closes and then asks, are one.
LEMMA LaterIsTransitive ==
    ASSUME NEW list \in Seq(Approvals), NEW bs, NEW cs, Later(list, bs), Later(bs, cs)
    PROVE  Later(list, cs)
<1>1. ASSUME NEW i \in 1..Len(list)
      PROVE  /\ cs[i] = [list[i] EXCEPT !.status = cs[i].status]
             /\ list[i].status # "pending" => cs[i].status = list[i].status
  <2>1. i \in 1..Len(bs) /\ list[i] \in Approvals /\ bs[i] \in Approvals /\ cs[i] \in Approvals
    BY DEF Later, Grows
  <2>2. bs[i] = [list[i] EXCEPT !.status = bs[i].status] /\ cs[i] = [bs[i] EXCEPT !.status = cs[i].status]
    BY <2>1 DEF Later, Grows
  <2>3. list[i].status # "pending" => cs[i].status = list[i].status
    BY <2>1 DEF Later, Grows
  <2>4. cs[i] = [list[i] EXCEPT !.status = cs[i].status]
    BY <2>1, <2>2, LastVerdict
  <2> QED
    BY <2>3, <2>4
<1>2. Len(cs) >= Len(list)
  BY DEF Later, Grows
<1> QED
  BY <1>1, <1>2 DEF Later, Grows

\* Close gives a verdict to what waits of one kind, and nothing of that kind waits after it.
LEMMA CloseIsLater ==
    ASSUME NEW list \in Seq(Approvals), OneEach(list), NEW kind, NEW verdict \in Verdicts \ {"pending"}
    PROVE  /\ Later(list, Close(list, kind, verdict))
           /\ \A i \in 1..Len(Close(list, kind, verdict)) : ~IsPending(Close(list, kind, verdict)[i], kind)
<1> DEFINE bs == Close(list, kind, verdict)
<1>1. ASSUME NEW i \in 1..Len(list)
      PROVE  /\ list[i] \in Approvals
             /\ bs[i] = IF IsPending(list[i], kind) THEN [list[i] EXCEPT !.status = verdict] ELSE list[i]
  BY DEF Close
<1>2. ASSUME NEW i \in 1..Len(list)
      PROVE  /\ bs[i] \in Approvals /\ bs[i].kind = list[i].kind
             /\ bs[i].status = IF IsPending(list[i], kind) THEN verdict ELSE list[i].status
  <2> HIDE DEF bs
  <2>1. CASE IsPending(list[i], kind)
    <3>1. list[i] \in Approvals /\ verdict \in Verdicts /\ bs[i] = [list[i] EXCEPT !.status = verdict]
      BY <1>1, <2>1
    <3>2. bs[i] \in Approvals /\ bs[i].status = verdict /\ bs[i].kind = list[i].kind
      BY <3>1, NewVerdict
    <3> QED
      BY <2>1, <3>2
  <2>2. CASE ~IsPending(list[i], kind)
    BY <1>1, <2>2
  <2> QED
    BY <2>1, <2>2
<1>3. bs \in Seq(Approvals) /\ Len(bs) = Len(list)
  <2>1. bs = [i \in 1..Len(list) |-> bs[i]] /\ Len(list) \in Nat
    BY DEF Close
  <2> HIDE DEF bs
  <2> QED
    BY <2>1, <1>2
<1>4. Grows(list, bs)
  <2>1. ASSUME NEW i \in 1..Len(list)
        PROVE  bs[i] = [list[i] EXCEPT !.status = bs[i].status]
    BY <1>1, <1>2, SameVerdict
  <2> HIDE DEF bs
  <2> QED
    BY <1>2, <1>3, <2>1 DEF Grows, IsPending
<1>5. OneEach(bs) /\ \A i \in 1..Len(bs) : ~IsPending(bs[i], kind)
  <2> HIDE DEF bs
  <2> QED
    BY <1>2, <1>3 DEF OneEach, IsPending
<1> QED
  BY <1>3, <1>4, <1>5 DEF Later

\* Appending an approval keeps one of each when nothing of its kind waits, or when it does not wait itself.
LEMMA AppendIsLater ==
    ASSUME NEW list \in Seq(Approvals), OneEach(list), NEW a \in Approvals,
           a.status # "pending" \/ \A i \in 1..Len(list) : ~IsPending(list[i], a.kind)
    PROVE  Later(list, Append(list, a))
<1> DEFINE bs == Append(list, a)
<1>1. bs \in Seq(Approvals) /\ Len(bs) = Len(list) + 1
  OBVIOUS
<1>2. \A i \in 1..Len(list) : bs[i] = list[i] /\ list[i] \in Approvals
  OBVIOUS
<1>3. bs[Len(list) + 1] = a
  OBVIOUS
<1>4. Grows(list, bs)
  BY <1>1, <1>2, SameVerdict DEF Grows
<1>5. OneEach(bs)
  BY <1>1, <1>2, <1>3 DEF OneEach, IsPending
<1> QED
  BY <1>1, <1>4, <1>5 DEF Later

\* A new request replaces a waiting one of its kind.
LEMMA AskIsLater ==
    ASSUME NEW list \in Seq(Approvals), OneEach(list), NEW request \in MaybeApproval
    PROVE  Later(list, Ask(list, request))
<1>1. CASE request = NoApproval
  BY <1>1, GrowsIsReflexive DEF Ask, Later
<1>2. CASE request # NoApproval
  <2> DEFINE closed == Close(list, request.kind, "replaced")
  <2>1. request \in Approvals
    BY <1>2 DEF MaybeApproval
  <2>2. Later(list, closed) /\ \A i \in 1..Len(closed) : ~IsPending(closed[i], request.kind)
    BY CloseIsLater DEF Verdicts
  <2>3. Later(closed, Append(closed, request))
    BY <2>1, <2>2, AppendIsLater DEF Later
  <2> QED
    BY <1>2, <2>2, <2>3, LaterIsTransitive DEF Ask
<1> QED
  BY <1>1, <1>2

\* A decision closes what waits, or is recorded.
LEMMA DecideIsLater ==
    ASSUME NEW list \in Seq(Approvals), OneEach(list), foc \in Nat, NEW kind \in {"approval", "foc"},
           NEW verdict \in {"approved", "rejected"}, NEW target \in Targets
    PROVE  Later(list, Decide(list, kind, verdict, target))
<1>1. CASE PendingOf(list, kind) # NoApproval
  BY <1>1, CloseIsLater DEF Decide, Verdicts
<1>2. CASE PendingOf(list, kind) = NoApproval
  <2> DEFINE a == [kind |-> kind, status |-> verdict, over |-> FALSE, discount |-> 0,
                   foc |-> IF kind = "foc" THEN foc ELSE 0, target |-> target]
  <2>1. a \in Approvals /\ a.status # "pending"
    BY DEF Approvals
  <2> HIDE DEF a
  <2>2. Later(list, Append(list, a))
    BY <2>1, AppendIsLater
  <2> QED
    BY <1>2, <2>2 DEF Decide, a
<1> QED
  BY <1>1, <1>2

\* The approval that waits, when one at most does, is one of the list.
LEMMA PendingOfType ==
    ASSUME NEW list \in Seq(Approvals), OneEach(list), NEW kind
    PROVE  PendingOf(list, kind) \in MaybeApproval
<1>1. CASE \E i \in 1..Len(list) : IsPending(list[i], kind)
  <2>1. PICK i \in 1..Len(list) : IsPending(list[i], kind)
    BY <1>1
  <2>2. \A j \in i + 1..Len(list) : ~IsPending(list[j], kind)
    BY <2>1 DEF OneEach, IsPending
  <2> DEFINE k == CHOOSE k \in 1..Len(list) : IsPending(list[k], kind) /\ \A j \in k + 1..Len(list) : ~IsPending(list[j], kind)
  <2>3. k \in 1..Len(list)
    BY <2>1, <2>2
  <2> QED
    BY <1>1, <2>3 DEF PendingOf, MaybeApproval
<1>2. CASE ~\E i \in 1..Len(list) : IsPending(list[i], kind)
  BY <1>2 DEF PendingOf, MaybeApproval
<1> QED
  BY <1>1, <1>2

\* What decideStatus and reweigh ask is an approval.
LEMMA RequestType ==
    ASSUME NEW over \in BOOLEAN, NEW n \in Nat, NEW target \in Targets
    PROVE  Request(over, n, target) \in Approvals
  BY DEF Request, Approvals

\* What focRequest asks is an approval.
LEMMA FocRequestType == ASSUME NEW n \in Nat PROVE FocRequest(n) \in Approvals
  BY DEF FocRequest, Approvals, Targets

\* An approval asked again for more, or to go on elsewhere, is still one (settleEdit).
LEMMA Redirected ==
    ASSUME NEW a \in Approvals, NEW n \in Nat, NEW target \in Targets
    PROVE  [a EXCEPT !.discount = n] \in Approvals /\ [a EXCEPT !.target = target] \in Approvals
  BY DEF Approvals

-----------------------------------------------------------------------------
(* The invariant                                                           *)

Sound == TypeOK /\ OneEach(approvals)
Kept == TypeOK' /\ Later(approvals, approvals')

\* Every command keeps the booking typed and moves its approvals only forward.
LEMMA CreateKeeps ==
    ASSUME Sound, NEW intent \in {"quote", "confirm"}, NEW focs \in 0..MaxFoc, NEW disc \in 0..MaxDiscount,
           NEW why \in BOOLEAN, NEW over \in BOOLEAN, Create(intent, focs, disc, why, over)
    PROVE  Kept
<1> USE BoundAssumption DEF Sound, TypeOK
<1>1. FocAsked(intent, focs) \in MaybeApproval
  BY FocRequestType DEF FocAsked, MaybeApproval
<1>2. Base(intent, focs) \in Targets
  BY DEF Base, Targets, Early
<1>3. SaveAsked(intent, focs, disc, over) \in MaybeApproval
  BY <1>2, RequestType DEF SaveAsked, MaybeApproval
<1>4. Later(approvals, Ask(approvals, FocAsked(intent, focs)))
  BY <1>1, AskIsLater
<1>5. Later(approvals, approvals')
  <2>1. Later(Ask(approvals, FocAsked(intent, focs)), approvals')
    BY <1>3, <1>4, AskIsLater DEF Create, Later
  <2> QED
    BY <1>4, <2>1, LaterIsTransitive
<1>6. status' \in Statuses
  BY <1>2 DEF Create, Decided, Base, Statuses, Live, Waiting, Early
<1> QED
  BY <1>5, <1>6 DEF Create, Kept, Later, Stamp

\* /confirm asks for its free passengers and its discount, and forgets nothing.
LEMMA ConfirmKeeps == ASSUME Sound, Confirm PROVE Kept
<1> USE BoundAssumption DEF Sound, TypeOK
<1>1. FocAsked("confirm", foc) \in MaybeApproval
  BY FocRequestType DEF FocAsked, MaybeApproval
<1>2. SaveAsked("confirm", foc, discount, FALSE) \in MaybeApproval
  BY RequestType DEF SaveAsked, Base, MaybeApproval, Targets, Early
<1>3. Later(approvals, Ask(approvals, FocAsked("confirm", foc)))
  BY <1>1, AskIsLater
<1>4. Later(approvals, approvals')
  <2>1. Later(Ask(approvals, FocAsked("confirm", foc)), approvals')
    BY <1>2, <1>3, AskIsLater DEF Confirm, Later
  <2> QED
    BY <1>3, <2>1, LaterIsTransitive
<1>5. status' \in Statuses
  BY DEF Confirm, Decided, Base, Statuses, Live, Waiting, Early
<1>6. /\ foc' = foc /\ discount' = discount /\ reason' = reason /\ unasked' = unasked
      /\ Stamp(status')
  BY DEF Confirm
<1> QED
  BY <1>4, <1>5, <1>6 DEF Kept, Later, Stamp

\* /approve gives its verdict to the one approval that waits, or records one.
LEMMA ApproveKeeps == ASSUME Sound, Approve PROVE Kept
<1> USE DEF Sound, TypeOK
<1>1. DecidedKind \in {"approval", "foc"}
  BY DEF DecidedKind
<1>2. status' \in Targets
  BY <1>1, PendingOfType DEF Approve, MaybeApproval, Approvals, Targets
<1>3. Later(approvals, approvals')
  BY <1>1, <1>2, DecideIsLater DEF Approve
<1>4. status' \in Statuses
  BY <1>2 DEF Targets, Statuses, Live, Waiting, Early, Released
<1> QED
  BY <1>3, <1>4 DEF Approve, Kept, Later, Stamp

\* /reject does the same with the other verdict.
LEMMA RejectKeeps == ASSUME Sound, Reject PROVE Kept
<1> USE DEF Sound, TypeOK
<1>1. DecidedKind \in {"approval", "foc"}
  BY DEF DecidedKind
<1>2. Later(approvals, approvals')
  BY <1>1, DecideIsLater DEF Reject, Targets
<1> QED
  BY <1>2 DEF Reject, Kept, Later, Statuses, Released

\* /unconfirm withdraws both kinds and asks for the quote's seats at most.
LEMMA UnconfirmKeeps == ASSUME Sound, NEW over \in BOOLEAN, Unconfirm(over) PROVE Kept
<1> USE DEF Sound, TypeOK
<1> DEFINE one == Close(approvals, "approval", "replaced")
           both == Close(one, "foc", "replaced")
<1>1. Later(approvals, one)
  BY CloseIsLater DEF Verdicts
<1>2. Later(one, both)
  BY <1>1, CloseIsLater DEF Verdicts, Later
<1>3. PICK request \in MaybeApproval : approvals' = Ask(both, request)
  <2>1. Request(TRUE, 0, "quote") \in MaybeApproval /\ NoApproval \in MaybeApproval
    BY RequestType DEF MaybeApproval, Targets, Early
  <2> QED
    BY <2>1 DEF Unconfirm
<1>4. Later(both, approvals')
  BY <1>2, <1>3, AskIsLater DEF Later
<1>5. Later(approvals, approvals')
  BY <1>1, <1>2, <1>4, LaterIsTransitive DEF Later
<1> QED
  BY <1>5 DEF Unconfirm, Kept, Later, Statuses, Live, Waiting, Early

\* A reweighed edit asks for an approval, or for none.
LEMMA ReweighType ==
    ASSUME Sound, NEW weighed \in BOOLEAN, NEW over \in BOOLEAN,
           weighed => Holds(status, approvals) \/ status = "pending_approval"
    PROVE  /\ ReweighAsks(weighed, over) \in MaybeApproval
           /\ ReweighTo(weighed, over) \in Statuses
<1> USE DEF Sound, TypeOK
<1>1. Standing \in MaybeApproval
  BY PendingOfType DEF Standing, MaybeApproval
<1>2. Standing.discount \in Nat
  BY <1>1 DEF MaybeApproval, Approvals, NoApproval
<1>3. weighed => OnItsWayTo \in Targets
  BY <1>1 DEF OnItsWayTo, MaybeApproval, Approvals, Targets, Holds, Live, Waiting, Early
<1>4. ReweighAsks(weighed, over) \in MaybeApproval
  BY <1>2, <1>3, RequestType DEF ReweighAsks, FitsNow, MaybeApproval
<1>5. Targets \subseteq Statuses /\ "pending_approval" \in Statuses
  BY DEF Statuses, Live, Waiting, Early, Released, Targets
<1>6. ReweighClears(weighed, over) => weighed
  BY DEF ReweighClears, FitsNow
<1>7. ReweighTo(weighed, over) \in Statuses
  BY <1>3, <1>5, <1>6 DEF ReweighTo
<1> QED
  BY <1>4, <1>7

\* An edit (reweigh, then settleEdit) asks at most once per kind.
LEMMA EditKeeps ==
    ASSUME Sound, NEW focs \in 0..MaxFoc, NEW disc \in 0..MaxDiscount, NEW why \in BOOLEAN,
           NEW weighed \in BOOLEAN, NEW over \in BOOLEAN,
           weighed => Holds(status, approvals) \/ status = "pending_approval",
           Edit(focs, disc, why, weighed, over)
    PROVE  Kept
<1> USE BoundAssumption DEF Sound, TypeOK
<1> DEFINE asks == status \in Waiting \cup {"confirmed"}
           focRaised == asks /\ focs > foc /\ ~FocGranted(approvals, focs)
           discountRaised == asks /\ disc > discount /\ ~DiscountGranted(approvals, disc)
           asked == ReweighAsks(weighed, over)
           to == ReweighTo(weighed, over)
           waiting == IF to # "pending_approval" THEN NoApproval
                      ELSE IF asked # NoApproval THEN asked ELSE PendingOf(approvals, "approval")
           withFoc == IF focRaised /\ waiting.target = "confirmed"
                      THEN [waiting EXCEPT !.target = "pending_foc"] ELSE waiting
           toFoc == IF focRaised /\ to = "confirmed" THEN "pending_foc" ELSE to
           discounted == discountRaised /\ (toFoc = "confirmed" \/ (toFoc = "pending_approval" /\ withFoc.target = "confirmed"))
           approval == IF ~discounted THEN withFoc
                       ELSE IF withFoc = NoApproval THEN Request(FALSE, disc, "confirmed")
                       ELSE [withFoc EXCEPT !.discount = disc]
           request == IF approval # waiting THEN approval ELSE asked
           cleared == IF ReweighClears(weighed, over) /\ ~discounted
                      THEN Close(approvals, "approval", "replaced") ELSE approvals
           focAsk == IF focRaised THEN FocRequest(focs) ELSE NoApproval
<1>0. focs \in Nat /\ disc \in Nat
  OBVIOUS
<1>1. asked \in MaybeApproval /\ to \in Statuses
  BY ReweighType
<1>2. waiting \in MaybeApproval
  BY <1>1, PendingOfType DEF MaybeApproval
<1>3. withFoc \in MaybeApproval
  <2>1. CASE focRaised /\ waiting.target = "confirmed"
    <3>1. waiting \in Approvals
      BY <1>2, <2>1 DEF MaybeApproval, NoApproval
    <3> QED
      BY <2>1, <3>1, Redirected DEF MaybeApproval, Targets
  <2>2. CASE ~(focRaised /\ waiting.target = "confirmed")
    BY <1>2, <2>2
  <2> QED
    BY <2>1, <2>2
<1>4. approval \in MaybeApproval
  <2> HIDE DEF withFoc, discounted
  <2>1. Request(FALSE, disc, "confirmed") \in Approvals
    BY <1>0 DEF Request, Approvals, Targets
  <2>2. ASSUME withFoc # NoApproval PROVE [withFoc EXCEPT !.discount = disc] \in Approvals
    <3>1. withFoc \in Approvals
      BY <1>3, <2>2 DEF MaybeApproval
    <3> QED
      BY <3>1, <1>0 DEF Approvals
  <2> QED
    BY <1>3, <2>1, <2>2 DEF MaybeApproval
<1>5. request \in MaybeApproval
  BY <1>1, <1>4
<1>6. Later(approvals, cleared)
  <2>1. CASE ReweighClears(weighed, over) /\ ~discounted
    BY <2>1, CloseIsLater DEF Verdicts
  <2>2. CASE ~(ReweighClears(weighed, over) /\ ~discounted)
    BY <2>2, GrowsIsReflexive DEF Later
  <2> QED
    BY <2>1, <2>2
<1>7. focAsk \in MaybeApproval
  BY FocRequestType DEF MaybeApproval
<1>8. /\ approvals' = Ask(Ask(cleared, focAsk), request)
      /\ status' = IF discounted THEN "pending_approval" ELSE toFoc
      /\ foc' = focs /\ discount' = disc /\ reason' = why /\ unasked' = unasked
      /\ Stamp(status') \/ UNCHANGED stamps
  BY DEF Edit
<1> HIDE DEF cleared, focAsk, request, discounted
<1>9. Later(cleared, Ask(cleared, focAsk))
  BY <1>6, <1>7, AskIsLater DEF Later
<1>10. Later(Ask(cleared, focAsk), approvals')
  BY <1>5, <1>8, <1>9, AskIsLater DEF Later
<1>11. Later(approvals, approvals')
  BY <1>6, <1>9, <1>10, LaterIsTransitive DEF Later
<1>12. status' \in Statuses
  BY <1>1, <1>8 DEF Statuses, Live, Waiting
<1> QED
  BY <1>8, <1>11, <1>12 DEF Kept, Later, Stamp

-----------------------------------------------------------------------------
\* Every step keeps the invariant, and moves the approvals only forward.
LEMMA StepKeeps == ASSUME Sound, [Next]_vars PROVE Kept
<1> USE DEF Sound, TypeOK
<1>0. CASE UNCHANGED vars
  BY <1>0, GrowsIsReflexive DEF vars, Kept, Later
<1>1. ASSUME NEW intent \in {"quote", "confirm"}, NEW focs \in 0..MaxFoc, NEW disc \in 0..MaxDiscount,
             NEW why \in Reasons, NEW over \in BOOLEAN, Create(intent, focs, disc, why, over)
      PROVE  Kept
  BY <1>1, CreateKeeps, BoundAssumption
<1>2. CASE EditBooking
  BY <1>2, EditKeeps, BoundAssumption DEF EditBooking
<1>3. CASE Confirm
  BY <1>3, ConfirmKeeps
<1>4. CASE Approve
  BY <1>4, ApproveKeeps
<1>5. CASE Reject
  BY <1>5, RejectKeeps
<1>6. ASSUME NEW over \in BOOLEAN, Unconfirm(over) PROVE Kept
  BY <1>6, UnconfirmKeeps
<1>7. ASSUME NEW to \in {"cancelled", "cancelled_weather"}, Cancel(to) PROVE Kept
  BY <1>7, GrowsIsReflexive DEF Cancel, Kept, Later, Statuses, Released
<1>8. CASE Restore
  BY <1>8, GrowsIsReflexive DEF Restore, Kept, Later, Statuses, Live
<1>9. ASSUME NEW focs \in 0..MaxFoc, PartialCancel(focs) PROVE Kept
  BY <1>9, GrowsIsReflexive, BoundAssumption DEF PartialCancel, Kept, Later
<1> QED
  BY <1>0, <1>1, <1>2, <1>3, <1>4, <1>5, <1>6, <1>7, <1>8, <1>9 DEF Next

\* The invariant of every behaviour.
THEOREM BookingIsSound == Spec => []Sound
<1>1. Init => Sound
  BY BoundAssumption DEF Init, Sound, TypeOK, OneEach, Statuses, Live, Waiting, Early
<1>2. Sound /\ [Next]_vars => Sound'
  BY StepKeeps DEF Sound, Kept, Later
<1> QED
  BY <1>1, <1>2, PTL DEF Spec

\* The booking is always one its table can hold.
THEOREM BookingTypes == Spec => []TypeOK
<1>1. Sound => TypeOK
  BY DEF Sound
<1> QED
  BY <1>1, BookingIsSound, PTL

\* At most one approval per kind waits: /approve and /reject always know which one they decide.
THEOREM OneApprovalWaits == Spec => []AtMostOnePending
<1>1. Sound => AtMostOnePending
  BY DEF Sound, OneEach, AtMostOnePending
<1> QED
  BY <1>1, BookingIsSound, PTL

\* Approvals are never forgotten or rewritten, and a verdict given is final.
THEOREM ApprovalsOnlyGrow == Spec => ApprovalsAppendOnly
<1> DEFINE A == /\ Len(approvals') >= Len(approvals)
                /\ \A i \in 1..Len(approvals) :
                      /\ approvals'[i] = [approvals[i] EXCEPT !.status = approvals'[i].status]
                      /\ approvals[i].status # "pending" => approvals'[i].status = approvals[i].status
<1>1. Sound /\ [Next]_vars => [A]_vars
  BY StepKeeps DEF Kept, Later, Grows
<1> QED
  BY <1>1, BookingIsSound, PTL DEF Spec, ApprovalsAppendOnly

-----------------------------------------------------------------------------
(* What a booking waits for, and what confirms it                          *)

Kinds == {"approval", "foc"}

HasFoc(list) == \E i \in 1..Len(list) : list[i].kind = "foc"

\* Whether a discount of n is approved of, asked for, or excused by an FOC approval.
DiscountAsked(list, n) == DiscountGranted(list, n) \/ HasFoc(list)

-----------------------------------------------------------------------------
(* What waits in a list, and what it grants, after each list operator      *)

\* The one approval of a kind that waits is what PendingOf answers.
LEMMA PendingIsIt ==
    ASSUME NEW list \in Seq(Approvals), OneEach(list), NEW kind, NEW i \in 1..Len(list), IsPending(list[i], kind)
    PROVE  PendingOf(list, kind) = list[i]
<1> DEFINE Q(k) == IsPending(list[k], kind) /\ \A j \in k + 1..Len(list) : ~IsPending(list[j], kind)
<1>1. Q(i)
  BY DEF OneEach, IsPending
<1>2. \A k \in 1..Len(list) : Q(k) => k = i
  BY DEF OneEach, IsPending
<1> HIDE DEF Q
<1>3. (CHOOSE k \in 1..Len(list) : Q(k)) = i
  BY <1>1, <1>2
<1> QED
  BY <1>3 DEF PendingOf, Q

\* When none waits it answers that none does.
LEMMA NothingPending ==
    ASSUME NEW list, NEW kind, \A i \in 1..Len(list) : ~IsPending(list[i], kind)
    PROVE  PendingOf(list, kind) = NoApproval
  BY DEF PendingOf

\* What PendingOf answers, when not that none does, waits in the list.
LEMMA PendingIsListed ==
    ASSUME NEW list \in Seq(Approvals), OneEach(list), NEW kind, PendingOf(list, kind) # NoApproval
    PROVE  /\ \E i \in 1..Len(list) : IsPending(list[i], kind) /\ list[i] = PendingOf(list, kind)
           /\ PendingOf(list, kind) \in Approvals
           /\ IsPending(PendingOf(list, kind), kind)
<1>1. PICK i \in 1..Len(list) : IsPending(list[i], kind)
  BY NothingPending
<1>2. PendingOf(list, kind) = list[i]
  BY <1>1, PendingIsIt
<1> QED
  BY <1>1, <1>2

\* PendingOf finds one exactly when one waits.
LEMMA PendingWhenWaiting ==
    ASSUME NEW list \in Seq(Approvals), OneEach(list), NEW kind
    PROVE  PendingOf(list, kind) # NoApproval <=> \E i \in 1..Len(list) : IsPending(list[i], kind)
<1>1. ASSUME NEW i \in 1..Len(list), IsPending(list[i], kind) PROVE PendingOf(list, kind) # NoApproval
  <2>1. PendingOf(list, kind) = list[i] /\ list[i] \in Approvals
    BY <1>1, PendingIsIt
  <2> QED
    BY <2>1 DEF Approvals, NoApproval
<1> QED
  BY <1>1, PendingIsListed

\* A list whose approvals of a kind wait or not as another's did has the same one waiting.
LEMMA SamePending ==
    ASSUME NEW list \in Seq(Approvals), OneEach(list), NEW bs \in Seq(Approvals), OneEach(bs), NEW kind,
           Len(bs) >= Len(list),
           \A i \in 1..Len(list) : list[i].kind = kind => bs[i] = list[i],
           \A i \in 1..Len(bs) : IsPending(bs[i], kind) => i <= Len(list) /\ list[i].kind = kind
    PROVE  PendingOf(bs, kind) = PendingOf(list, kind)
<1>1. ASSUME NEW i \in 1..Len(list), IsPending(list[i], kind) PROVE PendingOf(bs, kind) = PendingOf(list, kind)
  <2>1. i \in 1..Len(bs) /\ bs[i] = list[i]
    BY <1>1 DEF IsPending
  <2> QED
    BY <1>1, <2>1, PendingIsIt
<1>2. CASE \A i \in 1..Len(list) : ~IsPending(list[i], kind)
  <2>1. ASSUME NEW i \in 1..Len(bs), IsPending(bs[i], kind) PROVE FALSE
    <3>1. i \in 1..Len(list) /\ list[i].kind = kind
      BY <2>1
    <3>2. bs[i] = list[i]
      BY <3>1
    <3> QED
      BY <1>2, <2>1, <3>1, <3>2
  <2> QED
    BY <1>2, <2>1, NothingPending
<1> QED
  BY <1>1, <1>2

\* Every element of a list closed: its own but for the verdict.
LEMMA Closed ==
    ASSUME NEW list \in Seq(Approvals), NEW kind, NEW verdict \in Verdicts, NEW i \in 1..Len(list)
    PROVE  LET a == list[i]
               b == Close(list, kind, verdict)[i]
           IN  /\ a \in Approvals /\ b \in Approvals /\ Len(Close(list, kind, verdict)) = Len(list)
               /\ IsPending(a, kind) => b.status = verdict
               /\ ~IsPending(a, kind) => b = a
               /\ b.kind = a.kind /\ b.foc = a.foc /\ b.discount = a.discount
<1>1. list[i] \in Approvals
  OBVIOUS
<1>2. Close(list, kind, verdict)[i] = IF IsPending(list[i], kind) THEN [list[i] EXCEPT !.status = verdict] ELSE list[i]
  BY DEF Close
<1>3. Len(Close(list, kind, verdict)) = Len(list)
  <2>1. Len(list) \in Nat
    OBVIOUS
  <2> QED
    BY <2>1 DEF Close
<1> DEFINE a == list[i]
           b == Close(list, kind, verdict)[i]
<1>4. CASE IsPending(a, kind)
  <2>1. b = [a EXCEPT !.status = verdict]
    BY <1>2, <1>4
  <2> HIDE DEF a, b
  <2> QED
    BY <1>1, <1>3, <1>4, <2>1 DEF Approvals, Verdicts, a, b
<1>5. CASE ~IsPending(a, kind)
  BY <1>1, <1>2, <1>3, <1>5
<1> QED
  BY <1>4, <1>5

\* After Close nothing of its kind waits; an approval keeps what it grants, and a replaced one gives up its own.
LEMMA CloseView ==
    ASSUME NEW list \in Seq(Approvals), OneEach(list), NEW kind \in Kinds, NEW verdict \in Verdicts \ {"pending"}
    PROVE  LET bs == Close(list, kind, verdict)
           IN  /\ PendingOf(bs, kind) = NoApproval
               /\ \A k \in Kinds \ {kind} : PendingOf(bs, k) = PendingOf(list, k)
               /\ \A n \in Nat : FocGranted(list, n) /\ (verdict = "approved" \/ kind # "foc") => FocGranted(bs, n)
               /\ \A n \in Nat : /\ DiscountGranted(list, n)
                                 /\ verdict = "approved" \/ kind # "approval" \/ ~(PendingOf(list, "approval").discount >= n)
                                 => DiscountGranted(bs, n)
               /\ HasFoc(list) => HasFoc(bs)
<1> DEFINE bs == Close(list, kind, verdict)
<1>1. bs \in Seq(Approvals) /\ OneEach(bs) /\ \A i \in 1..Len(bs) : ~IsPending(bs[i], kind)
  BY CloseIsLater DEF Later
<1>2. \A i \in 1..Len(list) : /\ list[i] \in Approvals /\ bs[i] \in Approvals
                              /\ IsPending(list[i], kind) => bs[i].status = verdict
                              /\ ~IsPending(list[i], kind) => bs[i] = list[i]
                              /\ bs[i].kind = list[i].kind /\ bs[i].foc = list[i].foc /\ bs[i].discount = list[i].discount
  BY Closed
<1>3. Len(bs) = Len(list) /\ Len(list) \in Nat
  <2>1. Len(list) \in Nat
    OBVIOUS
  <2> QED
    BY <2>1 DEF Close
<1> HIDE DEF bs
<1>4. PendingOf(bs, kind) = NoApproval
  BY <1>1, NothingPending
<1>5. ASSUME NEW k \in Kinds \ {kind} PROVE PendingOf(bs, k) = PendingOf(list, k)
  <2>1. \A i \in 1..Len(list) : list[i].kind = k => bs[i] = list[i]
    BY <1>2 DEF IsPending
  <2>2. \A i \in 1..Len(bs) : IsPending(bs[i], k) => i <= Len(list) /\ list[i].kind = k
    BY <1>2, <1>3 DEF IsPending
  <2> QED
    BY <1>1, <1>3, <2>1, <2>2, SamePending
<1>6. ASSUME NEW n \in Nat, FocGranted(list, n), verdict = "approved" \/ kind # "foc" PROVE FocGranted(bs, n)
  BY <1>2, <1>3, <1>6 DEF FocGranted, IsPending
<1>7. ASSUME NEW n \in Nat, DiscountGranted(list, n),
             verdict = "approved" \/ kind # "approval" \/ ~(PendingOf(list, "approval").discount >= n)
      PROVE  DiscountGranted(bs, n)
  <2>1. PICK i \in 1..Len(list) : /\ list[i].kind = "approval" /\ list[i].status \in {"approved", "pending"}
                                  /\ list[i].discount >= n
    BY <1>7 DEF DiscountGranted
  <2>2. IsPending(list[i], "approval") => PendingOf(list, "approval").discount >= n
    BY <2>1, PendingIsIt
  <2>3. bs[i].kind = "approval" /\ bs[i].status \in {"approved", "pending"} /\ bs[i].discount >= n
    BY <1>2, <1>7, <2>1, <2>2 DEF IsPending
  <2> QED
    BY <1>3, <2>3 DEF DiscountGranted
<1>8. HasFoc(list) => HasFoc(bs)
  BY <1>2, <1>3 DEF HasFoc
<1> QED
  BY <1>4, <1>5, <1>6, <1>7, <1>8 DEF bs

\* An approval appended grants what it says; it waits if it is asked, and the others wait on.
LEMMA AppendView ==
    ASSUME NEW list \in Seq(Approvals), OneEach(list), NEW a \in Approvals,
           a.status # "pending" \/ PendingOf(list, a.kind) = NoApproval
    PROVE  LET bs == Append(list, a)
           IN  /\ a.status = "pending" => PendingOf(bs, a.kind) = a
               /\ \A k \in Kinds : a.status # "pending" \/ k # a.kind => PendingOf(bs, k) = PendingOf(list, k)
               /\ \A n \in Nat : FocGranted(list, n) => FocGranted(bs, n)
               /\ \A n \in Nat : DiscountGranted(list, n) => DiscountGranted(bs, n)
               /\ \A n \in Nat : a.status = "pending" /\ a.kind = "foc" /\ a.foc >= n => FocGranted(bs, n)
               /\ \A n \in Nat : a.status = "pending" /\ a.kind = "approval" /\ a.discount >= n => DiscountGranted(bs, n)
               /\ HasFoc(list) \/ a.kind = "foc" => HasFoc(bs)
<1> DEFINE bs == Append(list, a)
<1>1. a.status # "pending" \/ \A i \in 1..Len(list) : ~IsPending(list[i], a.kind)
  BY PendingWhenWaiting
<1>2. bs \in Seq(Approvals) /\ OneEach(bs)
  BY <1>1, AppendIsLater DEF Later
<1>3. /\ Len(list) \in Nat /\ Len(bs) = Len(list) + 1 /\ bs[Len(list) + 1] = a
      /\ \A i \in 1..Len(list) : bs[i] = list[i]
  OBVIOUS
<1> HIDE DEF bs
<1>4. Len(list) + 1 \in 1..Len(bs) /\ \A i \in 1..Len(list) : i \in 1..Len(bs)
  BY <1>3
<1>5. ASSUME a.status = "pending" PROVE PendingOf(bs, a.kind) = a
  <2>1. IsPending(bs[Len(list) + 1], a.kind)
    BY <1>3, <1>5 DEF IsPending
  <2> QED
    BY <1>2, <1>3, <1>4, <2>1, PendingIsIt
<1>6. ASSUME NEW k \in Kinds, a.status # "pending" \/ k # a.kind PROVE PendingOf(bs, k) = PendingOf(list, k)
  <2>1. ASSUME NEW i \in 1..Len(bs), IsPending(bs[i], k) PROVE i <= Len(list) /\ list[i].kind = k
    BY <1>3, <1>6, <2>1 DEF IsPending
  <2> QED
    BY <1>2, <1>3, <2>1, SamePending
<1>7. \A n \in Nat : /\ FocGranted(list, n) => FocGranted(bs, n)
                     /\ a.status = "pending" /\ a.kind = "foc" /\ a.foc >= n => FocGranted(bs, n)
  BY <1>3, <1>4 DEF FocGranted
<1>8. \A n \in Nat : /\ DiscountGranted(list, n) => DiscountGranted(bs, n)
                     /\ a.status = "pending" /\ a.kind = "approval" /\ a.discount >= n => DiscountGranted(bs, n)
  BY <1>3, <1>4 DEF DiscountGranted
<1>9. HasFoc(list) \/ a.kind = "foc" => HasFoc(bs)
  BY <1>3, <1>4 DEF HasFoc
<1> QED
  BY <1>5, <1>6, <1>7, <1>8, <1>9 DEF bs

\* An approval that is asked waits, grants what it asks, and takes the place of the one of its kind that waited.
LEMMA AskView ==
    ASSUME NEW list \in Seq(Approvals), OneEach(list), NEW request \in Approvals, request.status = "pending"
    PROVE  LET bs == Ask(list, request)
           IN  /\ PendingOf(bs, request.kind) = request
               /\ \A k \in Kinds \ {request.kind} : PendingOf(bs, k) = PendingOf(list, k)
               /\ \A n \in Nat : FocGranted(list, n) /\ request.kind # "foc" => FocGranted(bs, n)
               /\ \A n \in Nat : request.kind = "foc" /\ request.foc >= n => FocGranted(bs, n)
               /\ \A n \in Nat : /\ DiscountGranted(list, n)
                                 /\ request.kind # "approval" \/ ~(PendingOf(list, "approval").discount >= n)
                                 => DiscountGranted(bs, n)
               /\ \A n \in Nat : request.kind = "approval" /\ request.discount >= n => DiscountGranted(bs, n)
               /\ HasFoc(list) \/ request.kind = "foc" => HasFoc(bs)
<1> DEFINE closed == Close(list, request.kind, "replaced")
           bs == Ask(list, request)
<1>1. request # NoApproval /\ request.kind \in Kinds
  BY DEF Approvals, NoApproval, Kinds
<1>2. bs = Append(closed, request)
  BY <1>1 DEF Ask
<1>3. closed \in Seq(Approvals) /\ OneEach(closed) /\ "replaced" \in Verdicts \ {"pending"}
  BY CloseIsLater DEF Later, Verdicts
<1>4. /\ PendingOf(closed, request.kind) = NoApproval
      /\ \A k \in Kinds \ {request.kind} : PendingOf(closed, k) = PendingOf(list, k)
      /\ \A n \in Nat : FocGranted(list, n) /\ request.kind # "foc" => FocGranted(closed, n)
      /\ \A n \in Nat : /\ DiscountGranted(list, n)
                        /\ request.kind # "approval" \/ ~(PendingOf(list, "approval").discount >= n)
                        => DiscountGranted(closed, n)
      /\ HasFoc(list) => HasFoc(closed)
  BY <1>1, <1>3, CloseView
<1> HIDE DEF closed, bs
<1>5. /\ PendingOf(bs, request.kind) = request
      /\ \A k \in Kinds : k # request.kind => PendingOf(bs, k) = PendingOf(closed, k)
      /\ \A n \in Nat : FocGranted(closed, n) => FocGranted(bs, n)
      /\ \A n \in Nat : DiscountGranted(closed, n) => DiscountGranted(bs, n)
      /\ \A n \in Nat : request.kind = "foc" /\ request.foc >= n => FocGranted(bs, n)
      /\ \A n \in Nat : request.kind = "approval" /\ request.discount >= n => DiscountGranted(bs, n)
      /\ HasFoc(closed) \/ request.kind = "foc" => HasFoc(bs)
  BY <1>2, <1>3, <1>4, AppendView
<1> QED
  BY <1>4, <1>5 DEF bs

\* A request for free passengers, when one is made (focRequest).
LEMMA AskFocView ==
    ASSUME NEW list \in Seq(Approvals), OneEach(list), NEW n \in Nat, NEW asks \in BOOLEAN,
           NEW bs, bs = Ask(list, IF asks THEN FocRequest(n) ELSE NoApproval)
    PROVE  /\ bs \in Seq(Approvals) /\ OneEach(bs)
           /\ PendingOf(bs, "foc") = IF asks THEN FocRequest(n) ELSE PendingOf(list, "foc")
           /\ PendingOf(bs, "approval") = PendingOf(list, "approval")
           /\ \A m \in Nat : (IF asks THEN m <= n ELSE FocGranted(list, m)) => FocGranted(bs, m)
           /\ \A m \in Nat : DiscountGranted(list, m) => DiscountGranted(bs, m)
           /\ HasFoc(list) \/ asks => HasFoc(bs)
<1> DEFINE request == FocRequest(n)
<1>1. /\ request \in Approvals /\ request.status = "pending" /\ request.kind = "foc" /\ request.foc = n
  BY FocRequestType DEF FocRequest
<1> HIDE DEF request
<1>2. bs \in Seq(Approvals) /\ OneEach(bs)
  BY <1>1, AskIsLater DEF Later, MaybeApproval, request
<1>3. CASE asks
  <2>1. bs = Ask(list, request)
    BY <1>3 DEF request
  <2>2. "approval" \in Kinds \ {request.kind}
    BY <1>1 DEF Kinds
  <2>3. /\ PendingOf(bs, "foc") = request
        /\ PendingOf(bs, "approval") = PendingOf(list, "approval")
        /\ \A m \in Nat : request.foc >= m => FocGranted(bs, m)
        /\ \A m \in Nat : DiscountGranted(list, m) => DiscountGranted(bs, m)
        /\ HasFoc(bs)
    BY <1>1, <2>1, <2>2, AskView
  <2> QED
    BY <1>1, <1>2, <1>3, <2>3 DEF request
<1>4. CASE ~asks
  BY <1>2, <1>4 DEF Ask
<1> QED
  BY <1>3, <1>4

\* A request for a discount or for seats, when one is made (decideStatus, reweigh, settleEdit).
LEMMA AskApprovalView ==
    ASSUME NEW list \in Seq(Approvals), OneEach(list), NEW request \in MaybeApproval,
           request # NoApproval => IsPending(request, "approval"),
           NEW bs, bs = Ask(list, request)
    PROVE  /\ bs \in Seq(Approvals) /\ OneEach(bs)
           /\ PendingOf(bs, "approval") = IF request # NoApproval THEN request ELSE PendingOf(list, "approval")
           /\ PendingOf(bs, "foc") = PendingOf(list, "foc")
           /\ \A m \in Nat : FocGranted(list, m) => FocGranted(bs, m)
           /\ \A m \in Nat : request # NoApproval /\ request.discount >= m => DiscountGranted(bs, m)
           /\ \A m \in Nat : /\ DiscountGranted(list, m)
                             /\ request = NoApproval \/ ~(PendingOf(list, "approval").discount >= m)
                             => DiscountGranted(bs, m)
           /\ HasFoc(list) => HasFoc(bs)
<1>1. bs \in Seq(Approvals) /\ OneEach(bs)
  BY AskIsLater DEF Later
<1>2. CASE request # NoApproval
  <2>1. request \in Approvals /\ request.status = "pending" /\ request.kind = "approval"
    BY <1>2 DEF MaybeApproval, IsPending
  <2>2. "foc" \in Kinds \ {request.kind}
    BY <2>1 DEF Kinds
  <2>3. /\ PendingOf(bs, "approval") = request
        /\ PendingOf(bs, "foc") = PendingOf(list, "foc")
        /\ \A m \in Nat : FocGranted(list, m) => FocGranted(bs, m)
        /\ \A m \in Nat : request.discount >= m => DiscountGranted(bs, m)
        /\ \A m \in Nat : /\ DiscountGranted(list, m)
                          /\ ~(PendingOf(list, "approval").discount >= m)
                          => DiscountGranted(bs, m)
        /\ HasFoc(list) => HasFoc(bs)
    BY <2>1, <2>2, AskView
  <2> QED
    BY <1>1, <1>2, <2>3
<1>3. CASE request = NoApproval
  BY <1>1, <1>3 DEF Ask
<1> QED
  BY <1>2, <1>3

\* What is granted for more is granted for less; what waits grants what it asks.
LEMMA Grants ==
    ASSUME NEW list \in Seq(Approvals), OneEach(list)
    PROVE  /\ \A m, n \in Nat : FocGranted(list, n) /\ m <= n => FocGranted(list, m)
           /\ \A m, n \in Nat : DiscountGranted(list, n) /\ m <= n => DiscountGranted(list, m)
           /\ PendingOf(list, "foc") # NoApproval => HasFoc(list)
           /\ \A n \in Nat : PendingOf(list, "approval") # NoApproval /\ PendingOf(list, "approval").discount >= n
                                 => DiscountGranted(list, n)
<1>1. \A i \in 1..Len(list) : list[i] \in Approvals /\ list[i].foc \in Nat /\ list[i].discount \in Nat
  <2>1. \A a \in Approvals : a.foc \in Nat /\ a.discount \in Nat
    BY DEF Approvals
  <2> QED
    BY <2>1
<1>2. \A m, n \in Nat : FocGranted(list, n) /\ m <= n => FocGranted(list, m)
  BY <1>1 DEF FocGranted
<1>3. \A m, n \in Nat : DiscountGranted(list, n) /\ m <= n => DiscountGranted(list, m)
  BY <1>1 DEF DiscountGranted
<1>4. PendingOf(list, "foc") # NoApproval => HasFoc(list)
  BY PendingIsListed DEF HasFoc, IsPending
<1>5. ASSUME NEW n \in Nat, PendingOf(list, "approval") # NoApproval, PendingOf(list, "approval").discount >= n
      PROVE  DiscountGranted(list, n)
  <2>1. PICK i \in 1..Len(list) : IsPending(list[i], "approval") /\ list[i] = PendingOf(list, "approval")
    BY <1>5, PendingIsListed
  <2> QED
    BY <1>5, <2>1 DEF DiscountGranted, IsPending
<1> QED
  BY <1>2, <1>3, <1>4, <1>5

-----------------------------------------------------------------------------
(* The invariant                                                           *)

Pa == PendingOf(approvals, "approval")
Pf == PendingOf(approvals, "foc")

\* On its way to be confirmed, with nobody else to ask but those it waits for.
Confirming ==
    \/ status \in {"confirmed", "pending_foc"}
    \/ status = "pending_approval" /\ Pa.target \in {"confirmed", "pending_foc"}

\* No approval waits that the booking's status does not wait for.
NoStray == status \in Early \cup {"absent", "confirmed", "pending_foc"} => Pa = NoApproval

\* What the status waits for is there.
Awaited ==
    /\ status = "pending_approval" => Pa # NoApproval
    /\ status = "pending_foc" \/ (status = "pending_approval" /\ Pa.target = "pending_foc") => Pf # NoApproval

\* All it gives away, on its way to be confirmed, was asked for.
Covered ==
    Confirming => /\ foc > 0 => FocGranted(approvals, foc)
                  /\ discount > 0 => DiscountAsked(approvals, discount)

\* What waits never sends the booking to rejected.
GoesOn == Pa.target # "rejected" /\ Pf.target # "rejected"

Asking == GoesOn /\ (~unasked => NoStray /\ Awaited /\ Covered)

\* What waits is an approval, of its kind, that waits.
LEMMA Waiters ==
    ASSUME Sound
    PROVE  /\ Pa \in MaybeApproval /\ (Pa # NoApproval => Pa \in Approvals /\ IsPending(Pa, "approval"))
           /\ Pf \in MaybeApproval /\ (Pf # NoApproval => Pf \in Approvals /\ IsPending(Pf, "foc"))
<1>1. approvals \in Seq(Approvals) /\ OneEach(approvals)
  BY DEF Sound, TypeOK
<1> QED
  BY <1>1, PendingOfType, PendingIsListed DEF Pa, Pf

\* A save and /confirm ask for all they give away, or go on with what needs no asking (decideStatus).
LEMMA SaveAsks ==
    ASSUME Sound, GoesOn, ~unasked => Pa = NoApproval, NEW intent \in {"quote", "confirm"},
           NEW focs \in Nat, NEW disc \in Nat, NEW over \in BOOLEAN,
           approvals' = Ask(Ask(approvals, FocAsked(intent, focs)), SaveAsked(intent, focs, disc, over)),
           status' = Decided(intent, focs, disc, over), foc' = focs, discount' = disc, unasked' = unasked
    PROVE  /\ Asking'
           /\ status' = "pending_approval" => Pa'.over = over
           /\ status' \in {"quote", "confirmed", "pending_foc", "pending_approval"}
<1> DEFINE asks == intent = "confirm" /\ focs > 0
           request == SaveAsked(intent, focs, disc, over)
           l1 == Ask(approvals, FocAsked(intent, focs))
<1>1. approvals \in Seq(Approvals) /\ OneEach(approvals)
  BY DEF Sound, TypeOK
<1>2. l1 = Ask(approvals, IF asks THEN FocRequest(focs) ELSE NoApproval)
  BY DEF FocAsked
<1>3. Base(intent, focs) \in Targets /\ Base(intent, focs) \notin {"rejected", "pending_approval"}
  BY DEF Base, Targets, Early
<1>4. /\ request \in MaybeApproval
      /\ request # NoApproval => /\ IsPending(request, "approval") /\ request.target = Base(intent, focs)
                                 /\ request.over = over
                                 /\ Base(intent, focs) = "confirmed" /\ disc > 0 => request.discount = disc
      /\ over \/ (Base(intent, focs) = "confirmed" /\ disc > 0) => request # NoApproval
  <2>1. \A n \in Nat : /\ Request(over, n, Base(intent, focs)) \in Approvals
                       /\ Request(over, n, Base(intent, focs)) # NoApproval
    BY <1>3, RequestType DEF Request, NoApproval
  <2>2. CASE over \/ (Base(intent, focs) = "confirmed" /\ disc > 0)
    <3>1. request = Request(over, IF Base(intent, focs) = "confirmed" /\ disc > 0 THEN disc ELSE 0, Base(intent, focs))
      BY <2>2 DEF SaveAsked
    <3> QED
      BY <2>1, <3>1 DEF Request, IsPending, MaybeApproval
  <2>3. CASE ~(over \/ (Base(intent, focs) = "confirmed" /\ disc > 0))
    BY <2>3 DEF SaveAsked, MaybeApproval
  <2> QED
    BY <2>2, <2>3
<1> HIDE DEF l1, request
<1>5. /\ l1 \in Seq(Approvals) /\ OneEach(l1)
      /\ PendingOf(l1, "foc") = IF asks THEN FocRequest(focs) ELSE Pf
      /\ PendingOf(l1, "approval") = Pa
      /\ asks => FocGranted(l1, focs) /\ HasFoc(l1)
  <2>1. asks \in BOOLEAN
    OBVIOUS
  <2> HIDE DEF asks
  <2>2. /\ l1 \in Seq(Approvals) /\ OneEach(l1)
        /\ PendingOf(l1, "foc") = IF asks THEN FocRequest(focs) ELSE Pf
        /\ PendingOf(l1, "approval") = Pa
        /\ \A m \in Nat : (IF asks THEN m <= focs ELSE FocGranted(approvals, m)) => FocGranted(l1, m)
        /\ HasFoc(approvals) \/ asks => HasFoc(l1)
    BY <1>1, <1>2, <2>1, AskFocView DEF Pa, Pf
  <2> QED
    BY <2>2
<1>6. /\ Pa' = IF request # NoApproval THEN request ELSE Pa
      /\ Pf' = IF asks THEN FocRequest(focs) ELSE Pf
      /\ asks => FocGranted(approvals', focs) /\ HasFoc(approvals')
      /\ request # NoApproval /\ request.discount >= disc => DiscountGranted(approvals', disc)
  <2>1. approvals' = Ask(l1, request)
    BY DEF l1, request
  <2>2. /\ PendingOf(approvals', "approval") = IF request # NoApproval THEN request ELSE PendingOf(l1, "approval")
        /\ PendingOf(approvals', "foc") = PendingOf(l1, "foc")
        /\ \A m \in Nat : FocGranted(l1, m) => FocGranted(approvals', m)
        /\ \A m \in Nat : request # NoApproval /\ request.discount >= m => DiscountGranted(approvals', m)
        /\ HasFoc(l1) => HasFoc(approvals')
    BY <1>4, <1>5, <2>1, AskApprovalView
  <2> QED
    BY <1>5, <2>2 DEF Pa, Pf
<1>7. status' = IF request # NoApproval THEN "pending_approval" ELSE Base(intent, focs)
  BY DEF Decided, request
<1>8. FocRequest(focs).target = "confirmed" /\ FocRequest(focs) # NoApproval
  BY DEF FocRequest, NoApproval
<1>9. Base(intent, focs) = IF intent = "quote" THEN "quote" ELSE IF asks THEN "pending_foc" ELSE "confirmed"
  BY DEF Base
<1>10. GoesOn'
  BY <1>3, <1>4, <1>6, <1>8 DEF GoesOn
<1>11. (NoStray' /\ Awaited') \/ unasked
  <2>1. CASE request # NoApproval
    <3>1. Pa' = request /\ status' = "pending_approval" /\ request.target = Base(intent, focs)
      BY <1>4, <1>6, <1>7, <2>1
    <3>2. Base(intent, focs) = "pending_foc" => Pf' # NoApproval
      BY <1>6, <1>8, <1>9
    <3> QED
      BY <2>1, <3>1, <3>2 DEF NoStray, Awaited, Early
  <2>2. CASE request = NoApproval
    <3>1. Pa' = Pa /\ status' = Base(intent, focs)
      BY <1>6, <1>7, <2>2
    <3>2. Base(intent, focs) = "pending_foc" => Pf' # NoApproval
      BY <1>6, <1>8, <1>9
    <3>3. Base(intent, focs) # "pending_approval"
      BY <1>3
    <3> QED
      BY <3>1, <3>2, <3>3 DEF NoStray, Awaited
  <2> QED
    BY <2>1, <2>2
<1>12. Confirming' => intent = "confirm" \/ unasked
  BY <1>4, <1>6, <1>7, <1>9 DEF Confirming, NoApproval
<1>13. Covered' \/ unasked
  <2>1. SUFFICES ASSUME Confirming', ~unasked
                 PROVE  (focs > 0 => FocGranted(approvals', focs)) /\ (disc > 0 => DiscountAsked(approvals', disc))
    BY DEF Covered
  <2>2. focs > 0 => FocGranted(approvals', focs) /\ HasFoc(approvals')
    BY <1>6, <1>12, <2>1
  <2>3. ASSUME disc > 0, ~(focs > 0) PROVE DiscountGranted(approvals', disc)
    <3>1. Base(intent, focs) = "confirmed"
      BY <1>9, <1>12, <2>1, <2>3
    <3>2. request # NoApproval /\ request.discount = disc
      BY <1>4, <2>3, <3>1
    <3> QED
      BY <1>6, <3>2
  <2> QED
    BY <2>2, <2>3 DEF DiscountAsked
<1> QED
  BY <1>3, <1>4, <1>6, <1>7, <1>9, <1>10, <1>11, <1>13 DEF Asking

-----------------------------------------------------------------------------
(* Every command keeps it                                                  *)

LEMMA CreateAsks ==
    ASSUME Sound, Asking, NEW intent \in {"quote", "confirm"}, NEW focs \in 0..MaxFoc, NEW disc \in 0..MaxDiscount,
           NEW why \in Reasons, NEW over \in BOOLEAN, Create(intent, focs, disc, why, over)
    PROVE  Asking' /\ status' \in {"quote", "confirmed", "pending_foc", "pending_approval"}
<1>1. GoesOn /\ (~unasked => Pa = NoApproval)
  BY DEF Asking, NoStray, Create
<1>2. focs \in Nat /\ disc \in Nat
  BY BoundAssumption
<1> QED
  BY <1>1, <1>2, SaveAsks DEF Create

LEMMA ConfirmAsks ==
    ASSUME Sound, Asking, Confirm
    PROVE  /\ Asking' /\ status' \in {"quote", "confirmed", "pending_foc", "pending_approval"}
           /\ status' # "quote" /\ (status' = "pending_approval" => ~Pa'.over)
<1>1. GoesOn /\ (~unasked => Pa = NoApproval)
  BY DEF Asking, NoStray, Confirm
<1>2. foc \in Nat /\ discount \in Nat
  BY DEF Sound, TypeOK
<1>3. /\ approvals' = Ask(Ask(approvals, FocAsked("confirm", foc)), SaveAsked("confirm", foc, discount, FALSE))
      /\ status' = Decided("confirm", foc, discount, FALSE)
      /\ foc' = foc /\ discount' = discount /\ unasked' = unasked
  BY DEF Confirm
<1> QED
  <2>1. status' # "quote"
    BY <1>3 DEF Decided, Base
  <2> QED
    BY <1>1, <1>2, <1>3, <2>1, SaveAsks

\* After a decision nothing of its kind waits, and an approval takes nothing back.
LEMMA DecideView ==
    ASSUME Sound, NEW kind \in Kinds, NEW verdict \in {"approved", "rejected"}, NEW target \in Targets,
           NEW bs, bs = Decide(approvals, kind, verdict, target)
    PROVE  /\ PendingOf(bs, kind) = NoApproval
           /\ \A k \in Kinds \ {kind} : PendingOf(bs, k) = PendingOf(approvals, k)
           /\ verdict = "approved" => /\ \A n \in Nat : FocGranted(approvals, n) => FocGranted(bs, n)
                                      /\ \A n \in Nat : DiscountGranted(approvals, n) => DiscountGranted(bs, n)
           /\ HasFoc(approvals) => HasFoc(bs)
<1>1. approvals \in Seq(Approvals) /\ OneEach(approvals) /\ foc \in Nat
  BY DEF Sound, TypeOK
<1>2. verdict \in Verdicts \ {"pending"}
  BY DEF Verdicts
<1>3. CASE PendingOf(approvals, kind) # NoApproval
  <2>1. bs = Close(approvals, kind, verdict)
    BY <1>3 DEF Decide
  <2> QED
    BY <1>1, <1>2, <2>1, CloseView
<1>4. CASE PendingOf(approvals, kind) = NoApproval
  <2> DEFINE a == [kind |-> kind, status |-> verdict, over |-> FALSE, discount |-> 0,
                   foc |-> IF kind = "foc" THEN foc ELSE 0, target |-> target]
  <2>1. a \in Approvals /\ a.status # "pending"
    BY <1>1 DEF Approvals, Kinds
  <2>2. bs = Append(approvals, a)
    BY <1>4 DEF Decide
  <2> HIDE DEF a
  <2>3. /\ \A k \in Kinds : PendingOf(bs, k) = PendingOf(approvals, k)
        /\ \A n \in Nat : FocGranted(approvals, n) => FocGranted(bs, n)
        /\ \A n \in Nat : DiscountGranted(approvals, n) => DiscountGranted(bs, n)
        /\ HasFoc(approvals) => HasFoc(bs)
    BY <1>1, <2>1, <2>2, AppendView
  <2> QED
    BY <1>4, <2>3
<1> QED
  BY <1>3, <1>4

LEMMA ApproveAsks ==
    ASSUME Sound, Asking, Approve
    PROVE  Asking' /\ status' \in Early \cup {"confirmed", "pending_foc", "completed"}
<1> DEFINE pending == PendingOf(approvals, DecidedKind)
<1>1. /\ status \in Waiting
      /\ status' = IF DecidedKind = "foc" \/ pending = NoApproval THEN "confirmed" ELSE pending.target
      /\ approvals' = Decide(approvals, DecidedKind, "approved", status')
      /\ foc' = foc /\ discount' = discount /\ unasked' = unasked
  BY DEF Approve
<1>2. foc \in Nat /\ discount \in Nat
  BY DEF Sound, TypeOK
<1>3. CASE status = "pending_foc"
  <2>1. DecidedKind = "foc" /\ "foc" \in Kinds /\ "approval" \in Kinds \ {"foc"}
    BY <1>3 DEF DecidedKind, Kinds
  <2>2. status' = "confirmed" /\ status' \in Targets
    BY <1>1, <2>1 DEF Targets
  <2>3. /\ Pf' = NoApproval /\ Pa' = Pa
        /\ \A n \in Nat : FocGranted(approvals, n) => FocGranted(approvals', n)
        /\ \A n \in Nat : DiscountGranted(approvals, n) => DiscountGranted(approvals', n)
        /\ HasFoc(approvals) => HasFoc(approvals')
    BY <1>1, <2>1, <2>2, DecideView DEF Pa, Pf
  <2>4. GoesOn'
    BY <2>3 DEF Asking, GoesOn, NoApproval
  <2>5. ~unasked => NoStray' /\ Awaited'
    BY <1>3, <2>2, <2>3 DEF Asking, NoStray, Awaited
  <2>6. ~unasked => Covered'
    BY <1>1, <1>2, <1>3, <2>3 DEF Asking, Covered, Confirming, DiscountAsked
  <2> QED
    BY <1>1, <2>2, <2>4, <2>5, <2>6 DEF Asking
<1>4. CASE status = "pending_approval"
  <2>1. DecidedKind = "approval" /\ "approval" \in Kinds /\ "foc" \in Kinds \ {"approval"}
    BY <1>4 DEF DecidedKind, Kinds
  <2>2. status' = (IF Pa = NoApproval THEN "confirmed" ELSE Pa.target) /\ status' \in Targets /\ status' # "pending_approval"
    <3>1. Pa # NoApproval => Pa.target \in Targets
      BY Waiters DEF Approvals
    <3> QED
      BY <1>1, <2>1, <3>1 DEF Targets, Early, Pa
  <2>3. /\ Pa' = NoApproval /\ Pf' = Pf
        /\ \A n \in Nat : FocGranted(approvals, n) => FocGranted(approvals', n)
        /\ \A n \in Nat : DiscountGranted(approvals, n) => DiscountGranted(approvals', n)
        /\ HasFoc(approvals) => HasFoc(approvals')
    BY <1>1, <2>1, <2>2, DecideView DEF Pa, Pf
  <2>4. GoesOn'
    BY <2>3 DEF Asking, GoesOn, NoApproval
  <2>5. ~unasked => NoStray' /\ Awaited'
    BY <1>4, <2>2, <2>3 DEF Asking, NoStray, Awaited
  <2>6. ~unasked => Covered'
    BY <1>1, <1>2, <1>4, <2>2, <2>3 DEF Asking, Awaited, Covered, Confirming, DiscountAsked
  <2>7. status' # "rejected"
    BY <2>2 DEF Asking, GoesOn
  <2> QED
    BY <1>1, <2>2, <2>4, <2>5, <2>6, <2>7 DEF Asking, Targets
<1> QED
  BY <1>1, <1>3, <1>4 DEF Waiting

LEMMA RejectAsks == ASSUME Sound, Asking, Reject PROVE Asking'
<1>1. status' = "rejected" /\ approvals' = Decide(approvals, DecidedKind, "rejected", status') /\ unasked' = unasked
  BY DEF Reject
<1>2. DecidedKind \in Kinds /\ "rejected" \in Targets
  BY DEF DecidedKind, Kinds, Targets
<1>3. \A k \in Kinds : PendingOf(approvals', k) \in {NoApproval, PendingOf(approvals, k)}
  BY <1>1, <1>2, DecideView
<1>4. Pa' \in {NoApproval, Pa} /\ Pf' \in {NoApproval, Pf}
  BY <1>3 DEF Pa, Pf, Kinds
<1>5. GoesOn'
  BY <1>4 DEF Asking, GoesOn, NoApproval
<1>6. NoStray' /\ Awaited' /\ Covered'
  BY <1>1 DEF NoStray, Awaited, Covered, Confirming, Early
<1> QED
  BY <1>5, <1>6 DEF Asking

LEMMA UnconfirmAsks ==
    ASSUME Sound, Asking, NEW over \in BOOLEAN, Unconfirm(over)
    PROVE  /\ Asking'
           /\ status' = "pending_approval" => status = "pending_approval" /\ Pa.over /\ Pa'.over
<1> DEFINE one == Close(approvals, "approval", "replaced")
           both == Close(one, "foc", "replaced")
           still == status = "pending_approval" /\ PendingOf(approvals, "approval").over /\ over
           request == IF still THEN Request(TRUE, 0, "quote") ELSE NoApproval
<1>1. /\ approvals' = Ask(both, request)
      /\ status' = IF still THEN "pending_approval" ELSE "quote"
      /\ unasked' = unasked
  BY DEF Unconfirm
<1>2. /\ "replaced" \in Verdicts \ {"pending"} /\ "approval" \in Kinds \ {"foc"} /\ "foc" \in Kinds
      /\ approvals \in Seq(Approvals) /\ OneEach(approvals)
  BY DEF Verdicts, Kinds, Sound, TypeOK
<1>3. one \in Seq(Approvals) /\ OneEach(one)
  BY <1>2, CloseIsLater DEF Later
<1>4. PendingOf(one, "approval") = NoApproval
  BY <1>2, CloseView
<1> HIDE DEF one
<1>5. both \in Seq(Approvals) /\ OneEach(both)
  BY <1>2, <1>3, CloseIsLater DEF Later
<1>6. PendingOf(both, "foc") = NoApproval /\ PendingOf(both, "approval") = NoApproval
  BY <1>2, <1>3, <1>4, CloseView
<1> HIDE DEF both
<1>7. /\ request \in MaybeApproval /\ (request # NoApproval => IsPending(request, "approval"))
      /\ still => request # NoApproval /\ request.target = "quote" /\ request.over
      /\ still => status = "pending_approval" /\ Pa.over
      /\ ~still => request = NoApproval
  BY RequestType DEF Request, MaybeApproval, IsPending, NoApproval, Targets, Early, Pa
<1> HIDE DEF still, request
<1>8. Pa' = (IF request # NoApproval THEN request ELSE NoApproval) /\ Pf' = NoApproval
  BY <1>1, <1>5, <1>6, <1>7, AskApprovalView DEF Pa, Pf
<1>9. GoesOn'
  BY <1>7, <1>8 DEF GoesOn, NoApproval
<1>10. NoStray' /\ Awaited' /\ Covered'
  BY <1>1, <1>7, <1>8 DEF NoStray, Awaited, Covered, Confirming, Early
<1> QED
  BY <1>1, <1>7, <1>8, <1>9, <1>10 DEF Asking

LEMMA CancelAsks == ASSUME Sound, Asking, NEW to \in {"cancelled", "cancelled_weather"}, Cancel(to) PROVE Asking'
<1>1. status' = to /\ approvals' = approvals /\ unasked' = unasked
  BY DEF Cancel
<1>2. GoesOn'
  BY <1>1 DEF Asking, GoesOn, Pa, Pf
<1>3. NoStray' /\ Awaited' /\ Covered'
  BY <1>1 DEF NoStray, Awaited, Covered, Confirming, Early
<1> QED
  BY <1>2, <1>3 DEF Asking

LEMMA RestoreAsks == ASSUME Sound, Asking, Restore PROVE Asking'
<1>1. approvals' = approvals /\ unasked'
  BY DEF Restore
<1> QED
  BY <1>1 DEF Asking, GoesOn, Pa, Pf

LEMMA PartialCancelAsks == ASSUME Sound, Asking, NEW focs \in 0..MaxFoc, PartialCancel(focs) PROVE Asking'
<1>1. status' = status /\ approvals' = approvals /\ unasked' = unasked /\ discount' = discount /\ foc' = focs /\ focs < foc
  BY DEF PartialCancel
<1>2. foc \in Nat /\ focs \in Nat /\ approvals \in Seq(Approvals) /\ OneEach(approvals)
  BY BoundAssumption DEF Sound, TypeOK
<1>3. GoesOn' /\ (NoStray => NoStray') /\ (Awaited => Awaited')
  BY <1>1 DEF Asking, GoesOn, NoStray, Awaited, Pa, Pf
<1>4. focs > 0 /\ FocGranted(approvals, foc) => FocGranted(approvals, focs)
  BY <1>1, <1>2, Grants
<1>5. Covered => Covered'
  BY <1>1, <1>2, <1>4 DEF Covered, Confirming, Pa
<1> QED
  BY <1>1, <1>3, <1>5 DEF Asking

\* What the reweigh of an edit asks, and where it sends the booking (reweigh).
LEMMA ReweighView ==
    ASSUME Sound, NEW weighed \in BOOLEAN, NEW over \in BOOLEAN,
           weighed => Holds(status, approvals) \/ status = "pending_approval"
    PROVE  LET asked == ReweighAsks(weighed, over)
               to == ReweighTo(weighed, over)
               clears == ReweighClears(weighed, over)
           IN  /\ asked \in MaybeApproval
               /\ asked # NoApproval =>
                     /\ asked \in Approvals /\ IsPending(asked, "approval") /\ to = "pending_approval"
                     /\ asked.discount = IF status = "pending_approval" THEN Pa.discount ELSE 0
                     /\ asked.target = IF status # "pending_approval" THEN status
                                       ELSE IF Pa # NoApproval THEN Pa.target ELSE "confirmed"
               /\ clears => /\ asked = NoApproval /\ status = "pending_approval" /\ Pa # NoApproval
                            /\ Pa.over /\ Pa.discount = 0 /\ to = Pa.target
               /\ asked = NoApproval /\ ~clears => to = status
<1> DEFINE asked == ReweighAsks(weighed, over)
           to == ReweighTo(weighed, over)
           clears == ReweighClears(weighed, over)
<1>1. asked \in MaybeApproval
  BY ReweighType
<1>2. Standing = IF status = "pending_approval" THEN Pa ELSE NoApproval
  BY DEF Standing, Pa
<1>3. Standing.discount = IF status = "pending_approval" THEN Pa.discount ELSE 0
  BY <1>2 DEF NoApproval
<1>4. OnItsWayTo = IF status # "pending_approval" THEN status
                   ELSE IF Pa # NoApproval THEN Pa.target ELSE "confirmed"
  BY <1>2 DEF OnItsWayTo
<1>5. FitsNow(weighed, over) => status = "pending_approval" /\ Pa # NoApproval /\ Pa.over /\ ~over
  BY <1>2 DEF FitsNow, NoApproval
<1>6. Standing.discount \in Nat
  BY <1>3, Waiters DEF MaybeApproval, Approvals, NoApproval
<1>7. ASSUME asked # NoApproval
      PROVE  asked \in Approvals /\ IsPending(asked, "approval") /\ to = "pending_approval"
             /\ asked.discount = Standing.discount /\ asked.target = OnItsWayTo
  <2>1. asked = Request(TRUE, Standing.discount, OnItsWayTo) \/ asked = Request(FALSE, Standing.discount, OnItsWayTo)
    BY <1>7 DEF ReweighAsks
  <2> QED
    BY <1>1, <1>7, <2>1 DEF Request, IsPending, ReweighTo, MaybeApproval
<1>8. ASSUME clears
      PROVE  asked = NoApproval /\ status = "pending_approval" /\ Pa # NoApproval /\ Pa.over /\ Pa.discount = 0 /\ to = Pa.target
  <2>1. status = "pending_approval" /\ Pa # NoApproval /\ Pa.over /\ Pa.discount = 0 /\ Standing.discount = 0 /\ ~over
    BY <1>3, <1>5, <1>8 DEF ReweighClears
  <2>2. asked = NoApproval
    BY <2>1 DEF ReweighAsks
  <2> QED
    BY <1>4, <1>8, <2>1, <2>2 DEF ReweighTo
<1>9. asked = NoApproval /\ ~clears => to = status
  BY DEF ReweighTo
<1> QED
  BY <1>1, <1>3, <1>4, <1>7, <1>8, <1>9

(* The steps of settleEdit, for what the reweigh asked and what was raised *)
WaitingOn(asked, to) == IF to # "pending_approval" THEN NoApproval ELSE IF asked # NoApproval THEN asked ELSE Pa
WithFoc(asked, to, focRaised) ==
    IF focRaised /\ WaitingOn(asked, to).target = "confirmed"
    THEN [WaitingOn(asked, to) EXCEPT !.target = "pending_foc"] ELSE WaitingOn(asked, to)
ToFoc(to, focRaised) == IF focRaised /\ to = "confirmed" THEN "pending_foc" ELSE to
Discounted(asked, to, focRaised, discountRaised) ==
    /\ discountRaised
    /\ \/ ToFoc(to, focRaised) = "confirmed"
       \/ ToFoc(to, focRaised) = "pending_approval" /\ WithFoc(asked, to, focRaised).target = "confirmed"
Settled(asked, to, disc, focRaised, discountRaised) ==
    IF ~Discounted(asked, to, focRaised, discountRaised) THEN WithFoc(asked, to, focRaised)
    ELSE IF WithFoc(asked, to, focRaised) = NoApproval THEN Request(FALSE, disc, "confirmed")
    ELSE [WithFoc(asked, to, focRaised) EXCEPT !.discount = disc]
SettledRequest(asked, to, disc, focRaised, discountRaised) ==
    IF Settled(asked, to, disc, focRaised, discountRaised) # WaitingOn(asked, to)
    THEN Settled(asked, to, disc, focRaised, discountRaised) ELSE asked

\* What settleEdit asks for: the facts about its request that the lists and the status need.
LEMMA SettleView ==
    ASSUME Sound, NEW asked \in MaybeApproval, asked # NoApproval => asked \in Approvals /\ IsPending(asked, "approval"),
           NEW to, asked # NoApproval => to = "pending_approval",
           NEW disc \in Nat, NEW focRaised \in BOOLEAN, NEW discountRaised \in BOOLEAN
    PROVE  LET waiting == WaitingOn(asked, to)
               toFoc == ToFoc(to, focRaised)
               discounted == Discounted(asked, to, focRaised, discountRaised)
               approval == Settled(asked, to, disc, focRaised, discountRaised)
               request == SettledRequest(asked, to, disc, focRaised, discountRaised)
           IN  /\ request \in MaybeApproval /\ (request # NoApproval => IsPending(request, "approval"))
               /\ to = "pending_approval" =>
                     /\ toFoc = "pending_approval"
                     /\ request = NoApproval => approval = Pa
                     /\ request # NoApproval => approval = request
                     /\ approval = NoApproval <=> waiting = NoApproval
                     /\ approval.target = IF focRaised /\ waiting.target = "confirmed" THEN "pending_foc" ELSE waiting.target
                     /\ approval.discount = IF discounted THEN disc ELSE waiting.discount
                     /\ discounted <=> discountRaised /\ approval.target = "confirmed"
               /\ to # "pending_approval" =>
                     /\ discounted <=> discountRaised /\ to = "confirmed" /\ ~focRaised
                     /\ discounted => /\ request # NoApproval /\ request.target = "confirmed" /\ request.discount = disc
                     /\ ~discounted => request = NoApproval
<1> DEFINE waiting == IF to # "pending_approval" THEN NoApproval ELSE IF asked # NoApproval THEN asked ELSE Pa
           withFoc == IF focRaised /\ waiting.target = "confirmed"
                      THEN [waiting EXCEPT !.target = "pending_foc"] ELSE waiting
           toFoc == IF focRaised /\ to = "confirmed" THEN "pending_foc" ELSE to
           discounted == discountRaised /\ (toFoc = "confirmed" \/ (toFoc = "pending_approval" /\ withFoc.target = "confirmed"))
           approval == IF ~discounted THEN withFoc
                       ELSE IF withFoc = NoApproval THEN Request(FALSE, disc, "confirmed")
                       ELSE [withFoc EXCEPT !.discount = disc]
           request == IF approval # waiting THEN approval ELSE asked
<1>1. waiting \in MaybeApproval /\ (waiting # NoApproval => waiting \in Approvals /\ IsPending(waiting, "approval"))
  BY Waiters
<1>2. NoApproval.target = "none"
  BY DEF NoApproval
<1>3. ASSUME to # "pending_approval"
      PROVE  /\ request \in MaybeApproval /\ (request # NoApproval => IsPending(request, "approval"))
             /\ discounted <=> discountRaised /\ to = "confirmed" /\ ~focRaised
             /\ discounted => /\ request # NoApproval /\ request.target = "confirmed" /\ request.discount = disc
             /\ ~discounted => request = NoApproval
  <2>1. waiting = NoApproval /\ withFoc = NoApproval /\ asked = NoApproval
    BY <1>2, <1>3
  <2>2. discounted <=> discountRaised /\ to = "confirmed" /\ ~focRaised
    BY <1>2, <1>3, <2>1
  <2>3. Request(FALSE, disc, "confirmed") \in Approvals /\ Request(FALSE, disc, "confirmed") # NoApproval
    BY RequestType DEF Targets, Request, NoApproval
  <2>4. request = IF discounted THEN Request(FALSE, disc, "confirmed") ELSE NoApproval
    BY <2>1, <2>3
  <2> HIDE DEF request, discounted
  <2> QED
    BY <1>3, <2>2, <2>3, <2>4 DEF Request, IsPending, MaybeApproval
<1>4. ASSUME to = "pending_approval"
      PROVE  /\ request \in MaybeApproval /\ (request # NoApproval => IsPending(request, "approval"))
             /\ toFoc = "pending_approval"
             /\ request = NoApproval => approval = Pa
             /\ request # NoApproval => approval = request
             /\ approval = NoApproval <=> waiting = NoApproval
             /\ approval.target = IF focRaised /\ waiting.target = "confirmed" THEN "pending_foc" ELSE waiting.target
             /\ approval.discount = IF discounted THEN disc ELSE waiting.discount
             /\ discounted <=> discountRaised /\ approval.target = "confirmed"
  <2> HIDE DEF waiting
  <2>1. toFoc = "pending_approval" /\ (discounted <=> discountRaised /\ withFoc.target = "confirmed")
    BY <1>4
  <2>2. /\ withFoc \in MaybeApproval /\ (withFoc # NoApproval => withFoc \in Approvals /\ IsPending(withFoc, "approval"))
        /\ withFoc = NoApproval <=> waiting = NoApproval
        /\ withFoc.target = IF focRaised /\ waiting.target = "confirmed" THEN "pending_foc" ELSE waiting.target
        /\ withFoc.discount = waiting.discount
    <3>1. CASE focRaised /\ waiting.target = "confirmed"
      <4>1. waiting \in Approvals /\ waiting # NoApproval
        BY <1>1, <1>2, <3>1
      <4>2. withFoc = [waiting EXCEPT !.target = "pending_foc"]
        BY <3>1
      <4> QED
        BY <1>1, <3>1, <4>1, <4>2 DEF Approvals, Targets, IsPending, MaybeApproval, NoApproval
    <3>2. CASE ~(focRaised /\ waiting.target = "confirmed")
      BY <1>1, <3>2
    <3> QED
      BY <3>1, <3>2
  <2> HIDE DEF withFoc, toFoc, discounted
  <2>3. /\ approval \in MaybeApproval /\ (approval # NoApproval => IsPending(approval, "approval"))
        /\ approval = NoApproval <=> withFoc = NoApproval
        /\ approval.target = withFoc.target
        /\ approval.discount = IF discounted THEN disc ELSE withFoc.discount
    <3>1. CASE discounted
      <4>1. withFoc \in Approvals /\ withFoc # NoApproval
        BY <1>2, <2>1, <2>2, <3>1
      <4>2. approval = [withFoc EXCEPT !.discount = disc]
        BY <3>1, <4>1
      <4> QED
        BY <2>2, <3>1, <4>1, <4>2 DEF Approvals, IsPending, MaybeApproval, NoApproval
    <3>2. CASE ~discounted
      BY <2>2, <3>2
    <3> QED
      BY <3>1, <3>2
  <2> HIDE DEF approval
  <2>4. /\ request \in MaybeApproval /\ (request # NoApproval => IsPending(request, "approval"))
        /\ request = NoApproval => approval = Pa
        /\ request # NoApproval => approval = request
    BY <1>4, <2>2, <2>3 DEF waiting
  <2> HIDE DEF request
  <2> QED
    BY <1>4, <2>1, <2>2, <2>3, <2>4
<1>5. /\ waiting = WaitingOn(asked, to) /\ toFoc = ToFoc(to, focRaised)
      /\ discounted = Discounted(asked, to, focRaised, discountRaised)
      /\ approval = Settled(asked, to, disc, focRaised, discountRaised)
      /\ request = SettledRequest(asked, to, disc, focRaised, discountRaised)
  BY DEF WaitingOn, WithFoc, ToFoc, Discounted, Settled, SettledRequest
<1> HIDE DEF waiting, withFoc, toFoc, discounted, approval, request
<1> QED
  BY <1>3, <1>4, <1>5

\* An edit asks for what it adds, and what waits goes on waiting for as much (reweigh, settleEdit).
LEMMA EditAsks ==
    ASSUME Sound, Asking, NEW focs \in 0..MaxFoc, NEW disc \in 0..MaxDiscount, NEW why \in BOOLEAN,
           NEW weighed \in BOOLEAN, NEW over \in BOOLEAN,
           weighed => Holds(status, approvals) \/ status = "pending_approval",
           Edit(focs, disc, why, weighed, over)
    PROVE  /\ Asking'
           /\ \/ status' \in {status, "pending_approval"}
              \/ status = "confirmed" /\ status' = "pending_foc"
              \/ status = "pending_approval" /\ Pa.over /\ status' \in Live \cup {"completed"}
           /\ status \notin Live \cup {"completed"} => status' = status
           /\ Stamp(status') \/ (status' = status /\ UNCHANGED stamps)
<1> DEFINE asks == status \in Waiting \cup {"confirmed"}
           focRaised == asks /\ focs > foc /\ ~FocGranted(approvals, focs)
           discountRaised == asks /\ disc > discount /\ ~DiscountGranted(approvals, disc)
           asked == ReweighAsks(weighed, over)
           to == ReweighTo(weighed, over)
           clears == ReweighClears(weighed, over)
           waiting == WaitingOn(asked, to)
           toFoc == ToFoc(to, focRaised)
           discounted == Discounted(asked, to, focRaised, discountRaised)
           approval == Settled(asked, to, disc, focRaised, discountRaised)
           request == SettledRequest(asked, to, disc, focRaised, discountRaised)
           cleared == IF clears /\ ~discounted THEN Close(approvals, "approval", "replaced") ELSE approvals
           l1 == Ask(cleared, IF focRaised THEN FocRequest(focs) ELSE NoApproval)
<1>1. /\ approvals' = Ask(l1, request)
      /\ status' = IF discounted THEN "pending_approval" ELSE toFoc
      /\ foc' = focs /\ discount' = disc /\ unasked' = unasked
  BY DEF Edit, Pa, WaitingOn, WithFoc, ToFoc, Discounted, Settled, SettledRequest
<1>2. /\ focs \in Nat /\ disc \in Nat /\ foc \in Nat /\ discount \in Nat /\ unasked \in BOOLEAN
      /\ approvals \in Seq(Approvals) /\ OneEach(approvals)
  BY BoundAssumption DEF Sound, TypeOK
<1>3. focRaised \in BOOLEAN /\ discountRaised \in BOOLEAN
  OBVIOUS
<1>4. /\ asked \in MaybeApproval
      /\ asked # NoApproval =>
            /\ asked \in Approvals /\ IsPending(asked, "approval") /\ to = "pending_approval"
            /\ asked.discount = IF status = "pending_approval" THEN Pa.discount ELSE 0
            /\ asked.target = IF status # "pending_approval" THEN status
                              ELSE IF Pa # NoApproval THEN Pa.target ELSE "confirmed"
      /\ clears => /\ asked = NoApproval /\ status = "pending_approval" /\ Pa # NoApproval
                   /\ Pa.over /\ Pa.discount = 0 /\ to = Pa.target
      /\ asked = NoApproval /\ ~clears => to = status
  BY ReweighView
<1>5. asked # NoApproval => status # "rejected" /\ asked.target # "rejected"
  <2>1. asked # NoApproval => weighed
    BY DEF ReweighAsks, FitsNow
  <2>2. weighed => status # "rejected"
    BY DEF Holds, Live, Early, Waiting
  <2> QED
    BY <1>4, <2>1, <2>2 DEF Asking, GoesOn
<1> HIDE DEF focRaised, discountRaised, asked, to, clears
<1>6. /\ request \in MaybeApproval /\ (request # NoApproval => IsPending(request, "approval"))
      /\ to = "pending_approval" =>
            /\ toFoc = "pending_approval"
            /\ request = NoApproval => approval = Pa
            /\ request # NoApproval => approval = request
            /\ approval = NoApproval <=> waiting = NoApproval
            /\ approval.target = IF focRaised /\ waiting.target = "confirmed" THEN "pending_foc" ELSE waiting.target
            /\ approval.discount = IF discounted THEN disc ELSE waiting.discount
            /\ discounted <=> discountRaised /\ approval.target = "confirmed"
      /\ to # "pending_approval" =>
            /\ discounted <=> discountRaised /\ to = "confirmed" /\ ~focRaised
            /\ discounted => /\ request # NoApproval /\ request.target = "confirmed" /\ request.discount = disc
            /\ ~discounted => request = NoApproval
  <2>1. /\ asked \in MaybeApproval /\ disc \in Nat
        /\ asked # NoApproval => asked \in Approvals /\ IsPending(asked, "approval")
        /\ asked # NoApproval => to = "pending_approval"
    BY <1>2, <1>4
  <2> QED
    BY <1>3, <2>1, SettleView
<1> HIDE DEF discounted, approval, request
<1>7. /\ cleared \in Seq(Approvals) /\ OneEach(cleared)
      /\ PendingOf(cleared, "foc") = Pf
      /\ PendingOf(cleared, "approval") = IF clears /\ ~discounted THEN NoApproval ELSE Pa
      /\ \A m \in Nat : FocGranted(approvals, m) => FocGranted(cleared, m)
      /\ \A m \in Nat \ {0} : DiscountGranted(approvals, m) => DiscountGranted(cleared, m)
      /\ HasFoc(approvals) => HasFoc(cleared)
  <2>1. CASE clears /\ ~discounted
    <3>1. cleared = Close(approvals, "approval", "replaced")
      BY <2>1
    <3>2. "replaced" \in Verdicts \ {"pending"} /\ "approval" \in Kinds /\ "foc" \in Kinds \ {"approval"}
      BY DEF Verdicts, Kinds
    <3>3. cleared \in Seq(Approvals) /\ OneEach(cleared)
      BY <1>2, <3>1, <3>2, CloseIsLater DEF Later
    <3>4. \A m \in Nat \ {0} : ~(PendingOf(approvals, "approval").discount >= m)
      BY <1>4, <2>1 DEF Pa
    <3>5. /\ PendingOf(cleared, "approval") = NoApproval
          /\ PendingOf(cleared, "foc") = PendingOf(approvals, "foc")
          /\ \A n \in Nat : FocGranted(approvals, n) => FocGranted(cleared, n)
          /\ \A n \in Nat : /\ DiscountGranted(approvals, n) /\ ~(PendingOf(approvals, "approval").discount >= n)
                            => DiscountGranted(cleared, n)
          /\ HasFoc(approvals) => HasFoc(cleared)
      BY <1>2, <3>1, <3>2, CloseView
    <3> QED
      BY <2>1, <3>3, <3>4, <3>5 DEF Pf
  <2>2. CASE ~(clears /\ ~discounted)
    BY <1>2, <2>2 DEF Pa, Pf
  <2> QED
    BY <2>1, <2>2
<1> HIDE DEF cleared
<1>8. /\ l1 \in Seq(Approvals) /\ OneEach(l1)
      /\ PendingOf(l1, "foc") = IF focRaised THEN FocRequest(focs) ELSE Pf
      /\ PendingOf(l1, "approval") = IF clears /\ ~discounted THEN NoApproval ELSE Pa
      /\ \A m \in Nat : (IF focRaised THEN m <= focs ELSE FocGranted(approvals, m)) => FocGranted(l1, m)
      /\ \A m \in Nat \ {0} : DiscountGranted(approvals, m) => DiscountGranted(l1, m)
      /\ HasFoc(approvals) \/ focRaised => HasFoc(l1)
  BY <1>2, <1>3, <1>7, AskFocView
<1> HIDE DEF l1
<1>9. /\ Pa' = IF request # NoApproval THEN request ELSE IF clears /\ ~discounted THEN NoApproval ELSE Pa
      /\ Pf' = IF focRaised THEN FocRequest(focs) ELSE Pf
      /\ \A m \in Nat : (IF focRaised THEN m <= focs ELSE FocGranted(approvals, m)) => FocGranted(approvals', m)
      /\ \A m \in Nat : request # NoApproval /\ request.discount >= m => DiscountGranted(approvals', m)
      /\ \A m \in Nat \ {0} :
            /\ DiscountGranted(approvals, m)
            /\ request = NoApproval \/ ~((IF clears /\ ~discounted THEN NoApproval ELSE Pa).discount >= m)
            => DiscountGranted(approvals', m)
      /\ HasFoc(approvals) \/ focRaised => HasFoc(approvals')
  BY <1>1, <1>6, <1>8, AskApprovalView DEF Pa, Pf
<1>10. NoApproval.target = "none" /\ NoApproval.discount = 0
  BY DEF NoApproval
<1>11. FocRequest(focs) # NoApproval /\ FocRequest(focs).target = "confirmed"
  BY DEF FocRequest, NoApproval
<1>12. Pa # NoApproval => Pa.target \in Targets
  BY Waiters DEF Approvals
<1>13. ~clears => to \in {status, "pending_approval"}
  BY <1>4
<1>14. to = "pending_approval" => /\ ~clears /\ Pa' = approval /\ status' = "pending_approval"
                                  /\ waiting = IF asked # NoApproval THEN asked ELSE Pa
  <2>1. clears => to # "pending_approval"
    BY <1>4, <1>12 DEF Targets, Early
  <2> QED
    BY <1>1, <1>6, <1>9, <2>1 DEF WaitingOn
<1>15. to # "pending_approval" => /\ Pa' = IF discounted THEN request ELSE IF clears THEN NoApproval ELSE Pa
                                  /\ status' = IF discounted THEN "pending_approval"
                                               ELSE IF focRaised /\ to = "confirmed" THEN "pending_foc" ELSE to
  BY <1>1, <1>6, <1>9 DEF ToFoc
<1> HIDE DEF waiting, toFoc
<1>16. GoesOn'
  <2>1. Pf'.target # "rejected"
    BY <1>9, <1>11 DEF Asking, GoesOn
  <2>2. Pa'.target # "rejected"
    <3>1. CASE to = "pending_approval"
      BY <1>5, <1>6, <1>14, <3>1 DEF Asking, GoesOn
    <3>2. CASE to # "pending_approval"
      BY <1>6, <1>10, <1>15, <3>2 DEF Asking, GoesOn
    <3> QED
      BY <3>1, <3>2
  <2> QED
    BY <2>1, <2>2 DEF GoesOn
<1>17. ASSUME ~unasked PROVE NoStray' /\ Awaited'
  <2>1. CASE to = "pending_approval"
    <3>1. Pa' # NoApproval
      BY <1>4, <1>6, <1>14, <1>17, <2>1 DEF Asking, Awaited
    <3>2. ASSUME Pa'.target = "pending_foc" PROVE Pf' # NoApproval
      <4>1. focRaised \/ waiting.target = "pending_foc"
        BY <1>6, <1>14, <2>1, <3>2
      <4>2. waiting.target = "pending_foc" => Pf # NoApproval
        BY <1>4, <1>10, <1>14, <1>17, <2>1 DEF Asking, Awaited
      <4> QED
        BY <1>9, <1>11, <4>1, <4>2
    <3> QED
      BY <1>14, <2>1, <3>1, <3>2 DEF NoStray, Awaited, Early
  <2>2. CASE to # "pending_approval" /\ discounted
    <3>1. status' = "pending_approval" /\ Pa' = request /\ request # NoApproval /\ request.target = "confirmed"
      BY <1>6, <1>15, <2>2
    <3> QED
      BY <3>1 DEF NoStray, Awaited, Early
  <2>3. CASE to # "pending_approval" /\ ~discounted
    <3>1. status' = (IF focRaised /\ to = "confirmed" THEN "pending_foc" ELSE to) /\ Pa' = (IF clears THEN NoApproval ELSE Pa)
      BY <1>15, <2>3
    <3>2. NoStray'
      BY <1>13, <1>17, <2>3, <3>1 DEF Asking, NoStray
    <3>3. to = "pending_foc" => Pf # NoApproval
      BY <1>4, <1>17, <2>3 DEF Asking, Awaited
    <3> QED
      BY <1>9, <1>11, <2>3, <3>1, <3>2, <3>3 DEF Awaited
  <2> QED
    BY <2>1, <2>2, <2>3
<1>18. ASSUME ~unasked, Confirming' PROVE Confirming /\ asks
  <2>1. CASE to = "pending_approval"
    <3>1. waiting.target \in {"confirmed", "pending_foc"}
      BY <1>6, <1>14, <1>18, <2>1 DEF Confirming
    <3>2. asked # NoApproval => Confirming
      BY <1>4, <1>14, <1>18, <2>1, <3>1 DEF Confirming, Asking, Awaited
    <3>3. asked = NoApproval => Confirming
      BY <1>4, <1>14, <2>1, <3>1 DEF Confirming
    <3> QED
      BY <3>2, <3>3 DEF Confirming, Waiting
  <2>2. CASE to # "pending_approval"
    <3>1. to \in {"confirmed", "pending_foc"}
      BY <1>6, <1>15, <1>18, <2>2 DEF Confirming
    <3>2. Confirming
      BY <1>4, <2>2, <3>1 DEF Confirming
    <3> QED
      BY <3>2 DEF Confirming, Waiting
  <2> QED
    BY <2>1, <2>2
<1>19. ASSUME ~unasked, Confirming', focs > 0 PROVE FocGranted(approvals', focs)
  <2>1. Confirming /\ asks /\ Covered
    BY <1>18, <1>19 DEF Asking
  <2>2. CASE focs <= foc
    <3>1. foc > 0 /\ FocGranted(approvals, foc)
      BY <1>2, <1>19, <2>1, <2>2 DEF Covered
    <3>2. FocGranted(approvals, focs)
      BY <1>2, <2>2, <3>1, Grants
    <3> QED
      BY <1>2, <1>9, <3>2
  <2>3. CASE focs > foc
    BY <1>2, <1>9, <2>1, <2>3 DEF focRaised
  <2> QED
    BY <1>2, <2>2, <2>3
<1>20. ASSUME ~unasked, Confirming', disc > 0, ~HasFoc(approvals') PROVE DiscountGranted(approvals', disc)
  <2>1. Confirming /\ asks /\ Covered /\ ~HasFoc(approvals) /\ ~focRaised
    BY <1>9, <1>18, <1>20 DEF Asking
  <2>2. status # "pending_foc" /\ ~(status = "pending_approval" /\ Pa.target = "pending_foc")
    <3>1. Pf = NoApproval
      BY <1>2, <2>1, Grants DEF Pf
    <3> QED
      BY <1>20, <3>1 DEF Asking, Awaited
  <2>3. CASE DiscountGranted(approvals, disc)
    <3>1. CASE request = NoApproval
      BY <1>9, <1>20, <1>2, <2>3, <3>1
    <3>2. CASE request # NoApproval /\ discounted
      <4>1. request.discount = disc
        BY <1>6, <3>2
      <4> QED
        BY <1>2, <1>9, <3>2, <4>1
    <3>3. CASE request # NoApproval /\ ~discounted
      <4>1. to = "pending_approval" /\ ~clears
        BY <1>6, <1>14, <3>3
      <4>2. request.discount = waiting.discount
        BY <1>6, <3>3, <4>1
      <4>3. waiting.discount = Pa.discount
        <5>1. status # "pending_approval" => Pa = NoApproval
          BY <1>20, <2>1 DEF asks, Waiting, Asking, NoStray
        <5> QED
          BY <1>4, <1>10, <1>14, <4>1, <5>1
      <4> QED
        BY <1>2, <1>9, <1>20, <2>3, <3>3, <4>1, <4>2, <4>3
    <3> QED
      BY <3>1, <3>2, <3>3
  <2>4. CASE ~DiscountGranted(approvals, disc)
    <3>1. discountRaised
      <4>1. ASSUME disc <= discount PROVE FALSE
        <5>1. discount > 0 /\ DiscountGranted(approvals, discount)
          BY <1>2, <1>20, <2>1, <4>1 DEF Covered, DiscountAsked
        <5> QED
          BY <1>2, <2>4, <4>1, <5>1, Grants
      <4> QED
        BY <1>2, <2>1, <2>4, <4>1 DEF discountRaised
    <3>2. CASE to = "pending_approval"
      <4>1. approval.target \in {"confirmed", "pending_foc"}
        BY <1>14, <1>20, <3>2 DEF Confirming
      <4>2. waiting.target # "pending_foc"
        BY <1>4, <1>10, <1>14, <2>2, <3>2
      <4>3. discounted /\ approval.discount = disc
        BY <1>6, <2>1, <3>1, <3>2, <4>1, <4>2
      <4>4. Pa'.discount = disc /\ Pa' # NoApproval
        BY <1>10, <1>14, <3>2, <4>1, <4>3
      <4>5. request # NoApproval => DiscountGranted(approvals', disc)
        BY <1>2, <1>6, <1>9, <3>2, <4>3
      <4>6. request = NoApproval => DiscountGranted(approvals, disc)
        <5>1. request = NoApproval => Pa # NoApproval /\ Pa.discount = disc
          BY <1>6, <1>10, <3>2, <4>1, <4>3
        <5> QED
          BY <1>2, <5>1, Grants DEF Pa
      <4> QED
        BY <2>4, <4>5, <4>6
    <3>3. CASE to # "pending_approval"
      <4>1. to \in {"confirmed", "pending_foc"}
        BY <1>6, <1>15, <1>20, <3>3 DEF Confirming
      <4>2. to # "pending_foc"
        BY <1>4, <2>2, <3>3
      <4>3. discounted /\ request # NoApproval /\ request.discount = disc
        BY <1>6, <2>1, <3>1, <3>3, <4>1, <4>2
      <4> QED
        BY <1>2, <1>9, <4>3
    <3> QED
      BY <3>2, <3>3
  <2> QED
    BY <2>3, <2>4
<1>21. ~unasked => Covered'
  BY <1>1, <1>19, <1>20 DEF Covered, DiscountAsked
<1>22. \/ status' \in {status, "pending_approval"}
       \/ status = "confirmed" /\ status' = "pending_foc"
       \/ status = "pending_approval" /\ Pa.over /\ status' \in Live \cup {"completed"}
  <2>1. CASE to = "pending_approval" \/ discounted
    BY <1>14, <1>15, <2>1
  <2>2. CASE to # "pending_approval" /\ ~discounted /\ ~clears
    BY <1>4, <1>15, <2>2
  <2>3. CASE to # "pending_approval" /\ ~discounted /\ clears
    <3>1. status = "pending_approval" /\ Pa.over /\ to = Pa.target /\ to \in Targets /\ to # "rejected"
      BY <1>4, <1>12, <2>3 DEF Asking, GoesOn
    <3>2. status' \in {to, "pending_foc"}
      BY <1>15, <2>3
    <3> QED
      BY <3>1, <3>2 DEF Targets, Live, Waiting, Early
  <2> QED
    BY <2>1, <2>2, <2>3
<1>23. ASSUME status \notin Live \cup {"completed"} PROVE status' = status
  <2>1. ~asks /\ ~weighed
    BY <1>23 DEF Live, Waiting, Holds
  <2>2. asked = NoApproval /\ ~clears
    BY <2>1 DEF asked, clears, ReweighAsks, ReweighClears, FitsNow
  <2>3. to = status /\ status # "pending_approval"
    BY <1>4, <1>23, <2>2 DEF Live, Waiting
  <2>4. ~focRaised /\ ~discountRaised
    BY <2>1 DEF focRaised, discountRaised
  <2> QED
    BY <1>6, <1>15, <2>3, <2>4
<1>24. Stamp(status') \/ (status' = status /\ UNCHANGED stamps)
  <2>1. \/ Stamp(status')
        \/ ~focRaised /\ ~discountRaised /\ to = status /\ asked = NoApproval /\ UNCHANGED stamps
    BY DEF Edit, focRaised, discountRaised, to, asked
  <2>2. ~focRaised /\ ~discountRaised /\ to = status => status' = status
    BY <1>1, <1>6 DEF toFoc, ToFoc
  <2> QED
    BY <2>1, <2>2
<1> QED
  BY <1>1, <1>16, <1>17, <1>21, <1>22, <1>23, <1>24 DEF Asking

-----------------------------------------------------------------------------
(* What every behaviour keeps                                              *)

\* Every step keeps what is asked, and writes the stamp once.
LEMMA StepAsks == ASSUME Sound, Asking, StampedOnce, [Next]_vars PROVE Asking' /\ StampedOnce'
<1> USE DEF StampedOnce
<1> stamps \in Nat
  BY DEF Sound, TypeOK
<1>0. CASE UNCHANGED vars
  BY <1>0 DEF vars, Asking, GoesOn, NoStray, Awaited, Covered, Confirming, Pa, Pf
<1>1. ASSUME NEW intent \in {"quote", "confirm"}, NEW focs \in 0..MaxFoc, NEW disc \in 0..MaxDiscount,
             NEW why \in Reasons, NEW over \in BOOLEAN, Create(intent, focs, disc, why, over)
      PROVE  Asking' /\ StampedOnce'
  BY <1>1, CreateAsks DEF Create, Stamp
<1>2. CASE EditBooking
  <2>1. PICK focs \in 0..MaxFoc, disc \in 0..MaxDiscount, why \in BOOLEAN, weighed \in BOOLEAN, over \in BOOLEAN :
             /\ weighed => Holds(status, approvals) \/ status = "pending_approval"
             /\ Edit(focs, disc, why, weighed, over)
    BY <1>2, BoundAssumption DEF EditBooking
  <2>2. Asking' /\ (Stamp(status') \/ (status' = status /\ UNCHANGED stamps)) /\ unasked' = unasked
    <3>1. unasked' = unasked
      BY <2>1 DEF Edit
    <3> QED
      BY <2>1, <3>1, EditAsks
  <2> QED
    BY <2>2 DEF Stamp
<1>3. CASE Confirm
  <2>1. Asking'
    BY <1>3, ConfirmAsks
  <2>2. StampedOnce'
    <3>1. Stamp(status') /\ unasked' = unasked
      BY <1>3 DEF Confirm
    <3> QED
      BY <3>1 DEF Stamp
  <2> QED
    BY <2>1, <2>2
<1>4. CASE Approve
  <2>1. Asking'
    BY <1>4, ApproveAsks
  <2>2. StampedOnce'
    BY <1>4 DEF Approve, Stamp
  <2> QED
    BY <2>1, <2>2
<1>5. CASE Reject
  BY <1>5, RejectAsks DEF Reject
<1>6. ASSUME NEW over \in BOOLEAN, Unconfirm(over) PROVE Asking' /\ StampedOnce'
  BY <1>6, UnconfirmAsks DEF Unconfirm
<1>7. ASSUME NEW to \in {"cancelled", "cancelled_weather"}, Cancel(to) PROVE Asking' /\ StampedOnce'
  BY <1>7, CancelAsks DEF Cancel
<1>8. CASE Restore
  BY <1>8, RestoreAsks DEF Restore
<1>9. ASSUME NEW focs \in 0..MaxFoc, PartialCancel(focs) PROVE Asking' /\ StampedOnce'
  BY <1>9, PartialCancelAsks DEF PartialCancel
<1> QED
  BY <1>0, <1>1, <1>2, <1>3, <1>4, <1>5, <1>6, <1>7, <1>8, <1>9 DEF Next

LEMMA InitAsks == Init => Asking /\ StampedOnce
<1> SUFFICES ASSUME Init PROVE Asking /\ StampedOnce
  OBVIOUS
<1>1. Pa = NoApproval /\ Pf = NoApproval
  BY NothingPending DEF Init, Pa, Pf
<1>2. GoesOn
  BY <1>1 DEF GoesOn, NoApproval
<1>3. ~unasked => status = "absent"
  BY DEF Init
<1> QED
  BY <1>1, <1>2, <1>3 DEF Asking, NoStray, Awaited, Covered, Confirming, StampedOnce, Init

\* The invariant of every behaviour: what waits, what was asked, and the stamp.
THEOREM BookingAsks == Spec => [](Sound /\ Asking /\ StampedOnce)
<1>1. Init => Asking /\ StampedOnce
  BY InitAsks
<1>2. Sound /\ (Asking /\ StampedOnce) /\ [Next]_vars => (Asking /\ StampedOnce)'
  BY StepAsks
<1> QED
  BY <1>1, <1>2, BookingIsSound, PTL DEF Spec

\* A booking that waits has the approval /approve and /reject will decide, and the FOC approval it goes on to.
THEOREM WaitsForWhatItNeeds == Spec => []WaitsForSomething
<1>1. ASSUME Sound, Asking PROVE WaitsForSomething
  <2>1. approvals \in Seq(Approvals) /\ OneEach(approvals)
    BY <1>1 DEF Sound, TypeOK
  <2>2. (Pa # NoApproval <=> Waits("approval")) /\ (Pf # NoApproval <=> Waits("foc"))
    BY <2>1, PendingWhenWaiting DEF Pa, Pf, Waits
  <2>3. \A i \in 1..Len(approvals) : IsPending(approvals[i], "approval") => Pa = approvals[i]
    BY <2>1, PendingIsIt DEF Pa
  <2> QED
    BY <1>1, <2>2, <2>3 DEF WaitsForSomething, Asking, Awaited
<1> QED
  BY <1>1, BookingAsks, PTL

\* Nothing is given away on a confirmed booking but what an approval was asked for, and its stamp is written once.
THEOREM ConfirmedOnlyAsAsked == Spec => []ConfirmedAsAsked
<1>1. ASSUME Sound, Asking, StampedOnce PROVE ConfirmedAsAsked
  <2>1. ~unasked /\ status = "confirmed" =>
            /\ foc > 0 => FocGranted(approvals, foc)
            /\ discount > 0 => DiscountGranted(approvals, discount) \/ HasFoc(approvals)
    BY <1>1 DEF Asking, Covered, Confirming, DiscountAsked
  <2> QED
    BY <1>1, <2>1 DEF ConfirmedAsAsked, ConfirmedFocAsked, ConfirmedDiscountAsked, HasFoc
<1> QED
  BY <1>1, BookingAsks, PTL

-----------------------------------------------------------------------------
(* The lifecycle                                                           *)

\* Whether the pool counts its seats, by what waits.
LEMMA HoldsView ==
    ASSUME Sound
    PROVE  /\ Holds(status, approvals) \in BOOLEAN
           /\ Holds(status, approvals) = (status \in Live \cup {"completed"} /\ ~(status = "pending_approval" /\ Pa.over))
  BY DEF Holds, Pa

LEMMA InitLives == Init => Lifecycle!Init
<1> SUFFICES ASSUME Init PROVE Lifecycle!Init
  OBVIOUS
<1>1. approvals = <<>> /\ stamps = 0 /\ status \in {"absent"} \cup Imported
  BY DEF Init
<1>2. PendingOf(approvals, "approval") = NoApproval
  BY <1>1, NothingPending
<1>3. status \in {"absent", "draft", "pending", "pending_approval", "pending_foc", "completed"}
  BY <1>1, BoundAssumption
<1>4. Holds(status, approvals) = (status # "absent")
  <2>1. Holds(status, approvals) <=> status # "absent"
    BY <1>2, <1>3 DEF Holds, NoApproval, Live, Early, Waiting
  <2>2. Holds(status, approvals) \in BOOLEAN
    BY DEF Holds
  <2> QED
    BY <2>1, <2>2
<1> QED
  BY <1>1, <1>3, <1>4 DEF Lifecycle!Init, Lifecycle!Early, Lifecycle!Waiting

\* Every step of a booking is one its lifecycle allows, or changes nothing a reader sees.
LEMMA StepLives ==
    ASSUME Sound, Asking, [Next]_vars, Sound'
    PROVE  [Lifecycle!Next]_(Lifecycle!vars)
<1> DEFINE holds == Holds(status, approvals)
           stamped == stamps > 0
           seats == status \in Live \cup {"completed"} /\ ~(status = "pending_approval" /\ Pa.over)
<1>1. holds \in BOOLEAN /\ holds = seats /\ (holds = seats)' /\ holds' \in BOOLEAN
  <2>1. holds \in BOOLEAN /\ holds = seats
    BY HoldsView
  <2>2. holds' \in BOOLEAN /\ holds' = seats'
    BY DEF Holds, Pa
  <2> QED
    BY <2>1, <2>2
<1>2. stamps \in Nat /\ stamped \in BOOLEAN
  BY DEF Sound, TypeOK
<1>3. status' \in Live \cup {"completed"} /\ status' # "pending_approval" => holds' = TRUE
  BY <1>1
<1>4. /\ Stamp(status') => stamped' = (stamped \/ status' = "confirmed")
      /\ Stamp(status') \/ UNCHANGED stamps => stamped' = stamped \/ (status' = "confirmed" /\ stamped' = TRUE)
      /\ UNCHANGED stamps => stamped' = stamped
  BY <1>2 DEF Stamp
<1>5. ASSUME NEW intent \in {"quote", "confirm"}, NEW focs \in 0..MaxFoc, NEW disc \in 0..MaxDiscount,
             NEW why \in Reasons, NEW over \in BOOLEAN, Create(intent, focs, disc, why, over)
      PROVE  Lifecycle!Create
  <2>1. status = "absent" /\ Stamp(status')
    BY <1>5 DEF Create
  <2>2. status' \in {"quote", "confirmed", "pending_foc", "pending_approval"}
    BY <1>5, CreateAsks
  <2> QED
    BY <1>3, <1>4, <2>1, <2>2
    DEF Lifecycle!Create, Lifecycle!GoesTo, Lifecycle!StampsOnConfirm, Lifecycle!Waiting, Live, Early, Waiting
<1>6. CASE Confirm
  <2>1. status \in Early /\ Stamp(status')
    BY <1>6 DEF Confirm
  <2>2. status' \in {"confirmed", "pending_foc", "pending_approval"} /\ (status' = "pending_approval" => ~Pa'.over)
    BY <1>6, ConfirmAsks
  <2>3. holds = TRUE /\ holds' = TRUE
    BY <1>1, <2>1, <2>2 DEF Live, Early, Waiting
  <2> QED
    BY <1>4, <2>1, <2>2, <2>3
    DEF Lifecycle!Next, Lifecycle!Confirm, Lifecycle!StampsOnConfirm, Lifecycle!Early, Lifecycle!Waiting, Early
<1>7. CASE Approve
  <2>1. status \in Waiting /\ Stamp(status')
    BY <1>7 DEF Approve
  <2>2. status' \in Early \cup {"confirmed", "pending_foc", "completed"}
    BY <1>7, ApproveAsks
  <2> QED
    BY <1>3, <1>4, <2>1, <2>2
    DEF Lifecycle!Next, Lifecycle!Approve, Lifecycle!StampsOnConfirm, Lifecycle!Early, Lifecycle!Waiting, Live, Early, Waiting
<1>8. CASE Reject
  <2>1. status \in Waiting /\ status' = "rejected" /\ UNCHANGED stamps
    BY <1>8 DEF Reject
  <2>2. holds' = FALSE
    BY <1>1, <2>1 DEF Live, Early, Waiting
  <2> QED
    BY <1>4, <2>1, <2>2 DEF Lifecycle!Next, Lifecycle!Reject, Lifecycle!Waiting, Waiting
<1>9. ASSUME NEW over \in BOOLEAN, Unconfirm(over) PROVE Lifecycle!Unconfirm
  <2>1. status \in Waiting \cup {"confirmed"} /\ status' \in {"quote", "pending_approval"} /\ UNCHANGED stamps
    BY <1>9 DEF Unconfirm
  <2>2. status' = "pending_approval" => status = "pending_approval" /\ Pa.over /\ Pa'.over
    BY <1>9, UnconfirmAsks
  <2>3. status' = "pending_approval" => holds = FALSE /\ holds' = FALSE
    BY <1>1, <2>2
  <2>4. status' = "quote" => holds' = TRUE
    BY <1>3 DEF Live, Early
  <2> QED
    BY <1>4, <2>1, <2>2, <2>3, <2>4 DEF Lifecycle!Unconfirm, Lifecycle!Waiting, Waiting
<1>10. ASSUME NEW to \in {"cancelled", "cancelled_weather"}, Cancel(to) PROVE Lifecycle!Cancel
  <2>1. status \in Live /\ status' = to /\ UNCHANGED stamps
    BY <1>10 DEF Cancel
  <2>2. holds' = FALSE
    BY <1>1, <2>1 DEF Live, Early, Waiting
  <2> QED
    BY <1>4, <2>1, <2>2
    DEF Lifecycle!Cancel, Lifecycle!Live, Lifecycle!Early, Lifecycle!Released, Live, Early, Waiting
<1>11. CASE Restore
  <2>1. status \in Released /\ status' = "confirmed" /\ UNCHANGED stamps
    BY <1>11 DEF Restore
  <2>2. holds' = TRUE
    BY <1>3, <2>1 DEF Live
  <2> QED
    BY <1>4, <2>1, <2>2 DEF Lifecycle!Next, Lifecycle!Restore, Lifecycle!Released, Released
<1>12. ASSUME NEW focs \in 0..MaxFoc, PartialCancel(focs) PROVE UNCHANGED Lifecycle!vars
  <2>1. UNCHANGED <<status, approvals, stamps>>
    BY <1>12 DEF PartialCancel
  <2> QED
    BY <2>1 DEF Lifecycle!vars
<1>13. CASE EditBooking
  <2>1. PICK focs \in 0..MaxFoc, disc \in 0..MaxDiscount, why \in BOOLEAN, weighed \in BOOLEAN, over \in BOOLEAN :
             /\ weighed => Holds(status, approvals) \/ status = "pending_approval"
             /\ Edit(focs, disc, why, weighed, over)
    BY <1>13, BoundAssumption DEF EditBooking
  <2>2. /\ \/ status' \in {status, "pending_approval"}
           \/ status = "confirmed" /\ status' = "pending_foc"
           \/ status = "pending_approval" /\ Pa.over /\ status' \in Live \cup {"completed"}
        /\ status \notin Live \cup {"completed"} => status' = status
        /\ Stamp(status') \/ (status' = status /\ UNCHANGED stamps)
    BY <2>1, EditAsks
  <2>3. CASE status \notin Live \cup {"completed"}
    <3>1. status' = status /\ status # "confirmed" /\ stamped' = stamped
      BY <1>4, <2>2, <2>3 DEF Live
    <3>2. holds = FALSE /\ holds' = FALSE
      BY <1>1, <2>3, <3>1
    <3> QED
      BY <3>1, <3>2 DEF Lifecycle!vars
  <2>4. CASE status \in Live \cup {"completed"} /\ status' \in {status, "pending_approval"}
    <3>1. status' # "pending_approval" => holds' = TRUE
      BY <1>3, <2>4
    <3>2. status \in Lifecycle!Live \cup {"completed"}
      BY <2>4 DEF Lifecycle!Live, Lifecycle!Early, Live, Early, Waiting
    <3> QED
      BY <1>4, <2>2, <2>4, <3>1, <3>2 DEF Lifecycle!Next, Lifecycle!Edit, Lifecycle!GoesTo, Lifecycle!MayStamp
  <2>5. CASE status = "confirmed" /\ status' = "pending_foc"
    <3>1. holds' = TRUE /\ stamped' = stamped
      BY <1>3, <1>4, <2>2, <2>5 DEF Live, Waiting
    <3> QED
      BY <2>5, <3>1 DEF Lifecycle!Next, Lifecycle!Edit
  <2>6. CASE status = "pending_approval" /\ Pa.over /\ status' \in Live \cup {"completed"}
    <3>1. holds = FALSE /\ (status' # "pending_approval" => holds' = TRUE)
      BY <1>1, <1>3, <2>6
    <3>2. status' \in Lifecycle!Live \cup {"completed"}
      BY <2>6 DEF Lifecycle!Live, Lifecycle!Early, Live, Early, Waiting
    <3> QED
      BY <1>4, <2>2, <2>6, <3>1, <3>2 DEF Lifecycle!Next, Lifecycle!Edit, Lifecycle!GoesTo, Lifecycle!MayStamp
  <2> QED
    BY <2>2, <2>3, <2>4, <2>5, <2>6
<1>14. CASE UNCHANGED vars
  BY <1>14 DEF vars, Lifecycle!vars
<1> QED
  BY <1>5, <1>6, <1>7, <1>8, <1>9, <1>10, <1>11, <1>12, <1>13, <1>14 DEF Next, Lifecycle!Next

\* A booking is its lifecycle: the arrows its readers rely on, what holds seats, and the stamp that stays.
THEOREM BookingLives == Spec => LifecycleSpec
<1>1. Init => Lifecycle!Init
  BY InitLives
<1>2. (Sound /\ Asking /\ StampedOnce) /\ (Sound /\ Asking /\ StampedOnce)' /\ [Next]_vars => [Lifecycle!Next]_(Lifecycle!vars)
  BY StepLives
<1> QED
  BY <1>1, <1>2, BookingAsks, PTL DEF Spec, LifecycleSpec, Lifecycle!Spec
=============================================================================
