------------------------------- MODULE Ledger -------------------------------
(***************************************************************************)
(* What an agent is billed, what it paid, and what it got back: invoices   *)
(* with their lines, payments and their corrections, the credit of a       *)
(* weather cancel, deposits, refunds and their payouts, and what cancel,   *)
(* restore, reschedule, a weather cancel and a cash-on-tour decision do to *)
(* the invoices of a booking.                                              *)
(*                                                                         *)
(* One agent and its bookings. Each action is one request, run as one      *)
(* transaction. Money is counted in whole units and no VAT is added: it is *)
(* worked out from the same subtotal. Header texts, withholding tax, due   *)
(* dates, numbers and slips, which decide nothing, are left out.           *)
(***************************************************************************)
EXTENDS Totals, Sequences, TLC

CONSTANTS
    Bookings,       \* the agent's bookings
    Price,          \* [Bookings -> Nat]: what each booking costs; an invoice is frozen at issue
    Charges,        \* fees a cancel or a reschedule charges (0: none)
    CashOnTour,     \* cash the customer of a booking pays on tour
    Discounts,      \* discounts given on a line
    Amounts,        \* amounts of payments and deposits
    Overrides,      \* whether overpay_anyway is sent
    MaxRequests     \* bound: the requests of a history

ASSUME LedgerAssumption ==
    /\ IsFiniteSet(Bookings)
    /\ Price \in [Bookings -> Nat \ {0}] /\ Charges \subseteq Nat /\ CashOnTour \in Nat
    /\ Discounts \subseteq Nat /\ Amounts \subseteq Nat \ {0} /\ Overrides \subseteq BOOLEAN

\* A booking's fee items are kept as one line, its price as another, its cash-on-tour deduction as a third.
Parts == {"trip", "fee", "cot"}
Outcomes == {"cancel", "refund", "credit"}
Methods == {"money", "credit"}    \* transfer, cash and card are all money received

Lines == [amount : Int, discount : Nat, off : BOOLEAN]
Invoices == [kind : {"booking", "cancellation"}, lines : UNION {[K -> Lines] : K \in SUBSET (Bookings \X Parts)},
             total : Nat, voided : BOOLEAN]
Payments == [invoice : Nat \ {0}, amount : Nat \ {0}, method : Methods, deleted : BOOLEAN]
Refunds == [kind : {"refund", "credit"}, invoice : Nat \ {0}, booking : Bookings, amount : Nat \ {0}]
Deposits == [amount : Nat \ {0}, voided : BOOLEAN]

VARIABLES
    status,     \* [Bookings -> "live", "cancelled" or "cancelled_weather"]
    fees,       \* [Bookings -> its fee items]
    cot,        \* [Bookings -> what its cash-on-tour decision takes off the bill]
    invoices,   \* oldest first
    payments, refunds, deposits,
    paidOut,    \* the refunds paid out to the agent
    corrected,  \* history: the invoices a payment was taken off again
    requests    \* bound: the requests made

ledger == <<status, fees, cot, invoices, payments, refunds, deposits, paidOut, corrected>>
vars == <<ledger, requests>>
booking == <<status, fees, cot>>
money == <<payments, refunds, deposits, paidOut, corrected>>

-----------------------------------------------------------------------------
(* Sums                                                                    *)

\* The sum of a function to amounts, some of them deductions.
SumOf(f) == Total([x \in DOMAIN f |-> Clip(f[x])]) - Total([x \in DOMAIN f |-> Clip(-f[x])])

(* invoiceAmounts: the discounts come off the lines still on, never more   *)
(* than all of them.                                                       *)
LiveLines(lines) == {k \in DOMAIN lines : ~lines[k].off}
\* Mutant: the discounts may be more than the lines.
InvoiceTotalUncapped(lines) ==
    SumOf([k \in LiveLines(lines) |-> lines[k].amount]) - SumOf([k \in LiveLines(lines) |-> lines[k].discount])
InvoiceTotal(lines) ==
    LET gross == SumOf([k \in LiveLines(lines) |-> lines[k].amount])
        discount == Least(SumOf([k \in LiveLines(lines) |-> lines[k].discount]), gross)
    IN  Clip(gross - discount)

LivePayments(i) == {p \in DOMAIN payments : payments[p].invoice = i /\ ~payments[p].deleted}
PaidOf(i) == SumOf([p \in LivePayments(i) |-> payments[p].amount])
ReturnedOf(i) == SumOf([r \in {r \in DOMAIN refunds : refunds[r].invoice = i} |-> refunds[r].amount])

(* creditBalance: what weather cancels kept and deposits added, less what  *)
(* payments by credit spent.                                               *)
Credited == SumOf([r \in {r \in DOMAIN refunds : refunds[r].kind = "credit"} |-> refunds[r].amount])
Deposited == SumOf([d \in {d \in DOMAIN deposits : ~deposits[d].voided} |-> deposits[d].amount])
Spent == SumOf([p \in {p \in DOMAIN payments : payments[p].method = "credit" /\ ~payments[p].deleted} |-> payments[p].amount])
Available == Credited + Deposited - Spent

-----------------------------------------------------------------------------
(* A booking on an invoice                                                 *)

\* invoicesOfBookings: named on any line, even one taken off.
Names(b, inv) == \E part \in Parts : <<b, part>> \in DOMAIN inv.lines
OnLiveLine(b, inv) == \E k \in LiveLines(inv.lines) : k[1] = b

\* Mutant: only the newest invoice is looked at.
InvoicedOnNewest(b) == invoices # <<>> /\ ~invoices[Len(invoices)].voided /\ OnLiveLine(b, invoices[Len(invoices)])
\* A booking read's invoice: any live one that carries it.
Invoiced(b) == \E i \in DOMAIN invoices : ~invoices[i].voided /\ OnLiveLine(b, invoices[i])

\* liveBookingInvoiceOf: the newest that bills the booking's price or fees; a fee invoice is not one.
Billing(b) == {i \in DOMAIN invoices :
    ~invoices[i].voided /\ invoices[i].kind = "booking"
    /\ \E k \in LiveLines(invoices[i].lines) : k[1] = b /\ k[2] # "cot"}
Newest(I) == CHOOSE i \in I : \A j \in I : j <= i

Line(amount) == [amount |-> amount, discount |-> 0, off |-> FALSE]
WithLines(inv, lines) == [inv EXCEPT !.lines = lines, !.total = InvoiceTotal(lines)]

\* Mutant: cash on tour is taken off the day it is decided, and not from a bill issued later.
LinesOfUndeducted(b) == [k \in {<<b, "trip">>} \cup {<<b, "fee">> : x \in {x \in {fees[b]} : x > 0}} |->
    Line(IF k[2] = "trip" THEN Price[b] ELSE fees[b])]
\* invoiceLines: the price, the fee items, and what cash on tour already took off.
LinesOf(b) ==
    [k \in {<<b, "trip">>} \cup {<<b, "fee">> : x \in {x \in {fees[b]} : x > 0}}
           \cup {<<b, "cot">> : x \in {x \in {cot[b]} : x > 0}} |->
       Line(IF k[2] = "trip" THEN Price[b] ELSE IF k[2] = "fee" THEN fees[b] ELSE -cot[b])]

-----------------------------------------------------------------------------
(* What booking commands do to invoices                                    *)

\* Cancel voids every live invoice that names the booking.
VoidFor(b, rows) == [i \in DOMAIN invoices |->
    IF Names(b, invoices[i]) /\ i \in rows THEN [invoices[i] EXCEPT !.voided = TRUE] ELSE invoices[i]]
\* Mutant: a paid invoice stands.
InvoicesOnCancelUnpaid(b) == [i \in DOMAIN invoices |->
    IF Names(b, invoices[i]) /\ PaidOf(i) = 0 THEN [invoices[i] EXCEPT !.voided = TRUE] ELSE invoices[i]]
InvoicesOnCancel(b) == VoidFor(b, DOMAIN invoices)
\* Mutant: restore brings the booking's invoices back.
InvoicesRevived(b) == [i \in DOMAIN invoices |->
    IF Names(b, invoices[i]) THEN [invoices[i] EXCEPT !.voided = (invoices[i].kind = "cancellation")] ELSE invoices[i]]
\* Restore voids the cancellation's fee invoice.
InvoicesOnRestore(b) == VoidFor(b, {i \in DOMAIN invoices : invoices[i].kind = "cancellation"})

(* takeShareOff: the booking's lines come off each live booking invoice;   *)
(* one with no other line left is voided. What it was paid beyond what it  *)
(* still asks comes back.                                                  *)
ShareOn(b) == {i \in DOMAIN invoices :
    ~invoices[i].voided /\ invoices[i].kind = "booking" /\ OnLiveLine(b, invoices[i])}
\* Mutant: the total is left as it was.
ShareOffStale(b, inv) ==
    IF \A k \in LiveLines(inv.lines) : k[1] = b THEN [inv EXCEPT !.voided = TRUE]
    ELSE [inv EXCEPT !.lines = [k \in DOMAIN inv.lines |-> IF k[1] = b THEN [inv.lines[k] EXCEPT !.off = TRUE] ELSE inv.lines[k]]]
ShareOff(b, inv) ==
    IF \A k \in LiveLines(inv.lines) : k[1] = b THEN [inv EXCEPT !.voided = TRUE]
    ELSE WithLines(inv, [k \in DOMAIN inv.lines |-> IF k[1] = b THEN [inv.lines[k] EXCEPT !.off = TRUE] ELSE inv.lines[k]])
\* Mutant: what was given back before comes back again.
RefundableTwice(i, after) == Clip(PaidOf(i) - (IF after.voided THEN 0 ELSE after.total))
Refundable(i, after) == Clip(PaidOf(i) - ReturnedOf(i) - (IF after.voided THEN 0 ELSE after.total))

(* syncCotLines: the deduction's line on the invoice that bills the        *)
(* booking follows the decision.                                           *)
WithCot(b, inv, amount) ==
    LET k == <<b, "cot">>
    IN  IF amount > 0 THEN WithLines(inv, With(inv.lines, k, Line(-amount)))
        ELSE IF k \in DOMAIN inv.lines THEN WithLines(inv, [inv.lines EXCEPT ![k].off = TRUE])
        ELSE inv
\* withFeeLine: a reschedule fee tops up the invoice that bills the booking.
WithFee(b, inv, amount) ==
    LET k == <<b, "fee">>
        was == IF k \in DOMAIN inv.lines THEN inv.lines[k] ELSE Line(0)
    IN  WithLines(inv, With(inv.lines, k, [was EXCEPT !.amount = @ + amount]))
OnBilling(b, change(_)) ==
    IF Billing(b) = {} THEN invoices ELSE [invoices EXCEPT ![Newest(Billing(b))] = change(@)]

-----------------------------------------------------------------------------
(* Requests                                                                *)

\* POST /v1/invoices, for some of the agent's bookings.
Issue(bs) ==
    LET lines == [k \in UNION {DOMAIN LinesOf(b) : b \in bs} |-> LinesOf(k[1])[k]]
    IN  /\ \A b \in bs : status[b] = "live" /\ ~Invoiced(b)
        /\ invoices' = Append(invoices, [kind |-> "booking", lines |-> lines, total |-> InvoiceTotal(lines), voided |-> FALSE])
        /\ UNCHANGED <<booking, money>>

\* PUT /v1/invoices/{id}/discounts, for one of its lines.
SetDiscount(i, k, d) ==
    /\ ~invoices[i].voided /\ PaidOf(i) = 0
    /\ SumOf([l \in DOMAIN invoices[i].lines |-> invoices[i].lines[l].amount]) > 0
    /\ k[2] = "cot" => d = 0
    /\ invoices' = [invoices EXCEPT ![i] = WithLines(@, [@.lines EXCEPT ![k].discount = d])]
    /\ UNCHANGED <<booking, money>>

\* POST /v1/invoices/{id}/void: its payments stay on it.
Void(i) ==
    /\ ~invoices[i].voided
    /\ invoices' = [invoices EXCEPT ![i].voided = TRUE]
    /\ UNCHANGED <<booking, money>>

NotOverpaid(i, received, anyway) == anyway \/ received <= invoices[i].total
CreditCovers(amount) == amount <= Available

\* POST /v1/invoices/{id}/payments
RecordPayment(i, amount, method, anyway) ==
    /\ ~invoices[i].voided
    /\ method = "credit" => CreditCovers(amount)
    /\ NotOverpaid(i, PaidOf(i) - ReturnedOf(i) + amount, anyway)
    /\ payments' = Append(payments, [invoice |-> i, amount |-> amount, method |-> method, deleted |-> FALSE])
    /\ UNCHANGED <<booking, invoices, refunds, deposits, paidOut, corrected>>

\* Mutant: a payment by credit can be edited as any other.
MayEditAny(p) == TRUE
\* A payment by credit is checked when it is recorded: it may be deleted, not edited.
MayEdit(p) == payments[p].method # "credit"

\* POST /v1/invoices/{id}/payment-corrections, on one payment: delete it, or change its amount.
CorrectPayment(p, change, anyway) ==
    LET i == payments[p].invoice
        was == payments[p].amount
        left == IF change.deleted THEN 0 ELSE change.amount
    IN  /\ ~payments[p].deleted
        /\ change.deleted \/ (change.amount # was /\ MayEdit(p))
        /\ invoices[i].voided \/ NotOverpaid(i, PaidOf(i) - was + left - ReturnedOf(i), anyway)
        /\ payments' = [payments EXCEPT ![p].deleted = change.deleted, ![p].amount = IF change.deleted THEN @ ELSE left]
        /\ corrected' = IF left < was THEN corrected \cup {i} ELSE corrected
        /\ UNCHANGED <<booking, invoices, refunds, deposits, paidOut>>

\* POST /v1/deposits, and its void: never below what payments by credit already spent.
Deposit(amount) ==
    /\ deposits' = Append(deposits, [amount |-> amount, voided |-> FALSE])
    /\ UNCHANGED <<booking, invoices, payments, refunds, paidOut, corrected>>
VoidDeposit(d) ==
    /\ ~deposits[d].voided
    /\ deposits[d].amount <= Available
    /\ deposits' = [deposits EXCEPT ![d].voided = TRUE]
    /\ UNCHANGED <<booking, invoices, payments, refunds, paidOut, corrected>>

\* POST and DELETE /v1/refunds/{id}/payout: a credit is never paid out.
PayOut(r) ==
    /\ refunds[r].kind = "refund" /\ r \notin paidOut
    /\ paidOut' = paidOut \cup {r}
    /\ UNCHANGED <<booking, invoices, payments, refunds, deposits, corrected>>
UndoPayout(r) ==
    /\ r \in paidOut
    /\ paidOut' = paidOut \ {r}
    /\ UNCHANGED <<booking, invoices, payments, refunds, deposits, corrected>>

\* POST /v1/bookings/{id}/cancel: a charge becomes a fee invoice of its own.
Cancel(b, charge) ==
    LET fee == [kind |-> "cancellation", lines |-> [k \in {<<b, "fee">>} |-> Line(charge)], total |-> charge, voided |-> FALSE]
    IN  /\ status[b] = "live"
        /\ status' = [status EXCEPT ![b] = "cancelled"]
        /\ invoices' = IF charge > 0 THEN Append(InvoicesOnCancel(b), fee) ELSE InvoicesOnCancel(b)
        /\ UNCHANGED <<fees, cot, money>>

\* POST /v1/bookings/{id}/restore
Restore(b) ==
    /\ status[b] # "live"
    /\ status' = [status EXCEPT ![b] = "live"]
    /\ invoices' = InvoicesOnRestore(b)
    /\ UNCHANGED <<fees, cot, money>>

\* POST /v1/bookings/{id}/cancel-weather: keep the money, owe it back, or keep it as the agent's credit.
CancelWeather(b, outcome) ==
    LET share == ShareOn(b)
        after == [i \in DOMAIN invoices |-> IF i \in share THEN ShareOff(b, invoices[i]) ELSE invoices[i]]
        freed == {i \in share : Refundable(i, after[i]) > 0}
        refund(i) == [kind |-> outcome, invoice |-> i, booking |-> b, amount |-> Refundable(i, after[i])]
    IN  /\ status[b] = "live"
        /\ outcome = "credit" => freed # {}
        /\ status' = [status EXCEPT ![b] = "cancelled_weather"]
        /\ invoices' = after
        /\ \E rows \in [1..Cardinality(freed) -> freed] :
              /\ {rows[n] : n \in DOMAIN rows} = freed
              /\ \A n \in DOMAIN rows : \A m \in 1..n : rows[m] <= rows[n]
              /\ refunds' = IF outcome = "cancel" THEN refunds ELSE refunds \o [n \in DOMAIN rows |-> refund(rows[n])]
        /\ UNCHANGED <<fees, cot, payments, deposits, paidOut, corrected>>

\* POST /v1/bookings/{id}/reschedule with a fee collected on the invoice.
RescheduleFee(b, charge) ==
    /\ status[b] = "live" /\ charge > 0
    /\ fees' = [fees EXCEPT ![b] = @ + charge]
    /\ invoices' = OnBilling(b, LAMBDA inv : WithFee(b, inv, charge))
    /\ UNCHANGED <<status, cot, money>>

\* PUT and DELETE /v1/bookings/{id}/cot-decisions/{date}: only a live booking's may be made.
DecideCot(b, amount) ==
    /\ status[b] = "live" \/ amount = 0
    /\ amount # cot[b]
    /\ cot' = [cot EXCEPT ![b] = amount]
    /\ invoices' = OnBilling(b, LAMBDA inv : WithCot(b, inv, amount))
    /\ UNCHANGED <<status, fees, money>>

-----------------------------------------------------------------------------
Init ==
    /\ status = [b \in Bookings |-> "live"]
    /\ fees = [b \in Bookings |-> 0] /\ cot = [b \in Bookings |-> 0]
    /\ invoices = <<>> /\ payments = <<>> /\ refunds = <<>> /\ deposits = <<>>
    /\ paidOut = {} /\ corrected = {} /\ requests = 0

Request ==
    \/ \E bs \in (SUBSET Bookings) \ {{}} : Issue(bs)
    \/ \E i \in DOMAIN invoices :
          \/ \E k \in DOMAIN invoices[i].lines, d \in Discounts : SetDiscount(i, k, d)
          \/ Void(i)
          \/ \E amount \in Amounts, method \in Methods, anyway \in Overrides : RecordPayment(i, amount, method, anyway)
    \/ \E p \in DOMAIN payments, deleted \in BOOLEAN, amount \in Amounts, anyway \in Overrides :
          CorrectPayment(p, [deleted |-> deleted, amount |-> amount], anyway)
    \/ \E amount \in Amounts : Deposit(amount)
    \/ \E d \in DOMAIN deposits : VoidDeposit(d)
    \/ \E r \in DOMAIN refunds : PayOut(r) \/ UndoPayout(r)
    \/ \E b \in Bookings :
          \/ \E charge \in Charges : Cancel(b, charge) \/ RescheduleFee(b, charge)
          \/ Restore(b)
          \/ \E outcome \in Outcomes : CancelWeather(b, outcome)
          \/ \E amount \in 0..CashOnTour : DecideCot(b, amount)

Next == requests < MaxRequests /\ requests' = requests + 1 /\ Request

Spec == Init /\ [][Next]_vars

-----------------------------------------------------------------------------
(* Properties                                                              *)

\* The ledger is one the tables can hold; payments and refunds name invoices, payouts name refunds.
TypeOK ==
    /\ status \in [Bookings -> {"live", "cancelled", "cancelled_weather"}]
    /\ fees \in [Bookings -> Nat] /\ cot \in [Bookings -> Nat]
    /\ \A i \in DOMAIN invoices : /\ DOMAIN invoices[i].lines \subseteq Bookings \X Parts
                                  /\ \A k \in DOMAIN invoices[i].lines : invoices[i].lines[k] \in Lines
                                  /\ invoices[i].total \in Nat
    /\ \A p \in DOMAIN payments : payments[p] \in Payments /\ payments[p].invoice \in DOMAIN invoices
    /\ \A r \in DOMAIN refunds : refunds[r] \in Refunds /\ refunds[r].invoice \in DOMAIN invoices
    /\ \A d \in DOMAIN deposits : deposits[d] \in Deposits
    /\ paidOut \subseteq DOMAIN refunds

(* invoices.ts: totals are worked out again from the lines whenever a line *)
(* is discounted, added, or taken off, by whichever request.               *)
TotalFollowsLines == \A i \in DOMAIN invoices : invoices[i].total = InvoiceTotal(invoices[i].lines)

(* invoiceLines: a booking is billed on one live invoice, through any      *)
(* sequence of voids, cancels, restores and weather cancels; and what it   *)
(* is billed there has its fee items once and its cash on tour taken off   *)
(* once, whether they came before the invoice or after (after-trip.ts:     *)
(* legacy only warned, so it was collected twice).                         *)
BilledOnce ==
    \A b \in Bookings :
        /\ \A i, j \in Billing(b) : i = j
        /\ \A i \in Billing(b) :
              LET part(k) == SumOf([l \in {l \in LiveLines(invoices[i].lines) : l = <<b, k>>} |-> invoices[i].lines[l].amount])
              IN  part("fee") = fees[b] /\ part("cot") = -cot[b]

(* A cancelled booking is billed nothing but its cancellation fee, and one *)
(* brought back owes no such fee.                                          *)
BillsFollowStatus ==
    \A b \in Bookings, i \in DOMAIN invoices :
        ~invoices[i].voided /\ OnLiveLine(b, invoices[i]) =>
            ((invoices[i].kind = "cancellation") = (status[b] = "cancelled"))

(* refunds.ts, assertCreditCovers, voidDeposit: the agent never spends     *)
(* credit it does not hold, whatever is voided, corrected or credited in   *)
(* between.                                                                *)
CreditNeverOverdrawn == Available >= 0

(* takeShareOff: what comes back from an invoice was paid on it, once,     *)
(* over repeated weather cancels of the bookings it carries. Only staff    *)
(* who take a payment off again later may leave it short.                  *)
ReturnedWasPaid == \A i \in DOMAIN invoices : i \notin corrected => ReturnedOf(i) <= PaidOf(i)

(* A voided invoice is final: nothing bills on it again, no payment is     *)
(* recorded on it. A deleted payment, a refund and a voided deposit stay   *)
(* on record as they are.                                                  *)
PaperTrail ==
    /\ \A i \in DOMAIN invoices : invoices[i].voided => invoices'[i] = invoices[i]
    /\ \A p \in DOMAIN payments : payments[p].deleted => payments'[p] = payments[p]
    /\ \A p \in DOMAIN payments' \ DOMAIN payments : ~invoices[payments'[p].invoice].voided
    /\ \A r \in DOMAIN refunds : refunds'[r] = refunds[r]
    /\ \A d \in DOMAIN deposits : deposits[d].voided => deposits'[d] = deposits[d]
=============================================================================
