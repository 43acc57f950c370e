------------------------------ MODULE VanPapers -----------------------------
(***************************************************************************)
(* The papers of one programme's vans on one day: the job sheet each       *)
(* driver gets and whether it changed after it was sent (van-jobs.ts), and *)
(* the bill of a partner whose vans ran (van-bills.ts).  Both are worked   *)
(* out from the day's groups, parts and check-ins whenever they are read;  *)
(* the day itself moves on between two readings.                           *)
(***************************************************************************)
EXTENDS Integers, FiniteSets, Sequences, FiniteSetsExt

CONSTANTS
    Riders,         \* bookings
    PartPax,        \* booking |-> passengers of each of its parts, the first its main part
    PickupTime,     \* booking |-> when it is fetched
    Rounds,         \* van groups, by number
    Cars,           \* vans
    Partners,       \* the vans of the partner whose bill this is
    NoCar, NoRound,
    Rates,          \* what a run may cost
    MaxPapers       \* bound: requests of a history

VARIABLES
    seat,           \* booking |-> [live, self, same, lost, parts], a part being [round, back]
    car,            \* van group |-> its van
    backCar,        \* van group |-> the van its people come back on, when it is another
    mark,           \* job |-> NoMark, or the fingerprint it was sent with
    asSent,         \* job |-> the sheet as it was sent (history)
    bill,           \* the partner's bill
    papers

paperVars == <<seat, car, backCar, mark, asSent, bill, papers>>

Jobs == Rounds \cup Cars
Ridden == {<<b, i>> : b \in Riders, i \in 1 .. 2} \cap UNION {{b} \X DOMAIN PartPax[b] : b \in Riders}
Part(p) == seat[p[1]].parts[p[2]]
PaxOf(p) == PartPax[p[1]][p[2]]

-----------------------------------------------------------------------------
(* Job sheets. *)

CarOf(p) == IF Part(p).round = NoRound THEN NoCar ELSE car[Part(p).round]
\* The part's own return van, else its group's, else the van it came on.
ExplicitReturn(p) ==
    IF Part(p).back # NoCar THEN Part(p).back
    ELSE IF Part(p).round = NoRound THEN NoCar ELSE backCar[Part(p).round]
ReturnCar(p) == IF ExplicitReturn(p) # NoCar THEN ExplicitReturn(p) ELSE CarOf(p)

\* Who comes on their own rides no van out, though a van may bring them back.
OutRows(g) == {p \in Ridden : Part(p).round = g /\ car[g] # NoCar /\ ~seat[p[1]].self}
BackRows(v) == {p \in Ridden : ReturnCar(p) = v}

Earliest(g) == Min({PickupTime[p[1]] : p \in OutRows(g)})
RunsOf(v) == {g \in Rounds : car[g] = v /\ OutRows(g) # {}}
\* The first round of a van, by earliest pickup and then by number, prints its way back.
FirstRun(v) == CHOOSE g \in RunsOf(v) : \A h \in RunsOf(v) \ {g} :
    \/ Earliest(g) < Earliest(h)
    \/ Earliest(g) = Earliest(h) /\ g < h

JobsToday == {g \in Rounds : g \in RunsOf(car[g])}
             \cup {v \in Cars : RunsOf(v) = {} /\ BackRows(v) # {}}

ReturnsEverywhere(g) == BackRows(car[g])
ReturnsOn(g) == IF g = FirstRun(car[g]) THEN BackRows(car[g]) ELSE {}

\* One row per booking out, its parts together; one per part back.
Printed(S, together) ==
    {[booking |-> p[1], parts |-> IF together THEN {q[2] : q \in {r \in S : r[1] = p[1]}} ELSE {p[2]},
      struck |-> ~seat[p[1]].live, out |-> CarOf(p), back |-> ReturnCar(p)] : p \in S}

Sheet(j) ==
    IF j \in Rounds THEN [car |-> car[j], out |-> Printed(OutRows(j), TRUE), ret |-> Printed(ReturnsOn(j), FALSE)]
                    ELSE [car |-> j, out |-> {}, ret |-> Printed(BackRows(j), FALSE)]

FingerprintOut(s) == [car |-> s.car, out |-> s.out, ret |-> {}]
Fingerprint(s) == [car |-> s.car, out |-> s.out, ret |-> s.ret]

NoMark == [car |-> NoCar, out |-> {}, ret |-> {}]
ChangedSinceSent(j) == mark[j] # Fingerprint(Sheet(j))

MarkSent(j) ==
    /\ j \in JobsToday
    /\ mark' = [mark EXCEPT ![j] = Fingerprint(Sheet(j))]
    /\ asSent' = [asSent EXCEPT ![j] = Sheet(j)]
    /\ UNCHANGED <<seat, car, backCar, bill>>
MarkUnsent(j) ==
    /\ j \in JobsToday
    /\ mark' = [mark EXCEPT ![j] = NoMark] /\ asSent' = [asSent EXCEPT ![j] = NoMark]
    /\ UNCHANGED <<seat, car, backCar, bill>>

-----------------------------------------------------------------------------
(* The partner's bill. *)

RidersBooked(b) == MapThenSumSet(LAMBDA i : PartPax[b][i], DOMAIN PartPax[b])
RidersAboard(b) == Max({0, RidersBooked(b) - seat[b].lost})

\* Rounded half up, as Math.round does.
Share(n, of, total) == (2 * n * of + total) \div (2 * total)

\* Who did not come belongs to the booking: off each van in proportion, the rest on the last.
RECURSIVE SharedBefore(_, _)
SharedBefore(b, i) == IF i = 1 THEN 0 ELSE SharedBefore(b, i - 1) + Share(PartPax[b][i - 1], RidersAboard(b), RidersBooked(b))
AboardPartRounded(p) == Share(PaxOf(p), RidersAboard(p[1]), RidersBooked(p[1]))
AboardPart(p) ==
    IF p[2] = Len(PartPax[p[1]]) THEN Max({0, RidersAboard(p[1]) - SharedBefore(p[1], p[2])})
    ELSE Share(PaxOf(p), RidersAboard(p[1]), RidersBooked(p[1]))

Billed(p) == seat[p[1]].live /\ CarOf(p) \in Partners
\* Back on the same van is no more money; a van that also took people out is one run.
BroughtBack(p) == seat[p[1]].live /\ ~seat[p[1]].same /\ ExplicitReturn(p) \in Partners

OutKey(v) == <<v, "run">>
BackKey(v) == <<v, "return">>
RowKeysUnmerged == {OutKey(CarOf(p)) : p \in {q \in Ridden : Billed(q)}}
                   \cup {BackKey(ExplicitReturn(p)) : p \in {q \in Ridden : BroughtBack(q)}}
RowKeys ==
    LET out == {CarOf(p) : p \in {q \in Ridden : Billed(q)}}
        back == {ExplicitReturn(p) : p \in {q \in Ridden : BroughtBack(q)}}
    IN  {OutKey(v) : v \in out} \cup {BackKey(v) : v \in back \ out}

RowPax(k) == IF k[2] = "return" THEN 0
             ELSE MapThenSumSet(AboardPart, {p \in Ridden : Billed(p) /\ CarOf(p) = k[1]})

NoRate == -1
Keys == Partners \X {"run", "return"}
RowRate(k) == IF bill.over[k] # NoRate THEN bill.over[k] ELSE bill.rate
BillTotal == MapThenSumSet(RowRate, RowKeys)
NewRows == {k \in RowKeys : /\ bill.saved /\ bill.over[k] = NoRate
                            /\ IF bill.marked THEN k \notin bill.seen ELSE k[2] = "return"}

Blank == [rate |-> 0, over |-> [k \in Keys |-> NoRate], saved |-> FALSE, marked |-> FALSE, seen |-> {},
          sent |-> FALSE, sentBill |-> 0, paid |-> FALSE, paidAmount |-> 0]

EditableAlways == TRUE
Editable == ~bill.paid

\* An override is taken for a row of today, or one already stored.
Overridable == RowKeys \cup {k \in Keys : bill.over[k] # NoRate}
PatchBill(rate, over, see) ==
    /\ Editable
    /\ \A k \in Keys : over[k] # NoRate => k \in Overridable
    /\ bill' = [bill EXCEPT !.rate = rate, !.over = over, !.saved = TRUE,
                            !.marked = (@ \/ see), !.seen = IF see THEN RowKeys ELSE @]
    /\ UNCHANGED <<seat, car, backCar, mark, asSent>>
SendBill ==
    /\ Editable
    /\ bill' = [bill EXCEPT !.sent = TRUE, !.sentBill = BillTotal]
    /\ UNCHANGED <<seat, car, backCar, mark, asSent>>
UnsendBill ==
    /\ Editable /\ bill.sent
    /\ bill' = [bill EXCEPT !.sent = FALSE, !.sentBill = 0]
    /\ UNCHANGED <<seat, car, backCar, mark, asSent>>
\* What is paid is the total as it is now, which may no longer be the one sent.
PayBill ==
    /\ Editable /\ bill.sent
    /\ bill' = [bill EXCEPT !.paid = TRUE, !.paidAmount = BillTotal]
    /\ UNCHANGED <<seat, car, backCar, mark, asSent>>
UnpayBill ==
    /\ bill.paid
    /\ bill' = [bill EXCEPT !.paid = FALSE, !.paidAmount = 0]
    /\ UNCHANGED <<seat, car, backCar, mark, asSent>>

-----------------------------------------------------------------------------
(* The day moves on. *)

DayMoves(b, next) ==
    /\ seat' = [seat EXCEPT ![b] = next]
    /\ UNCHANGED <<car, backCar, mark, asSent, bill>>
RideMoves(b, i, g, v) ==
    /\ g # NoRound \/ v = NoCar
    /\ DayMoves(b, [seat[b] EXCEPT !.parts[i] = [round |-> g, back |-> v]])
Settle(b) ==
    \/ DayMoves(b, [seat[b] EXCEPT !.live = ~@])
    \/ DayMoves(b, [seat[b] EXCEPT !.self = ~@])
    \/ DayMoves(b, [seat[b] EXCEPT !.same = ~@])
    \/ \E lost \in 0 .. RidersBooked(b) : DayMoves(b, [seat[b] EXCEPT !.lost = lost])
GiveCar(g, v, back) ==
    /\ v = NoCar => back = NoCar
    /\ (back # v \/ back = NoCar)
    /\ car' = [car EXCEPT ![g] = v] /\ backCar' = [backCar EXCEPT ![g] = back]
    /\ UNCHANGED <<seat, mark, asSent, bill>>

-----------------------------------------------------------------------------

Fresh(b) == [live |-> TRUE, self |-> FALSE, same |-> FALSE, lost |-> 0,
             parts |-> [i \in DOMAIN PartPax[b] |-> [round |-> NoRound, back |-> NoCar]]]
\* The day's vans may have been given already.
PapersInit ==
    /\ seat = [b \in Riders |-> Fresh(b)]
    /\ car \in [Rounds -> Cars \cup {NoCar}] /\ backCar = [g \in Rounds |-> NoCar]
    /\ mark = [j \in Jobs |-> NoMark] /\ asSent = [j \in Jobs |-> NoMark]
    /\ bill = Blank /\ papers = 0

DayStep ==
    \/ \E p \in Ridden, g \in Rounds \cup {NoRound}, v \in Cars \cup {NoCar} : RideMoves(p[1], p[2], g, v)
    \/ \E b \in Riders : Settle(b)
    \/ \E g \in Rounds, v, back \in Cars \cup {NoCar} : GiveCar(g, v, back)
SheetStep == \E j \in Jobs : MarkSent(j) \/ MarkUnsent(j)
BillStep ==
    \/ \E r \in Rates, k \in Keys, o \in Rates \cup {NoRate}, see \in BOOLEAN :
        PatchBill(r, [bill.over EXCEPT ![k] = o], see)
    \/ SendBill \/ UnsendBill \/ PayBill \/ UnpayBill

AskPaper == papers < MaxPapers /\ papers' = papers + 1
SheetHistory == AskPaper /\ (DayStep \/ SheetStep)
BillHistory == AskPaper /\ (DayStep \/ BillStep)
PapersNext == SheetHistory \/ BillHistory

PapersSpec == PapersInit /\ [][PapersNext]_paperVars

-----------------------------------------------------------------------------

PapersTypeOK ==
    /\ \A b \in Riders : seat[b].lost \in 0 .. RidersBooked(b)
    /\ car \in [Rounds -> Cars \cup {NoCar}] /\ backCar \in [Rounds -> Cars \cup {NoCar}]
    /\ bill.over \in [Keys -> Rates \cup {NoRate}] /\ bill.seen \subseteq Keys
    /\ bill.sentBill \in Nat /\ bill.paidAmount \in Nat
    /\ bill.paid => bill.sent

Times(leg, p) == Cardinality({j \in JobsToday :
    \E r \in (IF leg = "out" THEN Sheet(j).out ELSE Sheet(j).ret) : r.booking = p[1] /\ p[2] \in r.parts})

\* Whoever a van takes out is on one driver's sheet, and whoever a van brings back is on one sheet's
\* way back, however many rounds the van makes and though it took nobody out; and a sheet not flagged
\* as changed is, row for row, the one the driver has.
SheetsCarryEveryone ==
    /\ \A p \in Ridden :
        /\ Times("out", p) = IF CarOf(p) # NoCar /\ ~seat[p[1]].self THEN 1 ELSE 0
        /\ Times("ret", p) = IF ReturnCar(p) # NoCar THEN 1 ELSE 0
    /\ \A j \in JobsToday : mark[j] # NoMark /\ ~ChangedSinceSent(j) => Sheet(j) = asSent[j]

\* A van's day is one run on the bill, out and back, and the people billed are those who travelled,
\* each once, however the booking was split over the vans and whoever did not come.
BillCountsOnce ==
    /\ \A v \in Partners : Cardinality({k \in RowKeys : k[1] = v}) <= 1
    /\ \A b \in Riders :
        (seat[b].live /\ \A i \in DOMAIN PartPax[b] : CarOf(<<b, i>>) \in Partners)
        => MapThenSumSet(AboardPart, {b} \X DOMAIN PartPax[b]) = RidersAboard(b)

\* A paid bill is settled: neither what it was worked out from nor what was paid changes until the
\* payment is undone.
PaidBillStands == bill.paid /\ bill'.paid => bill' = bill
=============================================================================
