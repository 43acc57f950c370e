------------------------------- MODULE Pricing -------------------------------
(***************************************************************************)
(* The price of a booking, as priceBooking computes it: each trip at the   *)
(* rate it is priced at, the add-ons at the booking's rate, then the       *)
(* adjustments. Operators only, and one variable: the question asked.      *)
(*                                                                         *)
(* A route's block in a rate holds the seat prices of its zones, the       *)
(* charter price, the longtail prices and the longtail bundle. One zone    *)
(* and one boat type are enough: another one is another block. Infants     *)
(* count where they are charged (charter extras) with the children free of *)
(* charge (foc). Transfers are a price by name, and are left out.          *)
(***************************************************************************)
EXTENDS Totals, Sequences, FiniteSetsExt, SequencesExt

CONSTANTS
    Asked,          \* the quotes asked for (bound)
    NotPriced       \* no price of a kind

VARIABLE ask        \* the quote asked for

-----------------------------------------------------------------------------
(* Passengers: an adult is foreign, Thai, or unsaid (bare).                *)

Parties == [fr : Nat, bare : Nat, th : Nat, chd : Nat, foc : Nat]
AllAdults(p) == p.fr + p.bare + p.th
Heads(p) == AllAdults(p) + p.chd + p.foc
\* A bare count is priced as foreign, and only when no foreign adult is named.
ForeignOrBare(p) == IF p.fr > 0 THEN p.fr ELSE p.bare

\* Math.round of value percent of n.
Percent(n, value) == (2 * n * value + 100) \div 200

-----------------------------------------------------------------------------
(* Trips                                                                   *)

Priced(n) == [baht |-> n, warn |-> "none"]
Warned(what) == [baht |-> 0, warn |-> what]

\* Both adult prices at 0 read as "not offered"; a child price alone sells nothing.
Offered(cells) == cells # NotPriced /\ (cells.fr > 0 \/ cells.th > 0)
BundleApplies(block, mode) == block.bundle # NotPriced /\ block.bundle.to \in {"both", mode}
BundlePrice(block, mode, p) ==
    IF BundleApplies(block, mode) /\ block.bundle.mode = "paid"
    THEN block.bundle.adult * AllAdults(p) + block.bundle.child * p.chd ELSE 0
SeatPrice(cells, p) == cells.fr * ForeignOrBare(p) + cells.th * p.th + cells.chd * p.chd

SeatTrip(t, block) ==
    LET cells == IF t.zone THEN block.seat ELSE NotPriced
    IN  IF Offered(cells) THEN Priced(SeatPrice(cells, t.pax) + BundlePrice(block, "seat", t.pax))
        ELSE Warned("not_offered")

\* Mutant: the passengers the starter price includes are charged when there are fewer of them.
CharterTripUncut(t, block) ==
    IF block.charter = NotPriced
    THEN IF t.byHand # NotPriced /\ t.byHand > 0 THEN Priced(t.byHand) ELSE Warned("no_charter_price")
    ELSE IF t.byHand # NotPriced THEN Priced(t.byHand)
    ELSE Priced(block.charter.starter + BundlePrice(block, "charter", t.pax)
                + (block.charter.includes - Heads(t.pax)) * block.charter.extra)

CharterTrip(t, block) ==
    IF block.charter = NotPriced
    THEN IF t.byHand # NotPriced /\ t.byHand > 0 THEN Priced(t.byHand) ELSE Warned("no_charter_price")
    ELSE IF t.byHand # NotPriced THEN Priced(t.byHand)
    ELSE Priced(block.charter.starter + BundlePrice(block, "charter", t.pax)
                + Clip(Heads(t.pax) - block.charter.includes) * block.charter.extra)

\* An overnight's return leg is free. rate is NotPriced when nothing prices the trip.
TripPrice(t, rate) ==
    IF rate = NotPriced THEN Warned("no_rate")
    ELSE IF t.leg THEN Priced(0)
    ELSE IF t.mode = "charter" THEN CharterTrip(t, rate[t.route])
    ELSE SeatTrip(t, rate[t.route])

-----------------------------------------------------------------------------
(* Add-ons: from one rate for the whole booking.                           *)

LongtailTrips(trips, rate) == SelectSeq(trips, LAMBDA t : rate[t.route].longtail # NotPriced)
AnyBundled(trips, rate) == \E i \in DOMAIN trips : BundleApplies(rate[trips[i].route], trips[i].mode)

\* The adults who join a longtail, filled trip by trip until those asked for are used up.
\* Mutant: what is left is not taken off as the trips fill.
JoinOfUnspent(trips, rate, asked) ==
    LET on == LongtailTrips(trips, rate)
        cap == FoldLeft(LAMBDA n, t : n + AllAdults(t.pax), 0, on)
        rest == IF asked = NotPriced THEN cap ELSE Least(asked, cap)
    IN  FoldLeft(LAMBDA n, t : n + rate[t.route].longtail.join * Least(rest, AllAdults(t.pax)), 0, on)

JoinOf(trips, rate, asked) ==
    LET on == LongtailTrips(trips, rate)
        cap == FoldLeft(LAMBDA n, t : n + AllAdults(t.pax), 0, on)
        start == [rest |-> IF asked = NotPriced THEN cap ELSE Least(asked, cap), baht |-> 0]
        Fill(acc, t) ==
            LET take == Least(acc.rest, AllAdults(t.pax))
            IN  [rest |-> acc.rest - take, baht |-> acc.baht + rate[t.route].longtail.join * take]
    IN  FoldLeft(Fill, start, on).baht

LongtailCharter(trips, rate) ==
    FoldLeft(LAMBDA n, t : n + rate[t.route].longtail.charter, 0, LongtailTrips(trips, rate))

\* A bundled join keeps its amount on the add-on and is left out of the total.
AddOnTotal(q) ==
    IF q.rate = NotPriced THEN 0
    ELSE (IF q.join = "none" \/ AnyBundled(q.trips, q.rate) THEN 0
          ELSE JoinOf(q.trips, q.rate, IF q.join = "all" THEN NotPriced ELSE q.asked))
         + q.charters * LongtailCharter(q.trips, q.rate)

-----------------------------------------------------------------------------
(* The total                                                               *)

SeatTotal(q) == FoldLeft(LAMBDA n, t : n + TripPrice(t, q.rate).baht, 0, q.trips)
Discount(q, base) == IF q.mode = "percent" THEN Percent(base, q.off) ELSE q.off
\* By hand, neither the adjustments nor the overnight charges count.
QuoteTotal(q) ==
    IF q.byHand # NotPriced THEN Clip(q.byHand)
    ELSE LET base == SeatTotal(q) + AddOnTotal(q)
         IN  Clip(base - Discount(q, base) + q.extra)

QuoteInit == ask \in Asked
QuoteNext == UNCHANGED ask

-----------------------------------------------------------------------------
(* Properties                                                              *)

OneMore(p) == IF p.bare > 0 THEN [p EXCEPT !.bare = @ + 1] ELSE [p EXCEPT !.fr = @ + 1]
\* One more adult on any trip never makes a booking cheaper, whatever is added to it or taken off, as
\* long as its adults are all said to be foreign or all left unsaid.
OneMoreNeverCheaper ==
    \A i \in DOMAIN ask.trips :
        ask.trips[i].pax.fr = 0 \/ ask.trips[i].pax.bare = 0 =>
            QuoteTotal([ask EXCEPT !.trips[i].pax = OneMore(@)]) >= QuoteTotal(ask)

\* The longtail join charges as many adults as were asked for and are aboard, each once and in the
\* order of the trips: a trip takes what the trips before it left.
JoinChargedOnce ==
    ask.rate # NotPriced =>
        LET on == LongtailTrips(ask.trips, ask.rate)
            Before(i) == FoldLeft(LAMBDA n, t : n + AllAdults(t.pax), 0, SubSeq(on, 1, i - 1))
            Takes(i) == Least(AllAdults(on[i].pax), Clip(ask.asked - Before(i)))
        IN  JoinOf(ask.trips, ask.rate, ask.asked)
                = MapThenSumSet(LAMBDA i : ask.rate[on[i].route].longtail.join * Takes(i), DOMAIN on)
=============================================================================
