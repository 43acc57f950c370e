------------------------------ MODULE BoatSeats ------------------------------
(***************************************************************************)
(* The seats of one boat, as the catalogue, its deployments, the day's own *)
(* seats and the passengers placed on it each see them. A deployment       *)
(* copies the boat's numbers; an edit of the boat rewrites every           *)
(* deployment from today on, weighing the days that lose seats; a day may  *)
(* have its own seats; a retired boat stays off every route.               *)
(***************************************************************************)
EXTENDS Naturals, FiniteSets, FiniteSetsExt

CONSTANTS Aboard,      \* bookings placed on the boat
          PartyOf,     \* passengers of each
          Charters,    \* those that are charters of the boat
          Seats,       \* seat numbers that are keyed
          Licences,    \* licences on file
          Typed,       \* seats a deployment may be sent with, beside the boat's own
          TypedLicences, \* licences one may be sent with while the boat has none on file
          Unset,       \* no licence, no own seats, no deployment number
          DayCount,    \* the days are 1..DayCount
          MaxCalls     \* bound: the requests of a history

ASSUME BoatSeatsAssumption ==
    /\ PartyOf \in [Aboard -> Nat] /\ Charters \subseteq Aboard
    /\ Seats \subseteq Nat \ {0} /\ Typed \subseteq Nat \ {0} /\ TypedLicences \subseteq Licences /\ Licences \subseteq Nat \ {0} /\ Unset \notin Nat
    /\ DayCount \in Nat \ {0} /\ MaxCalls \in Nat

VARIABLES craft,    \* boats: capacity, license_pax, retired
          dep,      \* deployments: the boat's row on each day, or none
          daySeats, \* boat_capacity_overrides
          placed,   \* the day each booking is placed on the boat, 0 for none
          now,      \* today in Thailand
          known,    \* history: days somebody put, or left, over their seats knowingly
          apart,    \* history: days with typed numbers an edit of the boat, or a new licence, wrote over
          calls     \* history: requests so far

seatVars == <<craft, dep, daySeats, placed, now, known, apart, calls>>

BoatDays == 1..DayCount
NoDep == [cap |-> Unset, lic |-> Unset]
Tolerance == 2

Lesser(m, n) == IF m <= n THEN m ELSE n
\* charterCeiling and deploymentSeats: the day's own seats, else the row's, under the licence.
Operational(row, own) == IF own # Unset THEN own ELSE row.cap
Licensed(row, own) == IF row.lic # Unset THEN row.lic ELSE Operational(row, own)
Sellable(row, own) == Lesser(Operational(row, own), Licensed(row, own))

Deployed(d) == dep[d] # NoDep
\* placedOn: who is on the boat that day, and whether a charter claims it.
On(d) == {b \in Aboard : placed[b] = d}
PaxOn(d) == MapThenSumSet(LAMBDA b : PartyOf[b], On(d))
Claimed(d) == On(d) \cap Charters # {}
\* A chartered day is weighed against the licence, any other against what it sells.
Limit(row, own, d) == IF Claimed(d) THEN Licensed(row, own) ELSE Sellable(row, own)

-----------------------------------------------------------------------------
(* The boat form                                                             *)

\* seatsDrop: the days that lose seats, sellable or licensed, by the change.
LosesSeats(before, after, own) ==
    Sellable(after, own) < Sellable(before, own) \/ Licensed(after, own) < Licensed(before, own)

\* Mutant: a day is weighed by what it sells, whoever chartered it.
OversoldBySale(before, after) ==
    {d \in BoatDays : /\ d >= now /\ Deployed(d)
                      /\ LosesSeats(before, after, daySeats[d])
                      /\ Sellable(after, daySeats[d]) < Sellable(before, daySeats[d])
                      /\ PaxOn(d) > Sellable(after, daySeats[d])}
(* capacityChange: of the deployed days from today that lose seats, those  *)
(* whose passengers no longer fit.                                         *)
Oversold(before, after) ==
    {d \in BoatDays : /\ d >= now /\ Deployed(d)
                      /\ LosesSeats(before, after, daySeats[d])
                      /\ Limit(after, daySeats[d], d) < Limit(before, daySeats[d], d)
                      /\ PaxOn(d) > Limit(after, daySeats[d], d)}

\* Mutant: only the days that were weighed are rewritten.
RewrittenWhereLost(before, after) ==
    [d \in BoatDays |-> IF d >= now /\ Deployed(d) /\ LosesSeats(before, after, daySeats[d]) THEN after ELSE dep[d]]
\* updateBoatDeployments: the boat's numbers onto every deployment from today.
Rewritten(before, after) == [d \in BoatDays |-> IF d >= now /\ Deployed(d) THEN after ELSE dep[d]]

\* PATCH /v1/boats/{id} with new seats or licence.
SaveBoat(cap, lic, anyway) ==
    LET before == [cap |-> craft.cap, lic |-> craft.lic]
        after == [cap |-> cap, lic |-> lic]
    IN  /\ before # after
        /\ anyway \/ Oversold(before, after) = {}
        /\ craft' = [craft EXCEPT !.cap = cap, !.lic = lic]
        /\ dep' = Rewritten(before, after)
        /\ known' = known \cup Oversold(before, after)
        /\ apart' = apart \cup {d \in BoatDays : d >= now /\ Deployed(d) /\ dep[d] # before}
        /\ UNCHANGED <<daySeats, placed, now>>

\* Mutant: deployments still to come do not hold the boat back.
RetireSailing ==
    /\ ~craft.retired /\ craft' = [craft EXCEPT !.retired = TRUE]
    /\ UNCHANGED <<dep, daySeats, placed, now, known, apart>>
\* retiredBoat: refused while the boat is deployed from today on.
Retire ==
    /\ ~craft.retired /\ \A d \in BoatDays : d >= now => ~Deployed(d)
    /\ craft' = [craft EXCEPT !.retired = TRUE]
    /\ UNCHANGED <<dep, daySeats, placed, now, known, apart>>
RestoreBoat ==
    /\ craft.retired /\ craft' = [craft EXCEPT !.retired = FALSE]
    /\ UNCHANGED <<dep, daySeats, placed, now, known, apart>>

-----------------------------------------------------------------------------
(* Deployments and the day's own seats                                       *)

(* POST /operations/deployments, on a new day or over a standing row: the  *)
(* capacity is the caller's; so is the licence while the catalogue has     *)
(* none. Shrinking a row below its passengers asks for remove_anyway.      *)
DeployBoat(d, cap, typed, anyway) ==
    LET row == [cap |-> cap, lic |-> IF craft.lic = Unset THEN typed ELSE craft.lic]
        shrinks == Deployed(d) /\ cap < PaxOn(d)
    IN  /\ d >= now /\ ~craft.retired /\ row # dep[d]
        /\ shrinks => anyway
        /\ dep' = [dep EXCEPT ![d] = row]
        /\ known' = IF shrinks THEN known \cup {d} ELSE known
        /\ apart' = IF Deployed(d) /\ row.lic # dep[d].lic THEN apart \cup {d} ELSE apart
        /\ UNCHANGED <<craft, daySeats, placed, now>>

\* A boat a charter holds stays; one with passengers leaves with remove_anyway.
UndeployBoat(d, anyway) ==
    /\ d >= now /\ Deployed(d) /\ ~Claimed(d) /\ (On(d) # {} => anyway)
    /\ dep' = [dep EXCEPT ![d] = NoDep]
    /\ known' = IF On(d) # {} THEN known \cup {d} ELSE known
    /\ UNCHANGED <<craft, daySeats, placed, now, apart>>

\* overrideDay: what the day sells from normally, at most, and now.
Normal(d) == IF Deployed(d) THEN dep[d].cap ELSE craft.cap
Ceiling == IF craft.lic # Unset THEN craft.lic ELSE craft.cap
DaySells(d) == IF daySeats[d] # Unset THEN Lesser(daySeats[d], Ceiling) ELSE Normal(d)

(* planOverride: at most the ceiling, the normal number removes it, and    *)
(* above normal and above what the day has takes act-capunlock. Passengers *)
(* placed on the day are not weighed.                                      *)
SetDaySeats(d, cap, mayRaise) ==
    LET own == IF cap = Normal(d) THEN Unset ELSE cap
    IN  /\ d >= now /\ cap <= Ceiling
        /\ cap > Normal(d) /\ cap > DaySells(d) => mayRaise
        /\ daySeats' = [daySeats EXCEPT ![d] = own]
        /\ known' = known \cup {d}
        /\ UNCHANGED <<craft, dep, placed, now, apart>>
ClearDaySeats(d) ==
    /\ d >= now /\ daySeats[d] # Unset
    /\ daySeats' = [daySeats EXCEPT ![d] = Unset]
    /\ known' = known \cup {d}
    /\ UNCHANGED <<craft, dep, placed, now, apart>>

-----------------------------------------------------------------------------
(* Placing passengers                                                        *)

(* checkBoatAssignment: up to what the day sells and a tolerance; past     *)
(* that a person with the right raises the day's own seats to the load,    *)
(* under the licence. A boat with no row that day is not weighed.          *)
PlaceSeats(b, d, raise) ==
    LET load == PaxOn(d) + PartyOf[b]
        row == dep[d]
        fits == load <= Sellable(row, daySeats[d]) + Tolerance
        licensed == IF row.lic = Unset THEN TRUE ELSE load <= row.lic + Tolerance
    IN  /\ placed[b] = 0 /\ b \notin Charters /\ d >= now /\ Deployed(d) /\ ~Claimed(d)
        /\ IF fits THEN TRUE ELSE raise /\ licensed
        /\ placed' = [placed EXCEPT ![b] = d]
        /\ daySeats' = IF fits THEN daySeats
                       ELSE [daySeats EXCEPT ![d] = IF row.lic # Unset THEN Lesser(row.lic, load) ELSE load]
        /\ known' = IF load > Sellable(row, daySeats[d]) THEN known \cup {d} ELSE known
        /\ UNCHANGED <<craft, dep, now, apart>>
\* A charter fills the boat to its licence.
PlaceCharter(b, d) ==
    /\ placed[b] = 0 /\ b \in Charters /\ d >= now /\ Deployed(d) /\ On(d) = {}
    /\ PartyOf[b] <= Licensed(dep[d], daySeats[d])
    /\ placed' = [placed EXCEPT ![b] = d]
    /\ UNCHANGED <<craft, dep, daySeats, now, known, apart>>
\* A booking gives its seats back.
GiveBack(b) == placed[b] # 0 /\ placed' = [placed EXCEPT ![b] = 0] /\ UNCHANGED <<craft, dep, daySeats, now, known, apart>>

NextBoatDay == now < DayCount /\ now' = now + 1 /\ UNCHANGED <<craft, dep, daySeats, placed, known, apart>>

-----------------------------------------------------------------------------

SeatsInit ==
    /\ craft \in [cap : Seats, lic : Licences \cup {Unset}, retired : {FALSE}]
    /\ dep = [d \in BoatDays |-> NoDep] /\ daySeats = [d \in BoatDays |-> Unset]
    /\ placed = [b \in Aboard |-> 0] /\ now = 1 /\ known = {} /\ apart = {} /\ calls = 0

CatalogueStep ==
    \/ \E cap \in Seats, lic \in Licences \cup {Unset}, anyway \in BOOLEAN : SaveBoat(cap, lic, anyway)
    \/ Retire \/ RestoreBoat
DeployStep ==
    \E d \in BoatDays :
        \/ \E cap \in Typed \cup {craft.cap}, typed \in TypedLicences \cup {Unset}, anyway \in BOOLEAN :
               DeployBoat(d, cap, typed, anyway)
        \/ \E anyway \in BOOLEAN : UndeployBoat(d, anyway)
        \/ \E cap \in Seats, mayRaise \in BOOLEAN : SetDaySeats(d, cap, mayRaise)
        \/ ClearDaySeats(d)
PlaceStep ==
    \E b \in Aboard :
        \/ \E d \in BoatDays : (\E raise \in BOOLEAN : PlaceSeats(b, d, raise)) \/ PlaceCharter(b, d)
        \/ GiveBack(b)

SeatsNext ==
    /\ calls < MaxCalls /\ calls' = calls + 1
    /\ CatalogueStep \/ DeployStep \/ PlaceStep \/ NextBoatDay
SeatsSpec == SeatsInit /\ [][SeatsNext]_seatVars

-----------------------------------------------------------------------------

\* The boat, its rows, its days' seats and its passengers keep their types.
SeatsTypeOK ==
    /\ craft \in [cap : Seats, lic : Licences \cup {Unset}, retired : BOOLEAN]
    /\ dep \in [BoatDays -> [cap : Seats \cup Typed \cup {Unset}, lic : Licences \cup {Unset}]]
    /\ \A d \in BoatDays : daySeats[d] = Unset \/ daySeats[d] \in Nat
    /\ placed \in [Aboard -> BoatDays \cup {0}] /\ now \in BoatDays /\ known \cup apart \subseteq BoatDays

OverItsSeats == {d \in BoatDays : d >= now /\ Deployed(d) /\ PaxOn(d) > Limit(dep[d], daySeats[d], d)}

(* A day from today on carries more passengers than its seats only where   *)
(* somebody was asked or chose so: the tolerance of an assignment,         *)
(* capacity_anyway, remove_anyway, or the day's own seats set by hand; or  *)
(* where numbers the deployment was sent with were written over by an edit *)
(* of the boat (EditAsksFirst) or by another typed licence, which neither  *)
(* capacityChange nor checkDeploymentChange weighs.                        *)
NoneOversoldInSilence == OverItsSeats \subseteq known \cup apart

(* README.md 442-448: before a capacity change rewrites the deployments,   *)
(* each day that loses seats is weighed, and a day over is 409 seats_sold  *)
(* until capacity_anyway.                                                  *)
EditAsksFirst == OverItsSeats \subseteq known

\* Every deployment to come carries the licence the boat has on file, whatever was edited since it was made.
LicenceReachesEveryDay ==
    craft.lic # Unset => \A d \in BoatDays : d >= now /\ Deployed(d) => dep[d].lic = craft.lic

\* A retired boat is on no route from today on.
RetiredStaysIn == craft.retired => \A d \in BoatDays : d >= now => ~Deployed(d)

SeatsKept == NoneOversoldInSilence /\ LicenceReachesEveryDay /\ RetiredStaysIn
=============================================================================
