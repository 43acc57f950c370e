------------------------------ MODULE RouteDays ------------------------------
(***************************************************************************)
(* The calendar of one route and what stands on its days. A route runs by  *)
(* its seasons and by single-day overrides; a season is added or deleted,  *)
(* an override set or cleared. Bookings hold trips on the route's days and *)
(* boats are deployed on them. Every change that closes a day from today   *)
(* on which something stands asks first (close_anyway), and a trip is sold *)
(* on, moved to or restored on a day only while the route runs.            *)
(***************************************************************************)
EXTENDS Naturals, FiniteSets

CONSTANTS Travellers,  \* bookings
          Ships,       \* boats
          TripNos,     \* the trip ids of a booking
          LastDay,     \* the days are 1..LastDay
          SeasonIds,   \* ids of seasons, in the order ids compare
          NoTripDay,   \* a trip id the booking does not use
          MaxEdits     \* bound: the requests of a history

ASSUME RouteDaysAssumption ==
    /\ LastDay \in Nat \ {0} /\ MaxEdits \in Nat /\ SeasonIds \subseteq Nat
    /\ NoTripDay \notin 1..LastDay

VARIABLES seasons,   \* route_seasons: [id, kind, from, to]
          marked,    \* route_day_overrides: day -> kind, "unset" without one
          bookings,  \* each booking: status, the day of each trip, whether from legacy's B2C sync
          sailing,   \* deployments: <<boat, day>>
          date,      \* today in Thailand
          accepted,  \* history: what was left on a closed day with consent, or put there by a call that may
          edits      \* history: requests so far

calendarVars == <<seasons, marked, bookings, sailing, date, accepted, edits>>

CalendarDays == 1..LastDay
Kinds == {"open", "closed"}
Season == [id : SeasonIds, kind : Kinds, from : CalendarDays, to : CalendarDays]
NoGuest == [status |-> "none", day |-> [t \in TripNos |-> NoTripDay], b2c |-> FALSE]

-----------------------------------------------------------------------------
(* Whether the route runs                                                    *)

\* Overlapping seasons: the one that starts first, then the lower id.
FirstOf(S) == CHOOSE s \in S : \A o \in S : s.from < o.from \/ (s.from = o.from /\ s.id <= o.id)

(* routeCalendar's status: an override wins, then the first season that    *)
(* holds the day; a route with any open season is closed outside them.     *)
Runs(S, M, d) ==
    LET over == {s \in S : s.from <= d /\ d <= s.to}
    IN  CASE M[d] # "unset" -> M[d] = "open"
          [] M[d] = "unset" /\ over # {} -> FirstOf(over).kind = "open"
          [] OTHER -> ~\E s \in S : s.kind = "open"

RunsOn(d) == Runs(seasons, marked, d)

\* What a closed day would strand, from today: a booking's trip or a boat.
TripsStanding == {<<g, bookings[g].day[t]>> : <<g, t>> \in
                    {gt \in Travellers \X TripNos : bookings[gt[1]].status = "live" /\ bookings[gt[1]].day[gt[2]] # NoTripDay}}
Standing == {h \in TripsStanding \cup sailing : h[2] >= date}

-----------------------------------------------------------------------------
(* Editing the calendar                                                      *)

\* assertCloseAllowed: what stands on a day the change turns from open to closed.
Stranded(S, M) == {h \in Standing : RunsOn(h[2]) /\ ~Runs(S, M, h[2])}

\* Mutant: legacy asks only of a closed season added and of a day toggled closed.
AsksOf(op, S, M) == {h \in Stranded(S, M) : op \in {"close-season", "close-day"}}
\* assertCloseAllowed is checked on every change.
Asks(op, S, M) == Stranded(S, M)

(* changeCalendar: the change, refused while it strands something unless   *)
(* close_anyway. What is left on a closed day by consent is noted; a day   *)
(* that runs again forgets its consents.                                   *)
Change(op, S, M, anyway) ==
    /\ anyway \/ Asks(op, S, M) = {}
    /\ seasons' = S /\ marked' = M
    /\ accepted' = {h \in accepted \cup (IF anyway THEN Stranded(S, M) ELSE {}) : ~Runs(S, M, h[2])}
    /\ UNCHANGED <<bookings, sailing, date>>

AddSeason(s, anyway) ==
    /\ s.from <= s.to
    /\ \A o \in seasons : o.id # s.id
    /\ Change(IF s.kind = "closed" THEN "close-season" ELSE "open-season", seasons \cup {s}, marked, anyway)
DeleteSeason(s, anyway) == s \in seasons /\ Change("delete-season", seasons \ {s}, marked, anyway)
SetDay(d, kind, anyway) ==
    Change(IF kind = "closed" THEN "close-day" ELSE "open-day", seasons, [marked EXCEPT ![d] = kind], anyway)
ClearDay(d, anyway) == marked[d] # "unset" /\ Change("clear-day", seasons, [marked EXCEPT ![d] = "unset"], anyway)

-----------------------------------------------------------------------------
(* Bookings and boats                                                        *)

\* Mutant: only trips that are new are looked at, not those that move.
CheckedNew(old, new) == {new[t] : t \in {u \in TripNos : new[u] # NoTripDay /\ old[u] = NoTripDay}}
\* tripsToCheckOpen: the days of the trips a write adds or moves.
Checked(old, new) == {new[t] : t \in {u \in TripNos : new[u] # NoTripDay /\ new[u] # old[u]}}

(* A write that leaves booking g with these trips and this status, checking *)
(* days. Answers to the closing of a day the booking left are forgotten; a  *)
(* trip put on a closed day by legacy's sync is noted.                      *)
Stands(g, new, b2c) ==
    /\ bookings' = [bookings EXCEPT ![g] = [status |-> "live", day |-> new, b2c |-> b2c]]
    /\ accepted' = {h \in accepted : h[1] # g \/ \E t \in TripNos : new[t] = h[2] /\ bookings[g].day[t] = h[2]}
                   \cup {<<g, new[t]>> : t \in {u \in TripNos : b2c /\ new[u] # NoTripDay /\ ~RunsOn(new[u])}}
    /\ UNCHANGED <<seasons, marked, sailing, date>>

\* POST /v1/bookings: every trip's day must run, save for legacy's B2C sync.
BookTrips(g, new, b2c) ==
    /\ bookings[g] = NoGuest /\ \E t \in TripNos : new[t] # NoTripDay
    /\ b2c \/ \A d \in Checked(NoGuest.day, new) : RunsOn(d)
    /\ Stands(g, new, b2c)

\* PATCH of a live booking: only the trips it adds or moves.
AmendTrips(g, new) ==
    /\ bookings[g].status = "live" /\ new # bookings[g].day /\ \E t \in TripNos : new[t] # NoTripDay
    /\ bookings[g].b2c \/ \A d \in Checked(bookings[g].day, new) : RunsOn(d)
    /\ Stands(g, new, bookings[g].b2c)

\* A recorded reschedule of the trips on one day; legacy's sync is no exception.
RescheduleTrips(g, from, to) ==
    LET new == [t \in TripNos |-> IF bookings[g].day[t] = from THEN to ELSE bookings[g].day[t]]
    IN  /\ bookings[g].status = "live" /\ from # to /\ \E t \in TripNos : bookings[g].day[t] = from
        /\ RunsOn(to)
        /\ Stands(g, new, bookings[g].b2c)

\* Cancelled, cancelled for weather or rejected: the seats go back.
GiveUp(g) ==
    /\ bookings[g].status = "live"
    /\ bookings' = [bookings EXCEPT ![g].status = "released"]
    /\ accepted' = {h \in accepted : h[1] # g}
    /\ UNCHANGED <<seasons, marked, sailing, date>>

\* Mutant: the calendar is not read on a restore, as legacy's does not.
RestoreAnywhere(g) ==
    /\ bookings[g].status = "released"
    /\ bookings' = [bookings EXCEPT ![g].status = "live"]
    /\ UNCHANGED <<seasons, marked, sailing, date, accepted>>
\* restoreBooking: every trip's day must run.
RestoreTrips(g) ==
    /\ bookings[g].status = "released"
    /\ \A t \in TripNos : bookings[g].day[t] # NoTripDay => RunsOn(bookings[g].day[t])
    /\ bookings' = [bookings EXCEPT ![g].status = "live"]
    /\ UNCHANGED <<seasons, marked, sailing, date, accepted>>

\* A deployment does not read the calendar.
Deploy(s, d) ==
    /\ <<s, d>> \notin sailing /\ d >= date
    /\ sailing' = sailing \cup {<<s, d>>}
    /\ accepted' = IF RunsOn(d) THEN accepted ELSE accepted \cup {<<s, d>>}
    /\ UNCHANGED <<seasons, marked, bookings, date>>
Undeploy(s, d) ==
    /\ <<s, d>> \in sailing /\ d >= date
    /\ sailing' = sailing \ {<<s, d>>}
    /\ accepted' = accepted \ {<<s, d>>}
    /\ UNCHANGED <<seasons, marked, bookings, date>>

Midnight == date < LastDay /\ date' = date + 1 /\ UNCHANGED <<seasons, marked, bookings, sailing, accepted>>

-----------------------------------------------------------------------------

DaysInit ==
    /\ seasons \in SUBSET [id : {0}, kind : Kinds, from : CalendarDays, to : CalendarDays] /\ Cardinality(seasons) <= 1
    /\ \A s \in seasons : s.from <= s.to
    /\ marked = [d \in CalendarDays |-> "unset"]
    /\ bookings = [g \in Travellers |-> NoGuest]
    /\ sailing = {} /\ date = 1 /\ accepted = {} /\ edits = 0

CalendarStep ==
    \E anyway \in BOOLEAN :
        \/ \E s \in Season : AddSeason(s, anyway)
        \/ \E s \in seasons : DeleteSeason(s, anyway)
        \/ \E d \in CalendarDays, k \in Kinds : SetDay(d, k, anyway)
        \/ \E d \in CalendarDays : ClearDay(d, anyway)
GuestStep ==
    \E g \in Travellers :
        \/ \E new \in [TripNos -> CalendarDays \cup {NoTripDay}] : AmendTrips(g, new) \/ \E b2c \in BOOLEAN : BookTrips(g, new, b2c)
        \/ \E from, to \in CalendarDays : RescheduleTrips(g, from, to)
        \/ GiveUp(g) \/ RestoreTrips(g)
BoatDayStep ==
    \E s \in Ships, d \in CalendarDays : Deploy(s, d) \/ Undeploy(s, d)

DaysNext ==
    /\ edits < MaxEdits /\ edits' = edits + 1
    /\ CalendarStep \/ GuestStep \/ BoatDayStep \/ Midnight
DaysSpec == DaysInit /\ [][DaysNext]_calendarVars

-----------------------------------------------------------------------------

\* The calendar, the bookings, the boats and today keep their types.
DaysTypeOK ==
    /\ seasons \subseteq Season
    /\ marked \in [CalendarDays -> Kinds \cup {"unset"}]
    /\ bookings \in [Travellers -> [status : {"none", "live", "released"}, day : [TripNos -> CalendarDays \cup {NoTripDay}], b2c : BOOLEAN]]
    /\ sailing \subseteq Ships \X CalendarDays /\ date \in CalendarDays
    /\ accepted \subseteq (Travellers \cup Ships) \X CalendarDays

(* From today on, a booking's trip or a boat stands on a day the route does *)
(* not run only where somebody said so: the day was closed with             *)
(* close_anyway while it stood there, legacy's B2C sync put it there, or    *)
(* the boat was deployed on a closed day. No season, override, amendment,   *)
(* reschedule or restore leaves one there in silence (assertCloseAllowed,   *)
(* tripsToCheckOpen, restoreBooking).                                       *)
NoneStrandedInSilence == \A h \in Standing : ~RunsOn(h[2]) => h \in accepted
=============================================================================
