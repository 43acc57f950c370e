------------------------------ MODULE StaffSeats ------------------------------
(***************************************************************************)
(* Staff members, the free welfare seats each may take in a year, and the  *)
(* bookings that name them. A create checks the quota before its           *)
(* transaction and writes inside it, so other requests run between the     *)
(* two; an edit does both inside. bookings.staff_id has no foreign key,    *)
(* and a new member's number is one above the highest in use.              *)
(***************************************************************************)
EXTENDS Naturals, FiniteSets, FiniteSetsExt, TLC

CONSTANTS StaffOrders,  \* bookings
          Years,        \* years a quota is for
          FreeSeats,    \* FOC seats a booking may ask in a year
          Quotas,       \* quotas that are set
          LastStaff,    \* bound: the highest staff number
          Nobody,       \* no booking, no draft
          MaxStaffCalls \* bound: the requests of a history

ASSUME StaffSeatsAssumption ==
    /\ FreeSeats \subseteq Nat /\ Quotas \subseteq Nat
    /\ LastStaff \in Nat /\ MaxStaffCalls \in Nat

VARIABLES members, \* staff: each number's quotas, or nobody
          named,   \* bookings that name staff: [who, house, inspection, free, held, person]
          drafts,  \* creates checked and not written yet: [form, anyway, alone, person]
          person,  \* history: how many people have had each number
          excused, \* history: the number and year pairs somebody let past the quota
          overrun, \* history: bookings written after another request came between
          asked    \* history: requests so far

staffVars == <<members, named, drafts, person, excused, overrun, asked>>

Numbers == 1..LastStaff
Staff == {m \in Numbers : members[m] # Nobody}
Forms == [who : Numbers, house : BOOLEAN, inspection : BOOLEAN, free : [Years -> FreeSeats]]
Named(m) == {o \in StaffOrders : IF named[o] = Nobody THEN FALSE ELSE named[o].who = m}

\* welfareUsed: the FOC seats of a year, not cancelled, not an inspection, but for one booking.
Counts(o) == named[o].held /\ ~named[o].inspection
UsedBut(m, y, o) == MapThenSumSet(LAMBDA p : named[p].free[y], {p \in Named(m) \ {o} : Counts(p)})
Used(m, y) == UsedBut(m, y, Nobody)

\* checkStaffBooking: a name sent must be a member; the house account is held to the quota.
Known(form) == form.who \in Staff
OverQuota(form, o) ==
    {y \in Years : /\ form.house /\ ~form.inspection /\ Known(form)
                   /\ form.free[y] + UsedBut(form.who, y, o) > members[form.who][y]}
\* What a write may put past the quota with nobody refused: asked anyway, or not the house account.
LetPast(form, o, anyway) ==
    {<<form.who, y>> : y \in IF ~form.house THEN Years ELSE IF anyway THEN OverQuota(form, o) ELSE {}}

Overtaken == [o \in StaffOrders |-> IF drafts[o] = Nobody THEN Nobody ELSE [drafts[o] EXCEPT !.alone = FALSE]]
Stored(form, whom) == form @@ [held |-> TRUE, person |-> whom]

-----------------------------------------------------------------------------
(* The registry                                                              *)

\* planStaffCreate: the number after the highest in use, with three free seats for this year.
AddStaff(q) ==
    LET n == IF Staff = {} THEN 1 ELSE Max(Staff) + 1
    IN  /\ n \in Numbers
        /\ members' = [members EXCEPT ![n] = q]
        /\ person' = [person EXCEPT ![n] = @ + 1]
        /\ drafts' = Overtaken
        /\ UNCHANGED <<named, excused, overrun>>

\* withQuota; a quota set below what is used is not refused.
SetQuota(m, y, n) ==
    /\ m \in Staff /\ n # members[m][y]
    /\ members' = [members EXCEPT ![m][y] = n]
    /\ excused' = excused \cup (IF Used(m, y) > n THEN {<<m, y>>} ELSE {})
    /\ drafts' = Overtaken
    /\ UNCHANGED <<named, person, overrun>>

\* assertStaffDeletable counts every booking that names the member, the cancelled ones too.
NamedOn(m) == Named(m) # {}
DeleteStaff(m) ==
    /\ m \in Staff /\ ~NamedOn(m)
    /\ members' = [members EXCEPT ![m] = Nobody]
    /\ drafts' = Overtaken
    /\ UNCHANGED <<named, person, excused, overrun>>

-----------------------------------------------------------------------------
(* Bookings                                                                  *)

\* planBooking: the staff rules, before the transaction.
PlanBooking(o, form, anyway) ==
    /\ named[o] = Nobody /\ drafts[o] = Nobody
    /\ Known(form) /\ (OverQuota(form, o) = {} \/ anyway)
    /\ drafts' = [drafts EXCEPT ![o] = [form |-> form, alone |-> TRUE, anyway |-> anyway, person |-> person[form.who]]]
    /\ UNCHANGED <<members, named, person, excused, overrun>>
\* writeBooking: the transaction, which does not look at the quota again.
WriteBooking(o) ==
    /\ drafts[o] # Nobody
    /\ LET form == drafts[o].form
       IN  /\ named' = [named EXCEPT ![o] = Stored(form, drafts[o].person)]
           /\ excused' = excused \cup LetPast(form, o, drafts[o].anyway)
           /\ overrun' = IF drafts[o].alone THEN overrun ELSE overrun \cup {o}
    /\ drafts' = [Overtaken EXCEPT ![o] = Nobody]
    /\ UNCHANGED <<members, person>>

(* amendBooking, on a booking that holds its seats: the same rules, inside *)
(* the transaction, this booking left out; a member it names already is    *)
(* not looked up. The agent does not change.                               *)
AmendBooking(o, form, anyway) ==
    /\ named[o] # Nobody
    /\ named[o].held /\ form.house = named[o].house
    /\ form.who # named[o].who => Known(form)
    /\ (OverQuota(form, o) = {} \/ anyway)
    /\ named' = [named EXCEPT ![o] = Stored(form, IF form.who = @.who THEN @.person ELSE person[form.who])]
    /\ excused' = excused \cup LetPast(form, o, anyway)
    /\ drafts' = Overtaken
    /\ UNCHANGED <<members, person, overrun>>

\* A cancel gives the seats back; a restore and a reschedule to another year ask no quota.
CancelNamed(o) ==
    /\ named[o] # Nobody
    /\ named[o].held /\ named' = [named EXCEPT ![o].held = FALSE]
    /\ drafts' = Overtaken /\ UNCHANGED <<members, person, excused, overrun>>
RestoreNamed(o) ==
    /\ named[o] # Nobody
    /\ ~named[o].held /\ named' = [named EXCEPT ![o].held = TRUE]
    /\ excused' = excused \cup {<<named[o].who, y>> : y \in Years}
    /\ drafts' = Overtaken /\ UNCHANGED <<members, person, overrun>>
Reschedule(o, from, to) ==
    /\ named[o] # Nobody /\ from # to
    /\ named[o].held /\ named[o].free[from] > 0
    /\ named' = [named EXCEPT ![o].free = [@ EXCEPT ![from] = 0, ![to] = @ + named[o].free[from]]]
    /\ excused' = excused \cup {<<named[o].who, to>>}
    /\ drafts' = Overtaken /\ UNCHANGED <<members, person, overrun>>

-----------------------------------------------------------------------------

StaffInit ==
    /\ members = [m \in Numbers |-> Nobody] /\ person = [m \in Numbers |-> 0]
    /\ named = [o \in StaffOrders |-> Nobody] /\ drafts = [o \in StaffOrders |-> Nobody]
    /\ excused = {} /\ overrun = {} /\ asked = 0

RegistryStep ==
    \/ \E q \in [Years -> Quotas] : AddStaff(q)
    \/ \E m \in Numbers : DeleteStaff(m) \/ \E y \in Years, n \in Quotas : SetQuota(m, y, n)
OrderStep ==
    \E o \in StaffOrders :
        \/ \E form \in Forms, anyway \in BOOLEAN : PlanBooking(o, form, anyway) \/ AmendBooking(o, form, anyway)
        \/ WriteBooking(o) \/ CancelNamed(o) \/ RestoreNamed(o)
        \/ \E from, to \in Years : Reschedule(o, from, to)

StaffNext == asked < MaxStaffCalls /\ asked' = asked + 1 /\ (RegistryStep \/ OrderStep)
StaffSpec == StaffInit /\ [][StaffNext]_staffVars

-----------------------------------------------------------------------------

\* The members, the bookings that name them and the creates in flight keep their types.
StaffTypeOK ==
    /\ members \in [Numbers -> [Years -> Quotas] \cup {Nobody}]
    /\ \A o \in StaffOrders : named[o] # Nobody => named[o].who \in Numbers /\ \A y \in Years : named[o].free[y] \in Nat
    /\ \A o \in StaffOrders : drafts[o] # Nobody => drafts[o].form \in Forms

(* README.md 828-835: a welfare booking whose free seats exceed what the   *)
(* year has left is refused until quota_anyway. So a member takes more     *)
(* than the quota only where someone let it, or a create was overtaken     *)
(* between its check and its transaction.                                  *)
WelfareWithinQuota ==
    \A m \in Staff, y \in Years :
        Used(m, y) > members[m][y] => <<m, y>> \in excused \/ Named(m) \cap overrun # {}

(* A stored booking's staff number stands for the person it was booked     *)
(* for: that member is not deleted, and nobody new gets the number, unless *)
(* the create was overtaken.                                               *)
NamesTheSamePerson ==
    \A o \in StaffOrders \ overrun : named[o] # Nobody => named[o].who \in Staff /\ named[o].person = person[named[o].who]

StaffKept == WelfareWithinQuota /\ NamesTheSamePerson
=============================================================================
