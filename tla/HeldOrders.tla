----------------------------- MODULE HeldOrders -----------------------------
(***************************************************************************)
(* Love Kingdom's push (b2c.ts, holdOnBadInput in routes/operations.ts): a *)
(* write of its login refused as bad input is kept as a held order in a    *)
(* second transaction, after the refused one has rolled back, so another   *)
(* push of the same order may be booked or held in between.                *)
(***************************************************************************)
EXTENDS Naturals, Sequences, FiniteSets

CONSTANTS
    Orders,         \* Love Kingdom's order ids (external_id)
    Parties,        \* parties [thai, other, people]: seats at each price, and the passengers known
    MaxPushes       \* bound: pushes of a history

VARIABLES
    push,           \* the pushes in flight: [order, action, stage]
    stored,         \* orders booked here
    held,           \* b2c_held_orders: [order, action, status, attempts, booked]
    answered,       \* order |-> how many of its pushes were answered 202
    pushes

heldVars == <<push, stored, held, answered, pushes>>

Actions == {"create", "amend", "cancel"}

-----------------------------------------------------------------------------

\* The push arrives; `bad` is what its body is, whoever reads it.
Push(o, action, bad) ==
    /\ pushes < MaxPushes /\ pushes' = pushes + 1
    /\ action # "create" => o \in stored
    /\ push' = push \cup {[order |-> o, action |-> action, id |-> pushes + 1,
                           stage |-> IF bad THEN "refused" ELSE "sent"]}
    /\ UNCHANGED <<stored, held, answered>>

DecidedAs(h, status, bookedAs) == [h EXCEPT !.status = status, !.booked = bookedAs]

\* Fixed and resent: the open held creates of the order are resolved with the booking.
Settled(o) == [i \in DOMAIN held |->
    IF held[i].action = "create" /\ held[i].order = o /\ held[i].status = "open"
    THEN DecidedAs(held[i], "resolved", TRUE) ELSE held[i]]

Book(p) ==
    /\ p \in push /\ p.stage = "sent" /\ p.action = "create" /\ p.order \notin stored
    /\ stored' = stored \cup {p.order}
    /\ held' = Settled(p.order)
    /\ push' = push \ {p}
    /\ UNCHANGED <<answered, pushes>>

\* Any other write, and a create of an order already here (409), ends without a trace among the held.
Answer(p) ==
    /\ p \in push /\ p.stage = "sent"
    /\ p.action = "create" => p.order \in stored
    /\ push' = push \ {p}
    /\ UNCHANGED <<stored, held, answered, pushes>>

\* Staff key the order themselves: the held create is theirs to close.
KeyedByStaff(o) ==
    /\ o \notin stored
    /\ stored' = stored \cup {o}
    /\ UNCHANGED <<push, held, answered, pushes>>

SameHeldAnyStatus(h, p) == p.action = "create" /\ h.action = "create" /\ h.order = p.order
SameHeldNever(h, p) == FALSE
SameHeldCreate(h, p) ==
    /\ p.action = "create" /\ h.action = "create"
    /\ h.status = "open" /\ h.order = p.order

\* A retry of an order still held counts up; anything else is a new row.
Hold(p) ==
    /\ p \in push /\ p.stage = "refused"
    /\ IF \E i \in DOMAIN held : SameHeldCreate(held[i], p)
       THEN LET i == CHOOSE i \in DOMAIN held : SameHeldCreate(held[i], p)
            IN  held' = [held EXCEPT ![i].attempts = @ + 1]
       ELSE held' = Append(held, [order |-> p.order, action |-> p.action, status |-> "open",
                                  attempts |-> 1, booked |-> FALSE])
    /\ answered' = [answered EXCEPT ![p.order] = @ + 1]
    /\ push' = push \ {p}
    /\ UNCHANGED <<stored, pushes>>

\* The instance stops between the refusal and the hold: the client has no answer and sends again.
Crash ==
    /\ push # {} /\ push' = {}
    /\ UNCHANGED <<stored, held, answered, pushes>>

\* `resolve` may name the booking that settled the order; `dismiss` may not.
Decide(i, status, named) ==
    /\ held[i].status = "open"
    /\ named => status = "resolved" /\ stored # {}
    /\ held' = [held EXCEPT ![i] = DecidedAs(@, status, named)]
    /\ UNCHANGED <<push, stored, answered, pushes>>

-----------------------------------------------------------------------------
(* What is wrong in a booking that was stored. *)

Foreigners(party) == Cardinality({i \in DOMAIN party.people : party.people[i] = "foreign"})
Mixed(party) == party.thai > 0 /\ Foreigners(party) > party.other

\* The seats of a party, each at its price, and a way to seat everyone known, Thai or foreign.
SeatsAsked(party) == 1 .. (party.thai + party.other)
ForeignerAtThaiPrice(party) ==
    \A seating \in [DOMAIN party.people -> SeatsAsked(party)] :
        (\A i, j \in DOMAIN party.people : i # j => seating[i] # seating[j])
        => \E i \in DOMAIN party.people : party.people[i] = "foreign" /\ seating[i] <= party.thai

\* A booking flagged for its prices is one in which some foreigner must sit on a Thai ticket, and only
\* such a one is (mixedTicketRisk).
MixedIsRight == \A party \in Parties : Mixed(party) <=> ForeignerAtThaiPrice(party)

-----------------------------------------------------------------------------

HeldInit ==
    /\ push = {} /\ stored = {} /\ held = <<>>
    /\ answered = [o \in Orders |-> 0] /\ pushes = 0

HeldNext ==
    \/ \E o \in Orders, a \in Actions, bad \in BOOLEAN : Push(o, a, bad)
    \/ \E p \in push : Book(p) \/ Answer(p) \/ Hold(p)
    \/ \E o \in Orders : KeyedByStaff(o)
    \/ Crash
    \/ \E i \in DOMAIN held, s \in {"resolved", "dismissed"}, named \in BOOLEAN : Decide(i, s, named)

HeldSpec == HeldInit /\ [][HeldNext]_heldVars

\* The rows the tables hold.
Pushes == [order: Orders, action: Actions, id: 1 .. MaxPushes, stage: {"sent", "refused"}]
HeldRows == [order: Orders, action: Actions, status: {"open", "resolved", "dismissed"},
             attempts: 1 .. MaxPushes, booked: BOOLEAN]

\* Every row has its type.
HeldTypeOK ==
    /\ push \subseteq Pushes
    /\ stored \subseteq Orders
    /\ \A i \in DOMAIN held :
        held[i] \in HeldRows
    /\ answered \in [Orders -> 0 .. MaxPushes]

Attempts(o) ==
    Cardinality({x \in (DOMAIN held) \X (1 .. MaxPushes) :
        held[x[1]].order = o /\ x[2] <= held[x[1]].attempts})

\* An order waits for ops on one line only, however many of its pushes race, and every push answered
\* "held" is counted there: none is lost and none twice.
HeldKept ==
    /\ \A o \in Orders : Cardinality({i \in DOMAIN held :
            held[i].order = o /\ held[i].action = "create" /\ held[i].status = "open"}) <= 1
    /\ \A o \in Orders : Attempts(o) = answered[o]

\* What ops decided of a held order stands, whatever Love Kingdom sends later; and the push that
\* books an order leaves none of its creates waiting.
DecisionsStand ==
    /\ \A i \in DOMAIN held : held[i].status # "open" => held'[i] = held[i]
    /\ \A p \in push : Book(p) => \A i \in DOMAIN held' :
            held'[i].action = "create" /\ held'[i].order = p.order => held'[i].status # "open"
=============================================================================
