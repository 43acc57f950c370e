------------------------------ MODULE FleetGear -----------------------------
(***************************************************************************)
(* Engines, gearboxes and propellers: where each is fitted, and the        *)
(* commands, jobs and incidents that move them (fleet-assets.ts,           *)
(* fleet-jobs.ts, routes/fleet.ts).  An engine sits at a place of a boat, a *)
(* gearbox on an engine (or waits on the boat for one), a propeller on a   *)
(* gearbox.  All gearboxes are of one brand, all propellers of one size.   *)
(***************************************************************************)
EXTENDS Naturals, FiniteSets

CONSTANTS
    Engines, Gearboxes, Propellers,
    Places,         \* a position on a boat, [boat, pos]
    GearJobs,       \* job |-> its boat
    NoBoat, NoPos, Nowhere, NoEngine, NoGearbox,
    MaxGear         \* bound: requests of a history

VARIABLES
    engine,         \* engine |-> [boat, pos, status]; taken off, it keeps its last position
    gearbox,        \* gearbox |-> [on, wait, status, kept]
    propeller,      \* propeller |-> [on, status, kept]
    gearJob,        \* job |-> [status, assets]
    leftWaiting,    \* history: a job start has left a gearbox on its boat
    keptOnto,       \* history: a quick swap put propellers on a spare that had one already
    gears

gearVars == <<engine, gearbox, propeller, gearJob, leftWaiting, keptOnto, gears>>
histories == <<leftWaiting, keptOnto>>

Boats == {l.boat : l \in Places}
Stores == {"pier", "shop"} \cup Boats
Kept == Stores \cup {"none"}
Pickable == {"ready", "fixing", "broken", "spare"}
Assets == Engines \cup Gearboxes \cup Propellers

OnEngine(e) == {g \in Gearboxes : gearbox[g].on = e}
OnGearbox(g) == {p \in Propellers : propeller[p].on = g}
Ready(s) == IF s = "spare" THEN "ready" ELSE s

-----------------------------------------------------------------------------
(* The equipment bay's commands. *)

EngineStatus(e, s) ==
    /\ engine' = [engine EXCEPT ![e].status = s]
    /\ UNCHANGED <<gearbox, propeller, gearJob, histories>>
\* A spare gearbox or propeller leaves what it is on.
GearboxStatus(g, s) ==
    /\ gearbox' = [gearbox EXCEPT ![g].status = s, ![g].on = IF s = "spare" THEN NoEngine ELSE @]
    /\ UNCHANGED <<engine, propeller, gearJob, histories>>
PropellerStatus(p, s) ==
    /\ propeller' = [propeller EXCEPT ![p].status = s, ![p].on = IF s = "spare" THEN NoGearbox ELSE @]
    /\ UNCHANGED <<engine, gearbox, gearJob, histories>>

\* No check that the place is free: two engines may be put at one.
InstallEngine(e, l) ==
    /\ engine' = [engine EXCEPT ![e] = [boat |-> l.boat, pos |-> l.pos, status |-> Ready(@.status)]]
    /\ UNCHANGED <<gearbox, propeller, gearJob, histories>>

GearboxFitsAny(g, e) == engine[e].boat # NoBoat
GearboxFits(g, e) == engine[e].boat # NoBoat /\ OnEngine(e) \subseteq {g}
InstallGearbox(g, e) ==
    /\ GearboxFits(g, e)
    /\ gearbox' = [gearbox EXCEPT ![g] = [on |-> e, wait |-> Nowhere, status |-> Ready(@.status), kept |-> "none"]]
    /\ UNCHANGED <<engine, propeller, gearJob, histories>>

PropellerFitsAny(p, g) == gearbox[g].on # NoEngine
PropellerFits(p, g) == gearbox[g].on # NoEngine /\ OnGearbox(g) \subseteq {p}
InstallPropeller(p, g) ==
    /\ PropellerFits(p, g)
    /\ propeller' = [propeller EXCEPT ![p] =
            [on |-> g, status |-> IF @.status = "spare" THEN "active" ELSE @.status, kept |-> "none"]]
    /\ UNCHANGED <<engine, gearbox, gearJob, histories>>

RemoveEngine(e) ==
    /\ engine[e].boat # NoBoat
    /\ engine' = [engine EXCEPT ![e].boat = NoBoat]
    /\ UNCHANGED <<gearbox, propeller, gearJob, histories>>
RemoveGearbox(g, at) ==
    /\ (gearbox[g].on # NoEngine \/ gearbox[g].wait # Nowhere)
    /\ gearbox' = [gearbox EXCEPT ![g] = [on |-> NoEngine, wait |-> Nowhere, status |-> "spare", kept |-> at]]
    /\ UNCHANGED <<engine, propeller, gearJob, histories>>
RemovePropeller(p, at) ==
    /\ propeller[p].on # NoGearbox
    /\ propeller' = [propeller EXCEPT ![p].on = NoGearbox, ![p].kept = at]
    /\ UNCHANGED <<engine, gearbox, gearJob, histories>>

\* To a shop it is being repaired, anywhere else it is a spare; it is not taken off what it is on.
Stored(to) == IF to = "shop" THEN "fixing" ELSE "spare"
MoveGearbox(g, to) ==
    /\ to # gearbox[g].kept
    /\ gearbox' = [gearbox EXCEPT ![g].kept = to, ![g].status = Stored(to)]
    /\ UNCHANGED <<engine, propeller, gearJob, histories>>
MovePropeller(p, to) ==
    /\ to # propeller[p].kept
    /\ propeller' = [propeller EXCEPT ![p].kept = to, ![p].status = Stored(to)]
    /\ UNCHANGED <<engine, gearbox, gearJob, histories>>

SwapEngines(e, f) ==
    /\ e # f
    /\ LET At(x, y) == [engine[x] EXCEPT !.boat = engine[y].boat, !.pos = engine[y].pos]
       IN  engine' = [engine EXCEPT ![e] = At(e, f), ![f] = At(f, e)]
    /\ UNCHANGED <<gearbox, propeller, gearJob, histories>>
\* Which boat a gearbox waits on is not traded.
SwapGearboxes(g, h) ==
    /\ g # h
    /\ LET Traded(x, y) == [gearbox[x] EXCEPT !.on = gearbox[y].on,
                                !.status = IF gearbox[y].on = NoEngine THEN "spare" ELSE Ready(@)]
       IN  gearbox' = [gearbox EXCEPT ![g] = Traded(g, h), ![h] = Traded(h, g)]
    /\ UNCHANGED <<engine, propeller, gearJob, histories>>
SwapPropellers(p, q) ==
    /\ p # q
    /\ propeller' = [propeller EXCEPT ![p].on = propeller[q].on, ![q].on = propeller[p].on]
    /\ UNCHANGED <<engine, gearbox, gearJob, histories>>

-----------------------------------------------------------------------------
(* Jobs. *)

AddToJob(j, a) ==
    /\ gearJob[j].status # "done"
    /\ gearJob' = [gearJob EXCEPT ![j].assets = @ \cup {a}]
    /\ engine' = IF a \in Engines THEN [engine EXCEPT ![a].status = "fixing"] ELSE engine
    /\ gearbox' = IF a \in Gearboxes THEN [gearbox EXCEPT ![a].status = "fixing"] ELSE gearbox
    /\ propeller' = IF a \in Propellers THEN [propeller EXCEPT ![a].status = "fixing"] ELSE propeller
    /\ UNCHANGED histories
DropFromJob(j, a) ==
    /\ a \in gearJob[j].assets
    /\ gearJob' = [gearJob EXCEPT ![j].assets = @ \ {a}]
    /\ UNCHANGED <<engine, gearbox, propeller, histories>>

\* What the job's engines still carry.
MountedGearboxes(j) == {g \in Gearboxes : gearbox[g].on \in gearJob[j].assets /\ gearbox[g].status # "spare"}
MountedPropellers(j) == {p \in Propellers : propeller[p].on \in MountedGearboxes(j) /\ propeller[p].status # "spare"}
StashedGearbox(at) == [on |-> NoEngine, wait |-> Nowhere, status |-> "spare", kept |-> at]
StashedPropeller(at) == [on |-> NoGearbox, status |-> "spare", kept |-> at]

\* gear: kept on, stashed as spares, or left on the boat for the engine that replaces the one taken out.
Start(j, gear, at, fixing) ==
    LET out == gearJob[j].assets \cap Engines
        left == {g \in Gearboxes : gearbox[g].on \in out}
        Fixed(r, a) == IF fixing /\ a \in gearJob[j].assets THEN [r EXCEPT !.status = "fixing"] ELSE r
    IN  /\ gearJob[j].status = "pending"
        /\ gearJob' = [gearJob EXCEPT ![j].status = "inprogress"]
        /\ gearbox' = [g \in Gearboxes |-> Fixed(
                CASE gear = "stash" /\ g \in MountedGearboxes(j) -> StashedGearbox(at)
                  [] gear = "swap" /\ g \in left ->
                        [gearbox[g] EXCEPT !.on = NoEngine,
                                           !.wait = [boat |-> GearJobs[j], pos |-> engine[gearbox[g].on].pos]]
                  [] OTHER -> gearbox[g], g)]
        /\ propeller' = [p \in Propellers |-> Fixed(
                IF gear = "stash" /\ p \in MountedPropellers(j) THEN StashedPropeller(at) ELSE propeller[p], p)]
        /\ engine' = [e \in Engines |-> Fixed(
                IF gear = "swap" /\ e \in out THEN [engine[e] EXCEPT !.boat = NoBoat, !.status = "fixing"] ELSE engine[e], e)]
        /\ leftWaiting' = (leftWaiting \/ (gear = "swap" /\ left # {}))
        /\ UNCHANGED keptOnto

\* An engine into the place a job start emptied: its own gearbox stays behind, and what waits
\* at the place takes the engine.
FitWaiting(j, e, l) ==
    /\ GearJobs[j] = l.boat
    /\ engine' = [engine EXCEPT ![e] = [boat |-> l.boat, pos |-> l.pos, status |-> Ready(@.status)]]
    /\ LET from == IF engine[e].boat = NoBoat THEN Nowhere ELSE [boat |-> engine[e].boat, pos |-> engine[e].pos]
           Behind(g) == [g EXCEPT !.on = NoEngine, !.wait = from, !.status = IF from = Nowhere THEN "spare" ELSE @]
           shed == [g \in Gearboxes |-> IF gearbox[g].on = e THEN Behind(gearbox[g]) ELSE gearbox[g]]
       IN  gearbox' = [g \in Gearboxes |->
               IF shed[g].wait = l /\ shed[g].on = NoEngine
               THEN [shed[g] EXCEPT !.on = e, !.wait = Nowhere, !.status = Ready(@)] ELSE shed[g]]
    /\ leftWaiting' = (leftWaiting \/ (OnEngine(e) # {} /\ engine[e].boat # NoBoat))
    /\ UNCHANGED <<propeller, gearJob, keptOnto>>

\* What closing with an outcome leaves each part as; a cancelled job puts back what it marked fixing.
Outcome == [success |-> "ready", limited |-> "limited", rework |-> "fixing", decommission |-> "broken"]
Closed(a, r, o, ready) ==
    IF o = "cancelled" THEN (IF r.status = "fixing" THEN [r EXCEPT !.status = ready] ELSE r)
    ELSE [r EXCEPT !.status = IF o = "success" THEN ready ELSE Outcome[o]]
CloseGearJob(j, o) ==
    LET on == gearJob[j].assets
        scrapped == IF o = "decommission" THEN {g \in Gearboxes : gearbox[g].on \in on \cap Engines} ELSE {}
        freed == [g \in Gearboxes |-> IF g \in scrapped THEN [gearbox[g] EXCEPT !.on = NoEngine] ELSE gearbox[g]]
    IN  /\ gearJob[j].status # "done"
        /\ gearJob' = [gearJob EXCEPT ![j].status = "done"]
        /\ engine' = [e \in Engines |-> IF e \in on THEN Closed(e, engine[e], o, "ready") ELSE engine[e]]
        /\ gearbox' = [g \in Gearboxes |-> IF g \in on THEN Closed(g, freed[g], o, "ready") ELSE freed[g]]
        /\ propeller' = [p \in Propellers |-> IF p \in on THEN Closed(p, propeller[p], o, "active") ELSE propeller[p]]
        /\ UNCHANGED histories

-----------------------------------------------------------------------------
(* The quick swap of an incident on boat b: a spare in for a damaged part, which goes to the shop. *)

Here(r, b) == r.kept \in {"pier", b}

\* What a swapped gearbox's propellers do: move to the spare, to a store, or to the shop with it.
Cascade(g, s, choice) ==
    [p \in Propellers |->
        IF p \notin OnGearbox(g) THEN propeller[p]
        ELSE CASE choice[p] = "keep" -> [propeller[p] EXCEPT !.on = s]
               [] choice[p] = "stock" -> StashedPropeller("pier")
               [] OTHER -> [on |-> NoGearbox, status |-> "fixing", kept |-> "shop"]]
SwapGearbox(b, g, s, choice) ==
    /\ g # s /\ Here(gearbox[s], b)
    /\ gearbox' = [gearbox EXCEPT
            ![s] = [@ EXCEPT !.on = gearbox[g].on, !.status = "ready", !.kept = "none"],
            ![g] = [@ EXCEPT !.on = NoEngine, !.status = "fixing", !.kept = "shop"]]
    /\ propeller' = Cascade(g, s, choice)
    /\ keptOnto' = (keptOnto \/ (OnGearbox(s) # {} /\ \E p \in OnGearbox(g) : choice[p] = "keep"))
    /\ UNCHANGED <<engine, gearJob, leftWaiting>>
SwapPropeller(b, p, s) ==
    /\ p # s /\ Here(propeller[s], b)
    /\ propeller' = [propeller EXCEPT
            ![s] = [on |-> propeller[p].on, status |-> "active", kept |-> "none"],
            ![p] = [on |-> NoGearbox, status |-> "damaged", kept |-> "shop"]]
    /\ UNCHANGED <<engine, gearbox, gearJob, histories>>

-----------------------------------------------------------------------------

\* New parts as the forms make them: an engine on a boat or loose, a part on its parent, which has no other.
GearInit ==
    /\ \E at \in [Engines -> Places \cup {Nowhere}] : engine = [e \in Engines |->
            IF at[e] = Nowhere THEN [boat |-> NoBoat, pos |-> NoPos, status |-> "ready"]
            ELSE [boat |-> at[e].boat, pos |-> at[e].pos, status |-> "ready"]]
    /\ gearbox \in [Gearboxes -> [on: Engines \cup {NoEngine}, wait: {Nowhere}, status: {"ready"}, kept: {"none"}]]
    /\ propeller = [p \in Propellers |-> [on |-> NoGearbox, status |-> "active", kept |-> "none"]]
    /\ \A g \in Gearboxes : gearbox[g].on # NoEngine =>
            engine[gearbox[g].on].boat # NoBoat /\ OnEngine(gearbox[g].on) = {g}
    /\ gearJob = [j \in DOMAIN GearJobs |-> [status |-> "pending", assets |-> {}]]
    /\ leftWaiting = FALSE /\ keptOnto = FALSE
    /\ gears = 0

BayStep ==
    \/ \E e \in Engines : \/ \E s \in Pickable : EngineStatus(e, s)
                          \/ \E l \in Places : InstallEngine(e, l)
                          \/ \E f \in Engines : SwapEngines(e, f)
                          \/ RemoveEngine(e)
    \/ \E g \in Gearboxes : \/ \E s \in Pickable : GearboxStatus(g, s)
                            \/ \E e \in Engines : InstallGearbox(g, e)
                            \/ \E h \in Gearboxes : SwapGearboxes(g, h)
                            \/ \E at \in Stores : RemoveGearbox(g, at) \/ MoveGearbox(g, at)
    \/ \E p \in Propellers : \/ \E s \in (Pickable \ {"ready"}) \cup {"active"} : PropellerStatus(p, s)
                             \/ \E g \in Gearboxes : InstallPropeller(p, g)
                             \/ \E q \in Propellers : SwapPropellers(p, q)
                             \/ \E at \in Stores : RemovePropeller(p, at) \/ MovePropeller(p, at)
RepairStep ==
    \/ \E j \in DOMAIN GearJobs :
        \/ \E a \in Assets : AddToJob(j, a) \/ DropFromJob(j, a)
        \/ \E gear \in {"keep", "stash", "swap"}, fixing \in BOOLEAN : Start(j, gear, "pier", fixing)
        \/ \E e \in Engines, l \in Places : FitWaiting(j, e, l)
        \/ \E o \in DOMAIN Outcome \cup {"cancelled"} : CloseGearJob(j, o)
    \/ \E b \in Boats : \/ \E g, s \in Gearboxes, c \in [Propellers -> {"keep", "stock", "repair"}] : SwapGearbox(b, g, s, c)
                        \/ \E p, s \in Propellers : SwapPropeller(b, p, s)

GearNext == gears < MaxGear /\ gears' = gears + 1 /\ (BayStep \/ RepairStep)
GearSpec == GearInit /\ [][GearNext]_gearVars

-----------------------------------------------------------------------------

\* The rows the tables hold.
Positions == {l.pos : l \in Places} \cup {NoPos}
EngineRows == [boat: Boats \cup {NoBoat}, pos: Positions, status: Pickable \cup {"limited"}]
GearboxRows == [on: Engines \cup {NoEngine}, wait: [boat: Boats, pos: Positions] \cup {Nowhere},
                status: Pickable \cup {"limited"}, kept: Kept]
PropellerRows == [on: Gearboxes \cup {NoGearbox}, kept: Kept,
                  status: {"active", "fixing", "broken", "spare", "damaged", "limited"}]

\* Every row has its type.
GearTypeOK ==
    /\ engine \in [Engines -> EngineRows]
    /\ gearbox \in [Gearboxes -> GearboxRows] /\ propeller \in [Propellers -> PropellerRows]

\* An engine carries one gearbox and a gearbox one propeller, however they are installed, traded, swapped
\* and repaired; the two ways past it are the gearboxes left waiting on a boat, which all take the next
\* engine put there, and a quick swap that keeps the propellers on a spare that has one.
OnePerParent ==
    /\ leftWaiting \/ \A e \in Engines : Cardinality(OnEngine(e)) <= 1
    /\ keptOnto \/ \A g \in Gearboxes : Cardinality(OnGearbox(g)) <= 1
=============================================================================
