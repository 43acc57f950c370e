------------------------------ MODULE RouteList ------------------------------
(***************************************************************************)
(* The catalogue's routes and programme families: Love Kingdom's idempotent *)
(* create, edits that may move a route to another pier, the drag that      *)
(* orders one pier's routes inside the whole list, and deletes, refused    *)
(* while anything refers to what goes.                                     *)
(***************************************************************************)
EXTENDS Integers, FiniteSets, FiniteSetsExt, SequencesExt

CONSTANTS RouteIds, FamilyIds,
          RoutePiers,  \* the piers, and NoPlace for the routes with none
          ExtIds,      \* Love Kingdom's codes
          Referrers,   \* what may refer to a route: bookings, deployments, locks, rates, vans...
          NoPlace,     \* no pier, family, code or route
          MaxEditsOfList

ASSUME RouteListAssumption == NoPlace \notin ExtIds \cup FamilyIds /\ MaxEditsOfList \in Nat

VARIABLES routes,    \* routes: [pier, family, ext, sort], or none
          families,  \* route_families
          refers,    \* the route each referrer names, with whether it is live
          listEdits  \* history: requests so far

listVars == <<routes, families, refers, listEdits>>

PlacesHere == {r \in RouteIds : routes[r] # NoPlace}
\* listRoutes: in the order of sort.
Rank(r) == Cardinality({q \in PlacesHere : routes[q].sort < routes[r].sort})
Listed == [i \in 1..Cardinality(PlacesHere) |-> CHOOSE r \in PlacesHere : Rank(r) = i - 1]
AtPier(p) == {r \in PlacesHere : routes[r].pier = p}

-----------------------------------------------------------------------------
(* Routes                                                                    *)

\* Mutant: a new route takes the place after as many as there are.
PlaceByCount == Cardinality(PlacesHere)
\* newRoute: the place after the last one in use.
NextPlaceOf == Max({routes[r].sort : r \in PlacesHere} \cup {-1}) + 1

FamilyKnown(f) == f = NoPlace \/ f \in families
HasExt(x, but) == x # NoPlace /\ \E r \in PlacesHere \ {but} : routes[r].ext = x

\* POST /v1/routes: a code already here answers with its route and changes nothing.
CreateRoute(r, pier, family, ext) ==
    /\ r \notin PlacesHere /\ ~HasExt(ext, NoPlace) /\ FamilyKnown(family)
    /\ routes' = [routes EXCEPT ![r] = [pier |-> pier, family |-> family, ext |-> ext, sort |-> NextPlaceOf]]
    /\ UNCHANGED <<families, refers>>

\* Mutant: a code is looked for on the pier the route moves to.
ExtTakenAtPier(r, pier, ext) == ext # NoPlace /\ \E q \in AtPier(pier) \ {r} : routes[q].ext = ext
\* Another route has the code: ext_id_taken.
ExtTaken(r, pier, ext) == HasExt(ext, r)
\* PATCH /v1/routes/{id}: its place in the list is not among what it changes.
EditRoute(r, pier, family, ext) ==
    /\ r \in PlacesHere /\ ~ExtTaken(r, pier, ext) /\ FamilyKnown(family)
    /\ routes' = [routes EXCEPT ![r] = [@ EXCEPT !.pier = pier, !.family = family, !.ext = ext]]
    /\ UNCHANGED <<families, refers>>

\* Mutant: only live bookings, deployments and the like keep a route.
UsageLive(r) == {k \in Referrers : refers[k] = [route |-> r, live |-> TRUE]}
\* routeUsage: whatever names the route, the cancelled ones too.
RouteUsage(r) == {k \in Referrers : IF refers[k] = NoPlace THEN FALSE ELSE refers[k].route = r}
DeleteRoute(r) ==
    /\ r \in PlacesHere /\ RouteUsage(r) = {}
    /\ routes' = [routes EXCEPT ![r] = NoPlace]
    /\ UNCHANGED <<families, refers>>

\* Mutant: the dragged routes take the first places of the list.
DraggedFirst(order, p) == order \o SelectSeq(Listed, LAMBDA r : routes[r].pier # p)
(* routeOrder: the routes of one pier, in their new order, take the places *)
(* that pier's routes have in the list.                                    *)
Dragged(order, p) ==
    LET before(i) == Cardinality({j \in 1..i : routes[Listed[j]].pier = p})
    IN  [i \in 1..Len(Listed) |-> IF routes[Listed[i]].pier = p THEN order[before(i)] ELSE Listed[i]]
\* POST /v1/routes/order names every route of the pier once; the whole list is renumbered.
OrderRoutes(p, order) ==
    LET list == Dragged(order, p)
    IN  /\ AtPier(p) # {}
        /\ routes' = [r \in RouteIds |-> IF r \in PlacesHere THEN [routes[r] EXCEPT !.sort = (CHOOSE i \in 1..Len(list) : list[i] = r) - 1]
                                                      ELSE NoPlace]
        /\ UNCHANGED <<families, refers>>

-----------------------------------------------------------------------------
(* Families, and what refers to routes                                       *)

AddFamily(f) == f \notin families /\ families' = families \cup {f} /\ UNCHANGED <<routes, refers>>
\* assertFamilyUnused
DeleteFamily(f) ==
    /\ f \in families /\ \A r \in PlacesHere : routes[r].family # f
    /\ families' = families \ {f} /\ UNCHANGED <<routes, refers>>

(* What names a route: a row that comes to (a boat put on it, a booking, a *)
(* lock, a rate...), one that is cancelled and kept, and one taken away.   *)
Refer(k, r) == refers[k] = NoPlace /\ r \in PlacesHere /\ refers' = [refers EXCEPT ![k] = [route |-> r, live |-> TRUE]]
               /\ UNCHANGED <<routes, families>>
Lapse(k) == /\ refers[k] # NoPlace
            /\ refers[k].live /\ refers' = [refers EXCEPT ![k].live = FALSE] /\ UNCHANGED <<routes, families>>
Forget(k) == refers[k] # NoPlace /\ refers' = [refers EXCEPT ![k] = NoPlace] /\ UNCHANGED <<routes, families>>

-----------------------------------------------------------------------------

ListInit ==
    /\ routes = [r \in RouteIds |-> NoPlace] /\ families = FamilyIds
    /\ refers = [k \in Referrers |-> NoPlace] /\ listEdits = 0
RouteStep ==
    \/ \E r \in RouteIds, pier \in RoutePiers, family \in FamilyIds \cup {NoPlace}, ext \in ExtIds \cup {NoPlace} :
          CreateRoute(r, pier, family, ext) \/ EditRoute(r, pier, family, ext)
    \/ \E r \in RouteIds : DeleteRoute(r)
    \/ \E p \in RoutePiers : \E order \in SetToSeqs(AtPier(p)) : OrderRoutes(p, order)
FamilyStep ==
    \/ \E f \in FamilyIds : AddFamily(f) \/ DeleteFamily(f)
    \/ \E k \in Referrers : Lapse(k) \/ Forget(k) \/ \E r \in RouteIds : Refer(k, r)
ListNext == listEdits < MaxEditsOfList /\ listEdits' = listEdits + 1 /\ (RouteStep \/ FamilyStep)
ListSpec == ListInit /\ [][ListNext]_listVars

-----------------------------------------------------------------------------

\* Routes, families and references keep their types.
ListTypeOK ==
    /\ \A r \in PlacesHere : routes[r] \in [pier : RoutePiers, family : FamilyIds \cup {NoPlace},
                                      ext : ExtIds \cup {NoPlace}, sort : Nat]
    /\ families \subseteq FamilyIds
    /\ \A k \in Referrers : refers[k] # NoPlace => refers[k] \in [route : RouteIds, live : BOOLEAN]

\* No two routes share a place in the list or a Love Kingdom code, however they were made, moved and ordered.
PlacesAndCodesAreTheirs ==
    \A q, r \in PlacesHere : q # r =>
        routes[q].sort # routes[r].sort /\ (routes[q].ext = NoPlace \/ routes[q].ext # routes[r].ext)

\* What names a route or a family names one that is there, live or not.
NamesSomething ==
    /\ \A k \in Referrers : refers[k] # NoPlace => refers[k].route \in PlacesHere
    /\ \A r \in PlacesHere : FamilyKnown(routes[r].family)

RoutesKept == PlacesAndCodesAreTheirs /\ NamesSomething

(* A drag orders one pier (routeOrder: they take the group's places in the *)
(* list): every route of the other piers stays as many routes down it.     *)
DragKeepsOthers ==
    (\A r \in RouteIds : IF r \in PlacesHere THEN r \in PlacesHere' /\ routes'[r].pier = routes[r].pier ELSE r \notin PlacesHere')
       => \E p \in RoutePiers : \A r \in PlacesHere : Rank(r)' = Rank(r) \/ routes[r].pier = p
=============================================================================
