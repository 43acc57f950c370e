------------------------------ MODULE FleetStock ------------------------------
(***************************************************************************)
(* The fleet's spare parts: what each warehouse holds of each item, the    *)
(* memos that buy more, the draws for a boat and the parts taken for a     *)
(* maintenance job.                                                        *)
(*                                                                         *)
(* Movements are only ever appended, and a quantity is their sum; the      *)
(* sums are kept here, the ones by memo apart. A memo has one line, at a   *)
(* price of one. Part numbers, renamed items, dates and the memo's paper   *)
(* trail are left out; jobs are another component's, which closes and      *)
(* deletes them.                                                           *)
(***************************************************************************)
EXTENDS Integers, FiniteSets, FiniteSetsExt, Bags, Functions, TLC

CONSTANTS
    Items, Warehouses, Memos, Jobs, Draws,
    NameOf,         \* [Items -> names]
    Held,           \* what the live items hold at first: [a subset of Items -> [Warehouses -> Nat]]
    Quantities,     \* the quantities requests name
    MemoQuantities, \* the quantities memos ask for and their receipts bring
    Overrides,      \* whether allow_negative or late_anyway is sent
    None,
    MaxRequests     \* bound: the requests of a history

ASSUME StockAssumption ==
    /\ DOMAIN Held \subseteq Items /\ None \notin Items
    /\ Quantities \cup MemoQuantities \subseteq Nat \ {0} /\ Overrides \subseteq BOOLEAN

Names == {NameOf[i] : i \in Items}
Cells == Items \X Warehouses
\* There is none yet, it is live, it was deleted, or it was merged into another.
Existence == {"none", "live", "deleted"} \cup Items
MemoTypes == {"parts", "labor"}
MemoStatuses == {"pending_approval", "approved", "ordered", "received", "paid", "cancelled"}
MemoRows == [status : MemoStatuses, type : MemoTypes, name : Names, item : Items \cup {None}, qty : Nat,
             received : Nat, amount : Nat, short : BOOLEAN]
Consumables == [cell : Cells, qty : Nat, voided : BOOLEAN]

VARIABLES
    item,       \* [Items -> Existence]
    held,       \* [Cells -> Int]: the sum of an item's movements in a warehouse
    memo,       \* the memos made
    brought,    \* a bag of <<memo, item, warehouse>>: the sums of the memos' movements
    draw,       \* the consumables drawn
    job,        \* [Jobs -> "open" or "done" or "deleted"]
    parts,      \* a bag of <<job, late, item, warehouse>>: the jobs' parts, by whether they came late
    counted,    \* history: [Warehouses -> Int], what came and went other than by memo, draw and job
    overdrawn,  \* history: the warehouses someone agreed to draw below zero
    requests    \* bound: the requests made, a memo's and a job's own steps apart

books == <<memo, brought, draw, job, parts>>
stock == <<item, held, books, counted, overdrawn>>
vars == <<stock, requests>>

-----------------------------------------------------------------------------
(* Items and quantities                                                    *)

Live == {i \in Items : item[i] = "live"}
Known == {i \in Items : item[i] # "none"}
Unborn == Items \ Known
Alike(name) == {i \in Live : NameOf[i] = name}

\* pickByName: the one live item of that name, or none.
PickByName(name) == IF Cardinality(Alike(name)) = 1 THEN CHOOSE i \in Alike(name) : TRUE ELSE None

(* planReceive of a memo: the item a merge left the link pointing at.      *)
RECURSIVE MergedInto(_)
MergedInto(i) == IF item[i] \in Items THEN MergedInto(item[i]) ELSE i

\* Mutant: enough in the item's warehouses together.
EnoughAnywhere(i, w, q) == SumFunction([v \in Warehouses |-> held[<<i, v>>]]) >= q
Enough(i, w, q) == held[<<i, w>>] >= q

Agree(w, under, anyway) ==
    /\ under => anyway
    /\ overdrawn' = IF under THEN overdrawn \cup {w} ELSE overdrawn

Put(c, q) == [held EXCEPT ![c] = @ + q]
Count(c, q) == held' = Put(c, q) /\ counted' = [counted EXCEPT ![c[2]] = @ + q]

\* POST /v1/fleet/stock-items: a name is used once.
CreateItem(i, w, q) ==
    /\ i \in Unborn /\ Alike(NameOf[i]) = {}
    /\ item' = [item EXCEPT ![i] = "live"]
    /\ Count(<<i, w>>, q)
    /\ UNCHANGED <<books, overdrawn>>

\* POST /v1/fleet/stock-items/{id}/receive
Receive(i, w, q) == i \in Live /\ Count(<<i, w>>, q) /\ UNCHANGED <<item, books, overdrawn>>

\* POST /v1/fleet/stock-items/{id}/adjust: what was counted; the movement is the difference.
Adjust(i, w, q) ==
    /\ i \in Live /\ q # held[<<i, w>>]
    /\ Count(<<i, w>>, q - held[<<i, w>>])
    /\ UNCHANGED <<item, books, overdrawn>>

\* POST /v1/fleet/stock-items/{id}/transfer
Transfer(i, from, to, q) ==
    /\ i \in Live /\ from # to /\ Enough(i, from, q)
    /\ held' = [held EXCEPT ![<<i, from>>] = @ - q, ![<<i, to>>] = @ + q]
    /\ counted' = [counted EXCEPT ![from] = @ - q, ![to] = @ + q]
    /\ UNCHANGED <<item, books, overdrawn>>

\* What the kept item takes over from the ones merged into it.
\* Mutant: what a dropped item was drawn below zero stays behind.
FoldedAboveZero(drops, w) == MapThenSumSet(LAMBDA d : held[<<d, w>>], {d \in drops : held[<<d, w>>] > 0})
Folded(drops, w) == MapThenSumSet(LAMBDA d : held[<<d, w>>], drops)
MergedStock(keep, drops) ==
    [c \in Cells |-> CASE c[1] \in drops -> 0
                       [] c[1] = keep -> held[c] + Folded(drops, c[2])
                       [] OTHER -> held[c]]

(* POST /v1/fleet/stock-items/{id}/merge: duplicates folded into one; the  *)
(* memo lines naming them name it.                                         *)
Merge(keep, drops) ==
    /\ keep \in Live /\ drops # {} /\ drops \subseteq Alike(NameOf[keep]) \ {keep}
    /\ item' = [i \in Items |-> IF i \in drops THEN keep ELSE item[i]]
    /\ held' = MergedStock(keep, drops)
    /\ memo' = [m \in DOMAIN memo |-> [memo[m] EXCEPT !.item = IF @ \in drops THEN keep ELSE @]]
    /\ UNCHANGED <<brought, draw, job, parts, counted, overdrawn>>

\* DELETE /v1/fleet/stock-items/{id}: not while it holds stock.
DeleteItem(i) ==
    /\ i \in Live /\ \A w \in Warehouses : held[<<i, w>>] = 0
    /\ item' = [item EXCEPT ![i] = "deleted"]
    /\ UNCHANGED <<held, books, counted, overdrawn>>

-----------------------------------------------------------------------------
(* Draws for a boat, and a job's parts                                     *)

\* POST /v1/fleet/consumables: below zero only when told to.
Draw(d, i, w, q, anyway) ==
    /\ d \notin DOMAIN draw /\ i \in Live
    /\ Agree(w, ~Enough(i, w, q), anyway)
    /\ draw' = (d :> [cell |-> <<i, w>>, qty |-> q, voided |-> FALSE]) @@ draw
    /\ held' = Put(<<i, w>>, -q)
    /\ UNCHANGED <<item, memo, brought, job, parts, counted>>

\* DELETE /v1/fleet/consumables/{id}: the stock goes back, once.
VoidDraw(d) ==
    /\ ~draw[d].voided
    /\ draw' = [draw EXCEPT ![d].voided = TRUE]
    /\ held' = Put(draw[d].cell, draw[d].qty)
    /\ UNCHANGED <<item, memo, brought, job, parts, counted, overdrawn>>

\* POST /v1/fleet/jobs/{id}/parts: from any item that holds it; on a closed job only when told to.
AddPart(j, i, w, q, anyway) ==
    LET late == job[j] = "done"
    IN  /\ job[j] # "deleted" /\ i \in Known /\ (late => anyway) /\ Enough(i, w, q)
        /\ parts' = parts (+) (<<j, late, i, w>> :> q)
        /\ held' = Put(<<i, w>>, -q)
        /\ UNCHANGED <<item, memo, brought, draw, job, counted, overdrawn>>

Without(rows, ks) == Restrict(rows, DOMAIN rows \ ks)
\* Mutant: the row is looked for by whether the job is closed now.
RowNow(k) == <<k[1], job[k[1]] = "done", k[3], k[4]>>
RowOf(k) == k
(* DELETE /v1/fleet/jobs/{id}/parts/{idx}: the whole row goes back where   *)
(* it came from, whatever became of the item.                              *)
RemovePart(k, anyway) ==
    /\ job[k[1]] = "done" => anyway
    /\ parts' = Without(parts, {RowOf(k)})
    /\ held' = Put(<<k[3], k[4]>>, parts[k])
    /\ UNCHANGED <<item, memo, brought, draw, job, counted, overdrawn>>

\* A job closes for good.
JobDone(j) ==
    /\ job[j] = "open" /\ job' = [job EXCEPT ![j] = "done"]
    /\ UNCHANGED <<item, held, memo, brought, draw, parts, counted, overdrawn>>

\* DELETE /v1/fleet/jobs/{id}: its parts go with it, used up.
JobDeleted(j) ==
    LET gone == {k \in DOMAIN parts : k[1] = j}
        used(w) == MapThenSumSet(LAMBDA k : parts[k], {k \in gone : k[4] = w})
    IN  /\ job[j] = "open" /\ job' = [job EXCEPT ![j] = "deleted"]
        /\ parts' = Without(parts, gone)
        /\ counted' = [w \in Warehouses |-> counted[w] - used(w)]
        /\ UNCHANGED <<item, held, memo, brought, draw, overdrawn>>

-----------------------------------------------------------------------------
(* Memos                                                                   *)

IsPart(m) == memo[m].type = "parts"
Left(m) == IF memo[m].qty > memo[m].received THEN memo[m].qty - memo[m].received ELSE 0
PutMemo(m, row) == memo' = (m :> row) @@ memo

(* The item a line names, or is given: the one of that name, or a new one. *)
(* A line left without one stays so until its goods come.                  *)
LinkOf(name) == IF PickByName(name) # None THEN {PickByName(name)} ELSE {i \in Unborn : NameOf[i] = name}
Born(i) == item' = IF i \in Unborn THEN [item EXCEPT ![i] = "live"] ELSE item

\* POST /v1/fleet/memos: a parts line with no item is given one, unless told not to.
CreateMemo(m, type, name, q, link) ==
    /\ m \notin DOMAIN memo
    /\ \/ link = None
       \/ link \in LinkOf(name) /\ type = "parts"
       \/ link \in Known
    /\ Born(link)
    /\ PutMemo(m, [status |-> "pending_approval", type |-> type, name |-> name, item |-> link, qty |-> q, received |-> 0,
                   amount |-> q, short |-> FALSE])
    /\ UNCHANGED <<held, brought, draw, job, parts, counted, overdrawn>>

(* PATCH /v1/fleet/memos/{id}: not once paid. The line is kept, under      *)
(* whatever name and item are sent, and what came of it stays on it; only  *)
(* a line nothing came of can be taken off for a new one. The total is     *)
(* worked out anew from what is asked for.                                 *)
\* Mutant: an edit of a paid memo.
EditableWhenPaid(m) == TRUE
Editable(m) == memo[m].status # "paid"
\* Mutant: the line is written anew.
ReceivedForgotten(m) == 0
ReceivedKept(m) == memo[m].received
PatchMemo(m, type, name, q, link) ==
    /\ Editable(m)
    /\ link = None \/ link \in Known
    /\ PutMemo(m, [memo[m] EXCEPT !.type = type, !.name = name, !.qty = q, !.item = link, !.amount = q,
                                  !.received = ReceivedKept(m)])
    /\ UNCHANGED <<item, held, brought, draw, job, parts, counted, overdrawn>>

\* POST .../approve, .../order: labor is not ordered.
Approve(m) ==
    /\ memo[m].status = "pending_approval"
    /\ PutMemo(m, [memo[m] EXCEPT !.status = "approved"])
    /\ UNCHANGED <<item, held, brought, draw, job, parts, counted, overdrawn>>
Order(m) ==
    /\ memo[m].status = "approved" /\ IsPart(m)
    /\ PutMemo(m, [memo[m] EXCEPT !.status = "ordered"])
    /\ UNCHANGED <<item, held, brought, draw, job, parts, counted, overdrawn>>

(* POST .../receive: what came of the line goes into one warehouse: its    *)
(* item, deleted or not, when it has the line's name, else the one live    *)
(* item of that name, else a new one.                                      *)
\* Mutant: the item linked, whatever its name.
TargetAsLinked(m) == IF memo[m].item # None THEN {MergedInto(memo[m].item)} ELSE LinkOf(memo[m].name)
TargetOf(m) ==
    LET linked == {MergedInto(i) : i \in {memo[m].item} \ {None}}
    IN  IF \E i \in linked : NameOf[i] = memo[m].name THEN linked ELSE LinkOf(memo[m].name)
\* Mutant: a line knows its last round only.
LastRound(m, q) == q
ReceivedWith(m, q) == memo[m].received + q
ReceiveGoods(m, w, q) ==
    \E i \in TargetOf(m) :
        /\ memo[m].status = "ordered" /\ IsPart(m)
        /\ Born(i)
        /\ held' = Put(<<i, w>>, q)
        /\ brought' = brought (+) (<<m, i, w>> :> q)
        /\ PutMemo(m, [memo[m] EXCEPT !.item = i, !.received = ReceivedWith(m, q),
                                      !.status = IF q >= Left(m) THEN "received" ELSE "ordered"])
        /\ UNCHANGED <<draw, job, parts, counted, overdrawn>>
\* A memo with no parts line has nothing to come.
ReceiveNothing(m) ==
    /\ memo[m].status = "ordered" /\ ~IsPart(m)
    /\ PutMemo(m, [memo[m] EXCEPT !.status = "received"])
    /\ UNCHANGED <<item, held, brought, draw, job, parts, counted, overdrawn>>

\* POST .../short-close: what came is all that comes, and all that is paid.
ShortClose(m) ==
    /\ memo[m].status = "ordered" /\ IsPart(m) /\ Left(m) > 0 /\ memo[m].received > 0 /\ ~memo[m].short
    /\ PutMemo(m, [memo[m] EXCEPT !.status = "received", !.short = TRUE, !.amount = memo[m].received])
    /\ UNCHANGED <<item, held, brought, draw, job, parts, counted, overdrawn>>

\* POST .../pay: labor from approved, parts once received.
Pay(m) ==
    /\ memo[m].status = IF IsPart(m) THEN "received" ELSE "approved"
    /\ PutMemo(m, [memo[m] EXCEPT !.status = "paid"])
    /\ UNCHANGED <<item, held, brought, draw, job, parts, counted, overdrawn>>

BroughtBy(m) == {x \in DOMAIN brought : x[1] = m}
Brought(m, c) == CopiesIn(<<m, c[1], c[2]>>, brought)
(* POST .../cancel: what the memo brought goes out of where it was put.    *)
\* Mutant: only what went to the item the line names now.
ReversedAsLinked(m) == [c \in Cells |-> IF c[1] = memo[m].item THEN Brought(m, c) ELSE 0]
Reversed(m) == [c \in Cells |-> Brought(m, c)]
CancelMemo(m, anyway) ==
    LET back == Reversed(m)
        under == {c \in Cells : back[c] > 0 /\ ~Enough(c[1], c[2], back[c])}
    IN  /\ memo[m].status \notin {"paid", "cancelled"}
        /\ under # {} => anyway
        /\ overdrawn' = overdrawn \cup {c[2] : c \in under}
        /\ held' = [c \in Cells |-> held[c] - back[c]]
        /\ brought' = Without(brought, BroughtBy(m))
        /\ PutMemo(m, [memo[m] EXCEPT !.status = "cancelled"])
        /\ UNCHANGED <<item, draw, job, parts, counted>>

-----------------------------------------------------------------------------
Init ==
    /\ item = [i \in Items |-> IF i \in DOMAIN Held THEN "live" ELSE "none"]
    /\ held = [c \in Cells |-> IF c[1] \in DOMAIN Held THEN Held[c[1]][c[2]] ELSE 0]
    /\ counted = [w \in Warehouses |-> MapThenSumSet(LAMBDA i : Held[i][w], DOMAIN Held)]
    /\ memo = <<>> /\ brought = EmptyBag
    /\ draw = <<>>
    /\ job = [j \in Jobs |-> "open"] /\ parts = EmptyBag
    /\ overdrawn = {} /\ requests = 0

\* A memo's and a job's own steps, each made once, and a memo's rounds until what it asks for has come.
Step ==
    \/ \E m \in Memos, type \in MemoTypes, name \in Names, q \in MemoQuantities, link \in Items \cup {None} :
         CreateMemo(m, type, name, q, link)
    \/ \E m \in DOMAIN memo :
         \/ Approve(m) \/ Order(m) \/ ReceiveNothing(m) \/ ShortClose(m) \/ Pay(m)
         \/ \E w \in Warehouses, q \in MemoQuantities : ReceiveGoods(m, w, q)
         \/ \E anyway \in Overrides : CancelMemo(m, anyway)
    \/ \E j \in Jobs : JobDone(j) \/ JobDeleted(j)

Request ==
    \/ \E i \in Items :
         \/ \E w \in Warehouses, q \in Quantities \cup {0} : CreateItem(i, w, q) \/ Adjust(i, w, q)
         \/ \E w \in Warehouses, q \in Quantities : Receive(i, w, q) \/ \E to \in Warehouses : Transfer(i, w, to, q)
         \/ \E drops \in SUBSET Items : Merge(i, drops)
         \/ DeleteItem(i)
         \/ \E w \in Warehouses, q \in Quantities, anyway \in Overrides :
              \/ \E d \in Draws : Draw(d, i, w, q, anyway)
              \/ \E j \in Jobs : AddPart(j, i, w, q, anyway)
    \/ \E d \in DOMAIN draw : VoidDraw(d)
    \/ \E k \in DOMAIN parts, anyway \in Overrides : RemovePart(k, anyway)
    \/ \E m \in DOMAIN memo, type \in MemoTypes, name \in Names, q \in MemoQuantities, link \in Items \cup {None} :
         PatchMemo(m, type, name, q, link)

Next ==
    \/ Step /\ UNCHANGED requests
    \/ requests < MaxRequests /\ requests' = requests + 1 /\ Request
Spec == Init /\ [][Next]_vars

-----------------------------------------------------------------------------
(* Properties                                                              *)

\* Every variable keeps its type.
TypeOK ==
    /\ item \in [Items -> Existence]
    /\ DOMAIN held = Cells /\ \A c \in Cells : held[c] \in Int
    /\ DOMAIN memo \subseteq Memos /\ \A m \in DOMAIN memo : memo[m] \in MemoRows
    /\ IsABag(brought) /\ DOMAIN brought \subseteq Memos \X Items \X Warehouses
    /\ DOMAIN draw \subseteq Draws /\ \A d \in DOMAIN draw : draw[d] \in Consumables
    /\ job \in [Jobs -> {"open", "done", "deleted"}]
    /\ IsABag(parts) /\ DOMAIN parts \subseteq Jobs \X BOOLEAN \X Items \X Warehouses
    /\ counted \in [Warehouses -> Int] /\ overdrawn \subseteq Warehouses

(* The items of a warehouse hold together what was counted in and what     *)
(* the memos that stand brought, less what was drawn and the parts on the  *)
(* jobs: through merges, voids, cancels, late edits and items deleted,     *)
(* nothing goes back twice or is taken twice, and nothing is lost.         *)
StockAccountedFor ==
    \A w \in Warehouses :
        SumFunction([i \in Items |-> held[<<i, w>>]])
          + SumFunction([d \in DOMAIN draw |-> IF draw[d].voided \/ draw[d].cell[2] # w THEN 0 ELSE draw[d].qty])
          + MapThenSumSet(LAMBDA k : parts[k], {k \in DOMAIN parts : k[4] = w})
        = counted[w] + MapThenSumSet(LAMBDA x : brought[x], {x \in DOMAIN brought : x[3] = w})

(* An item below zero in a warehouse is there because someone agreed to    *)
(* draw that warehouse below zero: job parts, transfers and merges never   *)
(* do it.                                                                  *)
BelowZeroOnlyByConsent == \A c \in Cells : held[c] < 0 => c[2] \in overdrawn

(* What a memo's line says came is what the memo brought into stock, after *)
(* edits, partial rounds and merges, until it is cancelled.                *)
ReceivedIsInStock ==
    \A m \in DOMAIN memo : memo[m].status # "cancelled" => memo[m].received = MapThenSumSet(LAMBDA x : brought[x], BroughtBy(m))

(* A paid memo is settled: nothing more comes on it, and what it says was  *)
(* bought, received and paid stays.                                        *)
PaidStaysSettled ==
    \A m \in DOMAIN memo : memo[m].status = "paid" =>
       memo'[m] = [memo[m] EXCEPT !.item = memo'[m].item] /\ \A c \in Cells : Brought(m, c)' = Brought(m, c)

(* What comes on a memo goes to an item of the name its line has by then   *)
(* (planReceive, "a link to an item of another name is a collided id"),    *)
(* through edits between the rounds, merges and items deleted.             *)
ComesUnderItsName ==
    \A m \in DOMAIN memo, c \in Cells :
       Brought(m, c)' > Brought(m, c) => NameOf[c[1]] = memo[m].name
=============================================================================
