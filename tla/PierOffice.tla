----------------------------- MODULE PierOffice -----------------------------
(***************************************************************************)
(* The pier office: a petty-cash box per pier whose balance carries from   *)
(* day to day, the longtail and park sheets whose day totals are pulled    *)
(* into it (pier-cash.ts), and the office lists (pier-office.ts), ordered, *)
(* per pier where a pier owns them.  Every command runs in a transaction   *)
(* of its own, so a step is a whole command.                               *)
(***************************************************************************)
EXTENDS Naturals, Integers, Sequences, FiniteSets, FiniteSetsExt

CONSTANTS
    Piers,
    CashPiers,      \* the piers whose cash box is exercised
    CashDays,       \* 1 .. n
    MonthOf,        \* day |-> its month, numbered in order
    CashBoats,      \* boats of the sheets
    RunningOn,      \* day |-> the boats deployed from the pier
    CashAmounts,    \* amounts above 0
    Times,          \* minutes; Untimed among them
    KindIds, GoodsIds, SectionIds, StaffIds, CodeIds, CodeTexts,
    Upper,          \* text |-> the text in capitals
    NoPier,         \* a row that does not exist yet
    MaxOffice       \* bound: commands of a history

ASSUME OfficeAssumption ==
    /\ NoPier \notin Piers
    /\ IsFiniteSet(KindIds) /\ IsFiniteSet(SectionIds) /\ IsFiniteSet(StaffIds)
    /\ KindIds \cup SectionIds \subseteq Nat \ {0}

VARIABLES
    cashRows,       \* pier_cash_rows, as added
    cell,           \* pier, day, boat |-> the two sheets' cell
    kind,           \* item kind |-> its sort, 0 when there is none
    goods,          \* item |-> [pier, kind]
    section,        \* group |-> [pier, sort]
    staff,          \* person |-> [pier, section, sort, code]
    code,           \* roster code |-> its text, NoText when there is none
    commands

officeVars == <<cashRows, cell, kind, goods, section, staff, code, commands>>
cashVars == <<cashRows, cell>>
listVars == <<kind, goods, section, staff, code>>

Untimed == 90000
Sources == <<"longtail", "park", "dock">>
Keyed == "keyed"
Cells == [longtail: {0} \union CashAmounts, park: {0} \union CashAmounts, dock: {0} \union CashAmounts, boats: 0 .. 1]
NoCell == [longtail |-> 0, park |-> 0, dock |-> 0, boats |-> 0]
NoText == "none"
NoId == 0

TotalOf(S, f(_)) == MapThenSumSet(f, S)

-----------------------------------------------------------------------------
(* The ledger. *)

LiveRows(S) == {i \in S : cashRows[i].live}
RowsOf(p) == {i \in DOMAIN cashRows : cashRows[i].pier = p}
RowsOn(p, d) == {i \in RowsOf(p) : cashRows[i].day = d}
Signed(i) == IF cashRows[i].kind = "in" THEN cashRows[i].amount ELSE -cashRows[i].amount
AmountOf(i) == cashRows[i].amount

OpeningAllRows(p, d) == TotalOf({i \in RowsOf(p) : cashRows[i].day < d}, Signed)
\* What the box held before a day: every earlier day's live rows.
Opening(p, d) == TotalOf(LiveRows({i \in RowsOf(p) : cashRows[i].day < d}), Signed)

DayIn(p, d) == TotalOf({i \in LiveRows(RowsOn(p, d)) : cashRows[i].kind = "in"}, AmountOf)
DayOut(p, d) == TotalOf({i \in LiveRows(RowsOn(p, d)) : cashRows[i].kind = "out"}, AmountOf)
Net(p, d) == DayIn(p, d) - DayOut(p, d)

\* What a sheet says of a day, all boats together.
Reference(p, d, s) == LET Of(b) == cell[p, d, b][s] IN TotalOf(CashBoats, Of)
ReferenceTotal(p, d) == LET Of(s) == Reference(p, d, Sources[s]) IN TotalOf(1 .. 3, Of)
PulledRows(p, d) == {i \in LiveRows(RowsOn(p, d)) : cashRows[i].source # Keyed}
Waiting(p, d) == Max({0, ReferenceTotal(p, d) - TotalOf(PulledRows(p, d), AmountOf)})

\* The order of the day's list: by time, money in before money out, then as added.
ListedBefore(i, j) ==
    LET a == cashRows[i]
        b == cashRows[j]
    IN  \/ a.time < b.time
        \/ a.time = b.time /\ a.kind = "in" /\ b.kind = "out"
        \/ a.time = b.time /\ a.kind = b.kind /\ i < j
BalanceAfter(i) ==
    LET p == cashRows[i].pier
        d == cashRows[i].day
    IN  Opening(p, d) + TotalOf({j \in LiveRows(RowsOn(p, d)) : j = i \/ ListedBefore(j, i)}, Signed)
LedgerClosing(p, d) == Opening(p, d) + Net(p, d)

\* The month's table: the days with rows, cells or boats, each carrying the balance on.
TableDays(p, m) ==
    {d \in CashDays : /\ MonthOf[d] = m
                      /\ \/ RunningOn[d] # {}
                         \/ LiveRows(RowsOn(p, d)) # {}
                         \/ \E b \in CashBoats : cell[p, d, b] # NoCell}
MonthOpening(p, m) == Opening(p, Min({d \in CashDays : MonthOf[d] = m}))
TableOpening(p, m, d) ==
    LET NetOf(e) == Net(p, e) IN MonthOpening(p, m) + TotalOf({e \in TableDays(p, m) : e < d}, NetOf)
TableClosing(p, m) ==
    LET NetOf(e) == Net(p, e) IN MonthOpening(p, m) + TotalOf(TableDays(p, m), NetOf)

\* The sheet of a month: its boats by day, and the total of the cells shown.
SheetBoats(p, d) == RunningOn[d] \union {b \in CashBoats : cell[p, d, b] # NoCell}
SheetTotal(p, m, s) ==
    LET Of(x) == cell[p, x[1], x[2]][s]
    IN  TotalOf({x \in CashDays \X CashBoats : MonthOf[x[1]] = m /\ x[2] \in SheetBoats(p, x[1])}, Of)

\* The certificate lists the live rows of money out, or the ones picked.
Certified(p, d, picked) == {i \in LiveRows(RowsOn(p, d)) : cashRows[i].kind = "out" /\ i \in picked}

AddRow(p, d, k, a, t) ==
    /\ cashRows' = Append(cashRows, [pier |-> p, day |-> d, kind |-> k, amount |-> a, time |-> t,
                                     source |-> Keyed, live |-> TRUE])
    /\ UNCHANGED cell

DeleteRow(i) ==
    /\ cashRows[i].live
    /\ cashRows' = [cashRows EXCEPT ![i].live = FALSE]
    /\ UNCHANGED cell

\* A category counts as pulled while a live row of it stands.
NotPulled(p, d, s) == \A i \in LiveRows(RowsOn(p, d)) : cashRows[i].source # s
Pullable(p, d) == SelectSeq(Sources, LAMBDA s : Reference(p, d, s) > 0 /\ NotPulled(p, d, s))
Pull(p, d) ==
    /\ Pullable(p, d) # <<>>
    /\ cashRows' = cashRows \o
           [n \in DOMAIN Pullable(p, d) |->
               [pier |-> p, day |-> d, kind |-> "out", amount |-> Reference(p, d, Pullable(p, d)[n]),
                time |-> Untimed, source |-> Pullable(p, d)[n], live |-> TRUE]]
    /\ UNCHANGED cell

\* A cell left with nothing is removed.
KeyLongtail(p, d, b, amount, boats) ==
    /\ cell' = [cell EXCEPT ![<<p, d, b>>].longtail = amount, ![<<p, d, b>>].boats = boats]
    /\ UNCHANGED cashRows
KeyPark(p, d, b, amount, dock) ==
    /\ cell' = [cell EXCEPT ![<<p, d, b>>].park = amount, ![<<p, d, b>>].dock = dock]
    /\ UNCHANGED cashRows

-----------------------------------------------------------------------------
(* The lists. *)

NextSort(S, sortOf(_)) == 1 + Max({0} \union {sortOf(x) : x \in S})
KindSort(k) == kind[k]
SectionSort(s) == section[s].sort
StaffSort(x) == staff[x].sort
Kinds == {k \in KindIds : kind[k] # 0}
Sections(p) == {s \in SectionIds : section[s].pier = p}
PeopleOf(p) == {x \in StaffIds : staff[x].pier = p}
CodesNow == {c \in CodeIds : code[c] # NoText}
Unborn(f, x) == f[x].pier = NoPier

AddKind(k) ==
    /\ kind[k] = 0
    /\ kind' = [kind EXCEPT ![k] = NextSort(Kinds, KindSort)]
    /\ UNCHANGED <<goods, section, staff, code>>
KindUnused(k) == \A i \in GoodsIds : goods[i].kind # k
DropKind(k) ==
    /\ kind[k] # 0 /\ KindUnused(k)
    /\ kind' = [kind EXCEPT ![k] = 0]
    /\ UNCHANGED <<goods, section, staff, code>>

\* An item is added or moved, to another pier or another kind; it is never deleted.
PutItem(i, p, k) ==
    /\ k \in Kinds
    /\ goods' = [goods EXCEPT ![i] = [pier |-> p, kind |-> k]]
    /\ UNCHANGED <<kind, section, staff, code>>

AddSection(s, p) ==
    /\ Unborn(section, s)
    /\ section' = [section EXCEPT ![s] = [pier |-> p, sort |-> NextSort(Sections(p), SectionSort)]]
    /\ UNCHANGED <<kind, goods, staff, code>>
DropSection(s, anyway) ==
    LET members == {x \in StaffIds : staff[x].section = s}
    IN  /\ ~Unborn(section, s)
        /\ members # {} => anyway
        /\ section' = [section EXCEPT ![s] = [pier |-> NoPier, sort |-> 0]]
        /\ staff' = [x \in StaffIds |-> IF x \in members THEN [staff[x] EXCEPT !.section = NoId] ELSE staff[x]]
        /\ UNCHANGED <<kind, goods, code>>

\* A person's group is one of their own pier's.
SectionOf(s, p) == s \in {NoId} \union Sections(p)
AddStaff(x, p, s, c) ==
    /\ Unborn(staff, x)
    /\ SectionOf(s, p)
    /\ staff' = [staff EXCEPT ![x] = [pier |-> p, section |-> s, code |-> Upper[c],
                                      sort |-> NextSort(PeopleOf(p), StaffSort)]]
    /\ UNCHANGED <<kind, goods, section, code>>

SectionKept(x, p) == staff[x].section
\* A person moved to another pier leaves the group that pier does not have.
SectionAfterMove(x, p) == IF staff[x].pier = p THEN staff[x].section ELSE NoId
\* Into another group or pier: last there.
Placed(x, p, s) ==
    IF s = staff[x].section /\ p = staff[x].pier
    THEN staff[x].sort
    ELSE NextSort(PeopleOf(p) \ {x}, StaffSort)
MoveStaff(x, p, s) ==
    /\ ~Unborn(staff, x)
    /\ staff' = [staff EXCEPT ![x].pier = p, ![x].section = s, ![x].sort = Placed(x, p, s)]
    /\ UNCHANGED <<kind, goods, section, code>>
PatchStaff(x, p) ==
    \/ MoveStaff(x, p, SectionAfterMove(x, p))
    \/ \E s \in SectionIds \union {NoId} : SectionOf(s, p) /\ MoveStaff(x, p, s)

CodeFree(c, t) == \A d \in CodesNow \ {c} : Upper[code[d]] # Upper[t]
PutCode(c, t) ==
    /\ CodeFree(c, t)
    /\ code' = [code EXCEPT ![c] = t]
    /\ UNCHANGED <<kind, goods, section, staff>>
DropCode(c) ==
    /\ c \in CodesNow
    /\ code' = [code EXCEPT ![c] = NoText]
    /\ UNCHANGED <<kind, goods, section, staff>>

\* The ids of the list (of the pier's rows), each once, in the order to show them.
Orders(S) == {o \in [1 .. Cardinality(S) -> S] : \A i, j \in DOMAIN o : o[i] = o[j] => i = j}
PlaceIn(o, x) == CHOOSE i \in DOMAIN o : o[i] = x
OrderKinds ==
    \E o \in Orders(Kinds) :
        /\ kind' = [k \in KindIds |-> IF k \in Kinds THEN PlaceIn(o, k) ELSE 0]
        /\ UNCHANGED <<goods, section, staff, code>>
OrderSections(p) ==
    \E o \in Orders(Sections(p)) :
        /\ section' = [s \in SectionIds |->
               IF s \in Sections(p) THEN [section[s] EXCEPT !.sort = PlaceIn(o, s)] ELSE section[s]]
        /\ UNCHANGED <<kind, goods, staff, code>>
OrderStaff(p) ==
    \E o \in Orders(PeopleOf(p)) :
        /\ staff' = [x \in StaffIds |->
               IF x \in PeopleOf(p) THEN [staff[x] EXCEPT !.sort = PlaceIn(o, x)] ELSE staff[x]]
        /\ UNCHANGED <<kind, goods, section, code>>

-----------------------------------------------------------------------------
OfficeInit ==
    /\ cashRows = <<>>
    /\ cell = [x \in CashPiers \X CashDays \X CashBoats |-> NoCell]
    /\ kind = [k \in KindIds |-> 0]
    /\ goods = [i \in GoodsIds |-> [pier |-> NoPier, kind |-> NoId]]
    /\ section = [s \in SectionIds |-> [pier |-> NoPier, sort |-> 0]]
    /\ staff = [x \in StaffIds |-> [pier |-> NoPier, section |-> NoId, sort |-> 0, code |-> NoText]]
    /\ code = [c \in CodeIds |-> NoText]
    /\ commands = 0

Counted == commands < MaxOffice /\ commands' = commands + 1

CashStep ==
    /\ Counted /\ UNCHANGED listVars
    /\ \/ \E p \in CashPiers, d \in CashDays :
             \/ \E k \in {"in", "out"}, a \in CashAmounts, t \in Times : AddRow(p, d, k, a, t)
             \/ Pull(p, d)
             \/ \E b \in CashBoats, a \in {0} \union CashAmounts :
                   \/ \E n \in 0 .. 1 : KeyLongtail(p, d, b, a, n)
                   \/ \E k \in {0} \union CashAmounts : KeyPark(p, d, b, a, k)
       \/ \E i \in DOMAIN cashRows : DeleteRow(i)

ListStep ==
    /\ Counted /\ UNCHANGED cashVars
    /\ \/ \E k \in KindIds : AddKind(k) \/ DropKind(k)
       \/ \E i \in GoodsIds, p \in Piers, k \in KindIds : PutItem(i, p, k)
       \/ \E s \in SectionIds : \/ \E p \in Piers : AddSection(s, p)
                                \/ \E anyway \in BOOLEAN : DropSection(s, anyway)
       \/ \E x \in StaffIds, p \in Piers :
             \/ \E s \in SectionIds \union {NoId}, c \in CodeTexts : AddStaff(x, p, s, c)
             \/ PatchStaff(x, p)
       \/ \E c \in CodeIds : DropCode(c) \/ \E t \in CodeTexts : PutCode(c, t)
       \/ OrderKinds
       \/ \E p \in Piers : OrderSections(p) \/ OrderStaff(p)

OfficeNext == CashStep \/ ListStep
OfficeSpec == OfficeInit /\ [][OfficeNext]_officeVars

-----------------------------------------------------------------------------
OfficeTypeOK ==
    /\ \A i \in DOMAIN cashRows : /\ cashRows[i].amount \in Nat \ {0}
                                  /\ cashRows[i].day \in CashDays
    /\ \A x \in DOMAIN cell : cell[x] \in Cells
    /\ \A i \in GoodsIds : goods[i].pier \in Piers \union {NoPier}
    /\ \A x \in StaffIds : staff[x].section \in SectionIds \union {NoId}

\* The balance is worked out three ways and comes out the same: the day's ledger opens on what the
\* rows before it left, its running balance ends at its closing, and the month's table, which carries
\* the balance over the days it shows, opens and closes every one of those days alike and hands the
\* next month its opening (pier-cash.ts openingOf, ledgerDay, monthTable).
BalancesAgree ==
    \A p \in CashPiers, d \in CashDays :
        /\ d \in TableDays(p, MonthOf[d]) => TableOpening(p, MonthOf[d], d) = Opening(p, d)
        /\ \A e \in CashDays : MonthOf[e] = MonthOf[d] + 1 =>
               MonthOpening(p, MonthOf[e]) = TableClosing(p, MonthOf[d])
        /\ LiveRows(RowsOn(p, d)) # {} =>
               \E i \in LiveRows(RowsOn(p, d)) :
                   /\ \A j \in LiveRows(RowsOn(p, d)) \ {i} : ListedBefore(j, i)
                   /\ BalanceAfter(i) = LedgerClosing(p, d)

\* A sheet's day total is in the ledger at most once, whatever was keyed, deleted and pulled again
\* (pier-cash.ts planPull).
PulledOnce ==
    \A p \in CashPiers, d \in CashDays : \A i, j \in PulledRows(p, d) :
        cashRows[i].source = cashRows[j].source => i = j

\* What the screens add up agrees: a month's sheet totals what its days refer to, and the full
\* certificate comes to the day's money out (longtailSheet, parkSheet, dayTotals, certificate).
TotalsAgree ==
    \A p \in CashPiers, d \in CashDays :
        /\ \A s \in {"longtail", "park", "dock"} :
               LET Of(e) == Reference(p, e, s)
               IN  SheetTotal(p, MonthOf[d], s) = TotalOf({e \in TableDays(p, MonthOf[d]) : TRUE}, Of)
        /\ TotalOf(Certified(p, d, DOMAIN cashRows), AmountOf) = DayOut(p, d)

CashKept == BalancesAgree /\ PulledOnce /\ TotalsAgree

\* However people are added, moved between piers and groups, groups deleted and lists put in order:
\* nobody is in another pier's group or in one that went, no item is of a kind that went, no two rows
\* of one list share their place, no two codes read alike (pier-office.ts planPatch, planDelete,
\* planOrder, assertUniqueCode).
ListsKept ==
    /\ \A x \in StaffIds : staff[x].section # NoId => section[staff[x].section].pier = staff[x].pier
    /\ \A i \in GoodsIds : goods[i].kind # NoId => kind[goods[i].kind] # 0
    /\ \A p \in Piers :
          /\ \A x, y \in PeopleOf(p) : staff[x].sort = staff[y].sort => x = y
          /\ \A s, t \in Sections(p) : section[s].sort = section[t].sort => s = t
    /\ \A k, l \in Kinds : kind[k] = kind[l] => k = l
    /\ \A c, d \in CodesNow : Upper[code[c]] = Upper[code[d]] => c = d
=============================================================================
