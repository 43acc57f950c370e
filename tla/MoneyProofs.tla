------------------------------ MODULE MoneyProofs ------------------------------
(***************************************************************************)
(* The money's invariants, for every value of the constants. Each part of  *)
(* MCMoney takes its own steps and leaves the other parts alone, so each   *)
(* is proved of its own steps first, then of MoneySpec.                    *)
(***************************************************************************)
EXTENDS MCMoney, TotalsProofs

-----------------------------------------------------------------------------
(* Sums with deductions                                                    *)

\* Of amounts that are never below zero, the sum is Total.
LEMMA SumOfNats ==
    ASSUME NEW S, IsFiniteSet(S), NEW f \in [S -> Nat]
    PROVE  SumOf(f) = Total(f) /\ SumOf(f) \in Nat
<1> DEFINE more == [x \in DOMAIN f |-> Clip(f[x])]
           less == [x \in DOMAIN f |-> Clip(-f[x])]
           none == [x \in {} |-> 0]
<1>1. DOMAIN f = S /\ \A x \in S : f[x] \in Nat
  OBVIOUS
<1>2. more = f
  BY <1>1 DEF Clip
<1>3. Total(less) = Total(none)
  BY <1>1, TotalSupport DEF Clip
<1>4. Total(none) = 0
  BY TotalEmpty
<1>5. Total(f) \in Nat
  BY <1>1, TotalIsNat
<1> QED
  BY <1>2, <1>3, <1>4, <1>5 DEF SumOf

LEMMA SumIsInt ==
    ASSUME NEW S, IsFiniteSet(S), NEW f \in [S -> Int]
    PROVE  SumOf(f) \in Int
<1> DEFINE more == [x \in DOMAIN f |-> Clip(f[x])]
           less == [x \in DOMAIN f |-> Clip(-f[x])]
<1>1. IsFiniteSet(DOMAIN more) /\ \A x \in DOMAIN more : more[x] \in Nat
  BY DEF Clip
<1>2. IsFiniteSet(DOMAIN less) /\ \A x \in DOMAIN less : less[x] \in Nat
  BY DEF Clip
<1>3. Total(more) \in Nat /\ Total(less) \in Nat
  BY <1>1, <1>2, TotalIsNat
<1> QED
  BY <1>3 DEF SumOf

\* The sum of one amount, or of none.
LEMMA SumOfOne ==
    ASSUME NEW a, NEW v \in Int
    PROVE  SumOf([x \in {a} |-> v]) = v
<1> DEFINE f == [x \in {a} |-> v]
           more == [x \in DOMAIN f |-> Clip(f[x])]
           less == [x \in DOMAIN f |-> Clip(-f[x])]
<1>1. DOMAIN more = {a} /\ more[a] = Clip(v) /\ DOMAIN less = {a} /\ less[a] = Clip(-v)
  OBVIOUS
<1>2. Clip(v) \in Nat /\ Clip(-v) \in Nat /\ Clip(v) - Clip(-v) = v
  BY DEF Clip
<1>3. Total(more) = Clip(v) /\ Total(less) = Clip(-v)
  BY <1>1, <1>2, TotalOne
<1> QED
  BY <1>2, <1>3 DEF SumOf

LEMMA SumOfNone == ASSUME NEW f, DOMAIN f = {} PROVE SumOf(f) = 0
<1> DEFINE more == [x \in DOMAIN f |-> Clip(f[x])]
           less == [x \in DOMAIN f |-> Clip(-f[x])]
<1>1. Total(more) = 0 /\ Total(less) = 0
  BY TotalEmpty
<1> QED
  BY <1>1 DEF SumOf

\* One amount more.
LEMMA SumPlus ==
    ASSUME NEW S, IsFiniteSet(S), NEW a, a \notin S, NEW f \in [S -> Nat], NEW g \in [S \cup {a} -> Nat],
           \A x \in S : g[x] = f[x]
    PROVE  SumOf(g) = SumOf(f) + g[a] /\ SumOf(f) \in Nat /\ SumOf(g) \in Nat
<1>1. IsFiniteSet(S \cup {a})
  BY FS_AddElement
<1>2. IsTable(g) /\ DOMAIN g = S \cup {a} /\ a \in DOMAIN g /\ g[a] \in Nat
  BY <1>1 DEF IsTable
<1>3. Total(g) = Total([y \in DOMAIN g \ {a} |-> g[y]]) + g[a]
  BY <1>2, TotalSplit
<1>4. [y \in DOMAIN g \ {a} |-> g[y]] = f
  BY <1>2
<1>5. SumOf(f) = Total(f) /\ SumOf(f) \in Nat
  BY SumOfNats
<1>6. SumOf(g) = Total(g) /\ SumOf(g) \in Nat
  BY <1>1, SumOfNats
<1> QED
  BY <1>3, <1>4, <1>5, <1>6

\* The same table, some of its amounts grown and some new.
LEMMA SumGrows ==
    ASSUME NEW S, NEW T, IsFiniteSet(T), S \subseteq T, NEW f \in [S -> Nat], NEW g \in [T -> Nat],
           \A x \in S : f[x] <= g[x]
    PROVE  SumOf(f) <= SumOf(g) /\ SumOf(f) \in Nat /\ SumOf(g) \in Nat
<1> DEFINE h == [x \in S |-> g[x]]
<1>1. IsFiniteSet(S)
  BY FS_Subset
<1>2. h \in [S -> Nat]
  OBVIOUS
<1>3. Total(f) <= Total(h)
  BY <1>1, <1>2, TotalMono
<1>4. IsTable(g) /\ DOMAIN g = T
  BY DEF IsTable
<1>5. Total(h) <= Total(g) /\ Total(h) \in Nat
  BY <1>4, TotalPart
<1>6. SumOf(f) = Total(f) /\ SumOf(f) \in Nat
  BY <1>1, SumOfNats
<1>7. SumOf(g) = Total(g) /\ SumOf(g) \in Nat
  BY SumOfNats
<1> QED
  BY <1>3, <1>5, <1>6, <1>7

-----------------------------------------------------------------------------
(* An invoice's row                                                        *)

LineTables == UNION {[K -> Lines] : K \in SUBSET (Bookings \X Parts)}
\* A booking's line that is still on.
Shows(b, inv, part) == <<b, part>> \in LiveLines(inv.lines)
\* An invoice that bills the booking's price or fees.
Bills(b, inv) == ~inv.voided /\ inv.kind = "booking" /\ (Shows(b, inv, "trip") \/ Shows(b, inv, "fee"))
Amount(b, inv, part) == IF Shows(b, inv, part) THEN inv.lines[<<b, part>>].amount ELSE 0
\* A booking's price and its fees come off together.
LinesTogether(inv) ==
    inv.kind = "booking" =>
        \A b \in Bookings : <<b, "fee">> \in DOMAIN inv.lines =>
            <<b, "trip">> \in DOMAIN inv.lines /\ (inv.lines[<<b, "fee">>].off <=> inv.lines[<<b, "trip">>].off)
RowOk(inv) == inv \in Invoices /\ inv.total = InvoiceTotal(inv.lines) /\ LinesTogether(inv)

LEMMA LineTable ==
    ASSUME NEW lines
    PROVE  /\ lines \in LineTables <=> DOMAIN lines \subseteq Bookings \X Parts /\ lines \in [DOMAIN lines -> Lines]
           /\ lines \in LineTables =>
                /\ IsFiniteSet(DOMAIN lines) /\ LiveLines(lines) \subseteq DOMAIN lines /\ IsFiniteSet(LiveLines(lines))
                /\ \A k \in DOMAIN lines : k = <<k[1], k[2]>> /\ k[1] \in Bookings /\ k[2] \in Parts /\ lines[k] \in Lines
<1>1. lines \in LineTables <=> DOMAIN lines \subseteq Bookings \X Parts /\ lines \in [DOMAIN lines -> Lines]
  BY DEF LineTables
<1>2. IsFiniteSet(Parts)
  <2>1. IsFiniteSet({"trip"}) /\ IsFiniteSet({"trip"} \cup {"fee"}) /\ IsFiniteSet(({"trip"} \cup {"fee"}) \cup {"cot"})
    BY FS_Singleton, FS_AddElement
  <2>2. Parts = ({"trip"} \cup {"fee"}) \cup {"cot"}
    BY DEF Parts
  <2> QED
    BY <2>1, <2>2
<1>3. IsFiniteSet(Bookings \X Parts)
  BY <1>2, LedgerAssumption, FS_Product
<1>4. ASSUME lines \in LineTables
      PROVE  IsFiniteSet(DOMAIN lines) /\ LiveLines(lines) \subseteq DOMAIN lines /\ IsFiniteSet(LiveLines(lines))
  <2>1. LiveLines(lines) \subseteq DOMAIN lines
    BY DEF LiveLines
  <2>2. IsFiniteSet(DOMAIN lines)
    BY <1>1, <1>3, <1>4, FS_Subset
  <2> QED
    BY <2>1, <2>2, FS_Subset
<1> QED
  BY <1>1, <1>4

LEMMA TotalIsAmount == ASSUME NEW lines \in LineTables PROVE InvoiceTotal(lines) \in Nat
<1> DEFINE on == LiveLines(lines)
           f == [k \in on |-> lines[k].amount]
           g == [k \in on |-> lines[k].discount]
<1>1. IsFiniteSet(on) /\ \A k \in on : lines[k] \in Lines
  BY LineTable DEF LiveLines
<1>2. f \in [on -> Int] /\ g \in [on -> Nat]
  BY <1>1 DEF Lines
<1>3. SumOf(f) \in Int /\ SumOf(g) \in Nat
  BY <1>1, <1>2, SumIsInt, SumOfNats
<1> HIDE DEF f, g
<1>4. InvoiceTotal(lines) = Clip(SumOf(f) - Least(SumOf(g), SumOf(f)))
  BY DEF InvoiceTotal, f, g
<1> QED
  BY <1>3, <1>4 DEF Clip, Least

LEMMA TotalOfOne ==
    ASSUME NEW k, NEW v \in Nat
    PROVE  InvoiceTotal([l \in {k} |-> Line(v)]) = v
<1> DEFINE lines == [l \in {k} |-> Line(v)]
<1>1. LiveLines(lines) = {k}
  BY DEF LiveLines, Line
<1>2. /\ [l \in LiveLines(lines) |-> lines[l].amount] = [l \in {k} |-> v]
      /\ [l \in LiveLines(lines) |-> lines[l].discount] = [l \in {k} |-> 0]
  BY <1>1 DEF Line
<1>3. SumOf([l \in {k} |-> v]) = v /\ SumOf([l \in {k} |-> 0]) = 0
  <2>1. v \in Int /\ 0 \in Int
    OBVIOUS
  <2>2. \A n \in Int : SumOf([l \in {k} |-> n]) = n
    BY SumOfOne, Zenon
  <2> QED
    BY <2>1, <2>2, Zenon
<1> HIDE DEF lines
<1> QED
  BY <1>2, <1>3 DEF InvoiceTotal, Clip, Least, lines

LEMMA RowShows ==
    ASSUME NEW inv \in Invoices, NEW b \in Bookings
    PROVE  /\ OnLiveLine(b, inv) <=> \E part \in Parts : Shows(b, inv, part)
           /\ (\E k \in LiveLines(inv.lines) : k[1] = b /\ k[2] # "cot") <=> Shows(b, inv, "trip") \/ Shows(b, inv, "fee")
<1>1. inv.lines \in LineTables
  BY DEF Invoices, LineTables
<1>2. \A k \in LiveLines(inv.lines) : k = <<k[1], k[2]>> /\ k[2] \in Parts
  BY <1>1, LineTable DEF LiveLines
<1> QED
  BY <1>2 DEF OnLiveLine, Shows, Parts

\* A row with other lines.
LEMMA RowWithLines ==
    ASSUME NEW inv \in Invoices, NEW lines \in LineTables
    PROVE  LET new == WithLines(inv, lines)
           IN  /\ new \in Invoices /\ new.lines = lines /\ new.kind = inv.kind /\ new.voided = inv.voided
               /\ new.total = InvoiceTotal(new.lines)
<1>1. InvoiceTotal(lines) \in Nat
  BY TotalIsAmount
<1>2. lines \in UNION {[K -> Lines] : K \in SUBSET (Bookings \X Parts)}
  BY DEF LineTables
<1>3. \A n \in Nat : LET new == [inv EXCEPT !.lines = lines, !.total = n]
                    IN  /\ new \in Invoices /\ new.lines = lines /\ new.kind = inv.kind /\ new.voided = inv.voided
                        /\ new.total = n
  BY <1>2 DEF Invoices
<1> QED
  BY <1>1, <1>3 DEF WithLines

\* What a row says of a booking stays as it was.
SameFor(b, inv, new) ==
    \A part \in Parts : (Shows(b, new, part) <=> Shows(b, inv, part)) /\ Amount(b, new, part) = Amount(b, inv, part)

LEMMA SameBills ==
    ASSUME NEW b, NEW inv, NEW new, SameFor(b, inv, new), new.kind = inv.kind, new.voided = inv.voided
    PROVE  Bills(b, new) <=> Bills(b, inv)
  BY DEF SameFor, Bills, Parts

LEMMA VoidedRow ==
    ASSUME NEW inv, RowOk(inv)
    PROVE  LET new == [inv EXCEPT !.voided = TRUE] IN RowOk(new) /\ new.voided /\ (inv.voided => new = inv)
  BY DEF RowOk, Invoices, LinesTogether

\* A discount.
LEMMA DiscountRow ==
    ASSUME NEW inv, RowOk(inv), NEW k \in DOMAIN inv.lines, NEW d \in Discounts
    PROVE  LET new == WithLines(inv, [inv.lines EXCEPT ![k].discount = d])
           IN  /\ RowOk(new) /\ new.kind = inv.kind /\ new.voided = inv.voided
               /\ \A b \in Bookings : SameFor(b, inv, new)
<1> DEFINE lines == [inv.lines EXCEPT ![k].discount = d]
           new == WithLines(inv, lines)
<1>1. inv \in Invoices /\ inv.lines \in LineTables
  BY DEF RowOk, Invoices, LineTables
<1>2. inv.lines \in [DOMAIN inv.lines -> Lines] /\ DOMAIN inv.lines \subseteq Bookings \X Parts
  BY <1>1, LineTable
<1>3. /\ DOMAIN lines = DOMAIN inv.lines /\ lines \in [DOMAIN lines -> Lines]
      /\ \A l \in DOMAIN lines : lines[l].amount = inv.lines[l].amount /\ lines[l].off = inv.lines[l].off
  <2>1. d \in Nat
    BY LedgerAssumption
  <2>2. [inv.lines[k] EXCEPT !.discount = d] \in Lines
    BY <1>2, <2>1 DEF Lines
  <2>3. lines \in [DOMAIN inv.lines -> Lines]
    BY <1>2, <2>2
  <2> QED
    BY <1>2, <2>3 DEF Lines
<1>4. lines \in LineTables
  BY <1>2, <1>3, LineTable
<1> HIDE DEF lines
<1>5. new \in Invoices /\ new.lines = lines /\ new.kind = inv.kind /\ new.voided = inv.voided /\ new.total = InvoiceTotal(new.lines)
  BY <1>1, <1>4, RowWithLines
<1> HIDE DEF new
<1>6. \A b \in Bookings : SameFor(b, inv, new)
  BY <1>3, <1>5 DEF SameFor, Shows, Amount, LiveLines
<1>7. LinesTogether(new)
  BY <1>3, <1>5 DEF RowOk, LinesTogether
<1> QED
  BY <1>5, <1>6, <1>7 DEF RowOk, new, lines

\* A booking's lines taken off, or the invoice with them.
LEMMA ShareOffRow ==
    ASSUME NEW inv, RowOk(inv), ~inv.voided, NEW b \in Bookings
    PROVE  LET new == ShareOff(b, inv)
           IN  /\ RowOk(new) /\ new.kind = inv.kind
               /\ ~new.voided => /\ \A part \in Parts : ~Shows(b, new, part)
                                 /\ \A c \in Bookings \ {b} : SameFor(c, inv, new)
<1> DEFINE lines == [k \in DOMAIN inv.lines |-> IF k[1] = b THEN [inv.lines[k] EXCEPT !.off = TRUE] ELSE inv.lines[k]]
           new == WithLines(inv, lines)
<1>1. inv \in Invoices /\ inv.lines \in LineTables
  BY DEF RowOk, Invoices, LineTables
<1>2. inv.lines \in [DOMAIN inv.lines -> Lines] /\ DOMAIN inv.lines \subseteq Bookings \X Parts
  BY <1>1, LineTable
<1>3. CASE \A k \in LiveLines(inv.lines) : k[1] = b
  <2>1. ShareOff(b, inv) = [inv EXCEPT !.voided = TRUE]
    BY <1>3 DEF ShareOff
  <2>2. RowOk([inv EXCEPT !.voided = TRUE]) /\ [inv EXCEPT !.voided = TRUE].voided
    BY VoidedRow
  <2>3. [inv EXCEPT !.voided = TRUE].kind = inv.kind
    BY <1>1 DEF Invoices
  <2> QED
    BY <2>1, <2>2, <2>3
<1>4. CASE ~ \A k \in LiveLines(inv.lines) : k[1] = b
  <2>1. ShareOff(b, inv) = new
    BY <1>4 DEF ShareOff
  <2>2. \A k \in DOMAIN inv.lines : [inv.lines[k] EXCEPT !.off = TRUE] \in Lines
    BY <1>2 DEF Lines
  <2>3. DOMAIN lines = DOMAIN inv.lines /\ lines \in [DOMAIN lines -> Lines]
    BY <1>2, <2>2
  <2>4. /\ \A k \in DOMAIN lines : k[1] = b => lines[k].off
        /\ \A k \in DOMAIN lines : k[1] # b => lines[k] = inv.lines[k]
    BY <1>2 DEF Lines
  <2>5. lines \in LineTables
    BY <1>2, <2>3, LineTable
  <2> HIDE DEF lines
  <2>6. new \in Invoices /\ new.lines = lines /\ new.kind = inv.kind /\ new.voided = inv.voided /\ new.total = InvoiceTotal(new.lines)
    BY <1>1, <2>5, RowWithLines
  <2> HIDE DEF new
  <2>7. \A part \in Parts : ~Shows(b, new, part)
    BY <2>4, <2>6 DEF Shows, LiveLines
  <2>8. \A c \in Bookings \ {b} : SameFor(c, inv, new)
    BY <2>3, <2>4, <2>6 DEF SameFor, Shows, Amount, LiveLines
  <2>9. LinesTogether(new)
    BY <2>3, <2>4, <2>6 DEF RowOk, LinesTogether
  <2> QED
    BY <2>1, <2>6, <2>7, <2>8, <2>9 DEF RowOk
<1> QED
  BY <1>3, <1>4

\* A fee on top.
LEMMA FeeRow ==
    ASSUME NEW inv, RowOk(inv), NEW b \in Bookings, Bills(b, inv), NEW amount \in Nat \ {0}
    PROVE  LET new == WithFee(b, inv, amount)
           IN  /\ RowOk(new) /\ new.kind = inv.kind /\ new.voided = inv.voided
               /\ \A c \in Bookings \ {b} : SameFor(c, inv, new)
               /\ Amount(b, new, "fee") = Amount(b, inv, "fee") + amount /\ Amount(b, new, "cot") = Amount(b, inv, "cot")
<1> DEFINE k == <<b, "fee">>
           was == IF k \in DOMAIN inv.lines THEN inv.lines[k] ELSE Line(0)
           row == [was EXCEPT !.amount = was.amount + amount]
           lines == With(inv.lines, k, row)
           new == WithLines(inv, lines)
<1>1. inv \in Invoices /\ inv.lines \in LineTables /\ LinesTogether(inv) /\ inv.kind = "booking"
  BY DEF RowOk, Invoices, LineTables, Bills
<1>2. inv.lines \in [DOMAIN inv.lines -> Lines] /\ DOMAIN inv.lines \subseteq Bookings \X Parts
  BY <1>1, LineTable
<1>3. /\ <<b, "trip">> \in DOMAIN inv.lines /\ ~inv.lines[<<b, "trip">>].off
      /\ k \in DOMAIN inv.lines => ~inv.lines[k].off
  <2>1. Shows(b, inv, "trip") \/ Shows(b, inv, "fee")
    BY DEF Bills
  <2>2. <<b, "fee">> \in DOMAIN inv.lines =>
            <<b, "trip">> \in DOMAIN inv.lines /\ (inv.lines[<<b, "fee">>].off <=> inv.lines[<<b, "trip">>].off)
    BY <1>1 DEF LinesTogether
  <2> QED
    BY <2>1, <2>2 DEF Shows, LiveLines
<1>4. was \in Lines /\ ~was.off /\ was.amount = Amount(b, inv, "fee")
  <2>1. CASE k \in DOMAIN inv.lines
    BY <1>2, <1>3, <2>1 DEF Amount, Shows, LiveLines
  <2>2. CASE k \notin DOMAIN inv.lines
    <3>1. ~Shows(b, inv, "fee")
      BY <2>2 DEF Shows, LiveLines
    <3> QED
      BY <2>2, <3>1 DEF Line, Lines, Amount
  <2> QED
    BY <2>1, <2>2
<1> HIDE DEF was
<1>5. row \in Lines /\ ~row.off /\ row.amount = Amount(b, inv, "fee") + amount
  BY <1>4 DEF Lines
<1> HIDE DEF row
<1>6. WithFee(b, inv, amount) = new
  BY DEF WithFee, was, row
<1>7. k \in Bookings \X Parts
  BY DEF Parts
<1>8. /\ DOMAIN lines = DOMAIN inv.lines \cup {k} /\ lines[k] = row
      /\ \A l \in DOMAIN inv.lines : l # k => lines[l] = inv.lines[l]
  BY DEF With
<1>9. lines \in [DOMAIN lines -> Lines]
  BY <1>2, <1>5 DEF With
<1>10. lines \in LineTables
  BY <1>2, <1>7, <1>8, <1>9, LineTable
<1> HIDE DEF lines
<1>11. new \in Invoices /\ new.lines = lines /\ new.kind = inv.kind /\ new.voided = inv.voided /\ new.total = InvoiceTotal(new.lines)
  BY <1>1, <1>10, RowWithLines
<1> HIDE DEF new
<1>12. \A c \in Bookings \ {b} : SameFor(c, inv, new)
  BY <1>8, <1>11 DEF SameFor, Shows, Amount, LiveLines
<1>13. Amount(b, new, "fee") = Amount(b, inv, "fee") + amount /\ Amount(b, new, "cot") = Amount(b, inv, "cot")
  <2>1. Amount(b, new, "fee") = row.amount
    BY <1>5, <1>8, <1>11 DEF Amount, Shows, LiveLines
  <2>2. Amount(b, new, "cot") = Amount(b, inv, "cot")
    BY <1>8, <1>11 DEF Amount, Shows, LiveLines
  <2> QED
    BY <1>5, <2>1, <2>2
<1>14. LinesTogether(new)
  <2> SUFFICES ASSUME NEW c \in Bookings, <<c, "fee">> \in DOMAIN new.lines
               PROVE  <<c, "trip">> \in DOMAIN new.lines /\ (new.lines[<<c, "fee">>].off <=> new.lines[<<c, "trip">>].off)
    BY DEF LinesTogether
  <2>1. CASE c = b
    BY <1>3, <1>5, <1>8, <1>11, <2>1
  <2>2. CASE c # b
    BY <1>1, <1>8, <1>11, <2>2 DEF LinesTogether
  <2> QED
    BY <2>1, <2>2
<1> QED
  BY <1>6, <1>11, <1>12, <1>13, <1>14 DEF RowOk

\* Cash on tour taken off, or no longer.
LEMMA CotRow ==
    ASSUME NEW inv, RowOk(inv), NEW b \in Bookings, NEW amount \in Nat
    PROVE  LET new == WithCot(b, inv, amount)
           IN  /\ RowOk(new) /\ new.kind = inv.kind /\ new.voided = inv.voided
               /\ \A c \in Bookings \ {b} : SameFor(c, inv, new)
               /\ Amount(b, new, "fee") = Amount(b, inv, "fee") /\ Amount(b, new, "cot") = -amount
<1> DEFINE k == <<b, "cot">>
           on == With(inv.lines, k, Line(-amount))
           off == [inv.lines EXCEPT ![k].off = TRUE]
<1>1. inv \in Invoices /\ inv.lines \in LineTables /\ LinesTogether(inv)
  BY DEF RowOk, Invoices, LineTables
<1>2. inv.lines \in [DOMAIN inv.lines -> Lines] /\ DOMAIN inv.lines \subseteq Bookings \X Parts /\ k \in Bookings \X Parts
  BY <1>1, LineTable DEF Parts
<1>3. ASSUME NEW lines, lines \in LineTables,
             \A l \in (DOMAIN lines \cup DOMAIN inv.lines) \ {k} : l \in DOMAIN lines /\ l \in DOMAIN inv.lines /\ lines[l] = inv.lines[l],
             IF amount > 0 THEN k \in DOMAIN lines /\ lines[k] = Line(-amount) ELSE k \in DOMAIN lines /\ lines[k].off
      PROVE  LET new == WithLines(inv, lines)
             IN  /\ RowOk(new) /\ new.kind = inv.kind /\ new.voided = inv.voided
                 /\ \A c \in Bookings \ {b} : SameFor(c, inv, new)
                 /\ Amount(b, new, "fee") = Amount(b, inv, "fee") /\ Amount(b, new, "cot") = -amount
  <2> DEFINE new == WithLines(inv, lines)
  <2>1. new \in Invoices /\ new.lines = lines /\ new.kind = inv.kind /\ new.voided = inv.voided /\ new.total = InvoiceTotal(new.lines)
    BY <1>1, <1>3, RowWithLines
  <2> HIDE DEF new
  <2>2. \A l \in Bookings \X Parts : l # k => (l \in DOMAIN lines <=> l \in DOMAIN inv.lines) /\ (l \in DOMAIN lines => lines[l] = inv.lines[l])
    BY <1>3
  <2>3. \A c \in Bookings, part \in Parts : c # b \/ part # "cot" =>
           (Shows(c, new, part) <=> Shows(c, inv, part)) /\ Amount(c, new, part) = Amount(c, inv, part)
    BY <2>1, <2>2 DEF Shows, Amount, LiveLines
  <2>4. \A c \in Bookings \ {b} : SameFor(c, inv, new)
    BY <2>3 DEF SameFor
  <2>5. Amount(b, new, "fee") = Amount(b, inv, "fee")
    BY <2>3 DEF Parts
  <2>6. Amount(b, new, "cot") = -amount
    BY <1>3, <2>1 DEF Amount, Shows, LiveLines, Line
  <2>7. LinesTogether(new)
    BY <1>1, <1>2, <2>1, <2>2 DEF LinesTogether, Parts
  <2>8. RowOk(new)
    BY <2>1, <2>7 DEF RowOk
  <2>9. new.kind = inv.kind /\ new.voided = inv.voided
    BY <2>1
  <2> QED
    BY <2>4, <2>5, <2>6, <2>8, <2>9, Zenon DEF new
<1>4. CASE amount > 0
  <2>1. DOMAIN on = DOMAIN inv.lines \cup {k} /\ on[k] = Line(-amount) /\ \A l \in DOMAIN inv.lines : l # k => on[l] = inv.lines[l]
    BY DEF With
  <2>2. Line(-amount) \in Lines
    BY DEF Line, Lines
  <2>3. on \in [DOMAIN on -> Lines]
    BY <1>2, <2>2 DEF With
  <2>4. on \in LineTables
    BY <1>2, <2>1, <2>3, LineTable
  <2>5. WithCot(b, inv, amount) = WithLines(inv, on)
    BY <1>4 DEF WithCot
  <2> HIDE DEF on
  <2> QED
    BY <1>3, <1>4, <2>1, <2>4, <2>5
<1>5. CASE ~(amount > 0) /\ k \in DOMAIN inv.lines
  <2>1. [inv.lines[k] EXCEPT !.off = TRUE] \in Lines
    BY <1>2, <1>5 DEF Lines
  <2>2. DOMAIN off = DOMAIN inv.lines /\ off \in [DOMAIN off -> Lines] /\ off[k].off /\ \A l \in DOMAIN inv.lines : l # k => off[l] = inv.lines[l]
    BY <1>2, <1>5, <2>1 DEF Lines
  <2>3. off \in LineTables
    BY <1>2, <2>2, LineTable
  <2>4. WithCot(b, inv, amount) = WithLines(inv, off)
    BY <1>5 DEF WithCot
  <2> HIDE DEF off
  <2> QED
    BY <1>3, <1>5, <2>2, <2>3, <2>4
<1>6. CASE ~(amount > 0) /\ k \notin DOMAIN inv.lines
  <2>1. WithCot(b, inv, amount) = inv
    BY <1>6 DEF WithCot
  <2>2. Amount(b, inv, "cot") = 0
    BY <1>6 DEF Amount, Shows, LiveLines
  <2> QED
    BY <1>6, <2>1, <2>2 DEF SameFor
<1> QED
  BY <1>4, <1>5, <1>6

\* A new invoice: each booking on it as it is priced today.
LEMMA IssuedRow ==
    ASSUME fees \in [Bookings -> Nat], cot \in [Bookings -> Nat], NEW bs \in SUBSET Bookings
    PROVE  LET lines == [k \in UNION {DOMAIN LinesOf(b) : b \in bs} |-> LinesOf(k[1])[k]]
               new == [kind |-> "booking", lines |-> lines, total |-> InvoiceTotal(lines), voided |-> FALSE]
           IN  /\ RowOk(new) /\ \A b \in Bookings \ bs : \A part \in Parts : ~Shows(b, new, part)
               /\ \A b \in bs : Amount(b, new, "fee") = fees[b] /\ Amount(b, new, "cot") = -cot[b]
<1> DEFINE lines == [k \in UNION {DOMAIN LinesOf(b) : b \in bs} |-> LinesOf(k[1])[k]]
           new == [kind |-> "booking", lines |-> lines, total |-> InvoiceTotal(lines), voided |-> FALSE]
<1>1. \A b \in Bookings : \A k : k \in DOMAIN LinesOf(b) <=>
        k = <<b, "trip">> \/ (k = <<b, "fee">> /\ fees[b] > 0) \/ (k = <<b, "cot">> /\ cot[b] > 0)
  BY DEF LinesOf
<1>2. \A b \in Bookings : \A k \in DOMAIN LinesOf(b) :
        LinesOf(b)[k] = Line(IF k[2] = "trip" THEN Price[b] ELSE IF k[2] = "fee" THEN fees[b] ELSE -cot[b])
  BY DEF LinesOf
<1>3. \A k : k \in DOMAIN lines <=> \E b \in bs : k \in DOMAIN LinesOf(b)
  OBVIOUS
<1>4. \A b \in bs : \A k \in DOMAIN LinesOf(b) : k \in DOMAIN lines /\ lines[k] = LinesOf(b)[k]
  BY <1>1, <1>3
<1>5. DOMAIN lines \subseteq Bookings \X Parts
  BY <1>1, <1>3 DEF Parts
<1>6. \A b \in bs : \A k \in DOMAIN LinesOf(b) : LinesOf(b)[k] \in Lines /\ ~LinesOf(b)[k].off
  <2> TAKE b \in bs
  <2> TAKE k \in DOMAIN LinesOf(b)
  <2>1. Price[b] \in Int /\ fees[b] \in Int /\ -cot[b] \in Int
    BY LedgerAssumption
  <2>2. \A n \in Int : Line(n) \in Lines /\ ~Line(n).off
    BY DEF Line, Lines
  <2>3. (IF k[2] = "trip" THEN Price[b] ELSE IF k[2] = "fee" THEN fees[b] ELSE -cot[b]) \in Int
    BY <2>1
  <2> QED
    BY <1>2, <2>2, <2>3
<1>7. lines \in [DOMAIN lines -> Lines] /\ \A k \in DOMAIN lines : ~lines[k].off
  <2>1. \A k \in DOMAIN lines : lines[k] \in Lines /\ ~lines[k].off
    <3> TAKE k \in DOMAIN lines
    <3>1. PICK b \in bs : k \in DOMAIN LinesOf(b)
      BY <1>3
    <3>2. lines[k] = LinesOf(b)[k]
      BY <1>4, <3>1
    <3>3. LinesOf(b)[k] \in Lines /\ ~LinesOf(b)[k].off
      BY <1>6, <3>1
    <3> QED
      BY <3>2, <3>3
  <2> QED
    BY <2>1
<1> HIDE DEF lines
<1>8. lines \in LineTables
  BY <1>5, <1>7, LineTable
<1>9. InvoiceTotal(lines) \in Nat
  BY <1>8, TotalIsAmount
<1>10. new \in Invoices /\ new.lines = lines /\ new.total = InvoiceTotal(new.lines)
  BY <1>8, <1>9 DEF Invoices, LineTables
<1> HIDE DEF new
<1>11. \A b \in Bookings, part \in Parts : Shows(b, new, part) <=> b \in bs /\ <<b, part>> \in DOMAIN LinesOf(b)
  BY <1>1, <1>3, <1>7, <1>10 DEF Shows, LiveLines
<1>12. \A b \in bs : Amount(b, new, "fee") = fees[b] /\ Amount(b, new, "cot") = -cot[b]
  <2> TAKE b \in bs
  <2>1. \A part \in Parts : Amount(b, new, part) =
            IF <<b, part>> \in DOMAIN LinesOf(b) THEN LinesOf(b)[<<b, part>>].amount ELSE 0
    BY <1>4, <1>10, <1>11 DEF Amount
  <2>2. \A n \in Int : Line(n).amount = n
    BY DEF Line
  <2>3. fees[b] \in Nat /\ cot[b] \in Nat /\ -cot[b] \in Int
    OBVIOUS
  <2>4. Amount(b, new, "fee") = fees[b]
    <3>1. <<b, "fee">> \in DOMAIN LinesOf(b) <=> fees[b] > 0
      BY <1>1
    <3>2. <<b, "fee">> \in DOMAIN LinesOf(b) => LinesOf(b)[<<b, "fee">>] = Line(fees[b])
      BY <1>2
    <3> QED
      BY <2>1, <2>2, <2>3, <3>1, <3>2 DEF Parts
  <2>5. Amount(b, new, "cot") = -cot[b]
    <3>1. <<b, "cot">> \in DOMAIN LinesOf(b) <=> cot[b] > 0
      BY <1>1
    <3>2. <<b, "cot">> \in DOMAIN LinesOf(b) => LinesOf(b)[<<b, "cot">>] = Line(-cot[b])
      BY <1>2
    <3> QED
      BY <2>1, <2>2, <2>3, <3>1, <3>2 DEF Parts
  <2> QED
    BY <2>4, <2>5
<1>13. LinesTogether(new)
  <2> SUFFICES ASSUME NEW b \in Bookings, <<b, "fee">> \in DOMAIN lines
               PROVE  <<b, "trip">> \in DOMAIN lines /\ (lines[<<b, "fee">>].off <=> lines[<<b, "trip">>].off)
    BY <1>10 DEF LinesTogether
  <2>1. b \in bs
    BY <1>1, <1>3
  <2>2. <<b, "trip">> \in DOMAIN lines
    BY <1>1, <1>4, <2>1
  <2> QED
    BY <1>7, <2>2
<1> QED
  BY <1>10, <1>11, <1>12, <1>13 DEF RowOk, new, lines

\* A cancellation's fee is the one line of its invoice.
LEMMA ChargeRow ==
    ASSUME NEW b \in Bookings, NEW charge \in Nat
    PROVE  LET new == [kind |-> "cancellation", lines |-> [k \in {<<b, "fee">>} |-> Line(charge)],
                       total |-> charge, voided |-> FALSE]
           IN  RowOk(new) /\ \A c \in Bookings \ {b} : ~OnLiveLine(c, new)
<1> DEFINE lines == [k \in {<<b, "fee">>} |-> Line(charge)]
           new == [kind |-> "cancellation", lines |-> lines, total |-> charge, voided |-> FALSE]
<1>1. InvoiceTotal(lines) = charge
  BY TotalOfOne
<1>2. Line(charge) \in Lines
  BY DEF Line, Lines
<1>3. DOMAIN lines = {<<b, "fee">>} /\ lines \in [DOMAIN lines -> Lines] /\ DOMAIN lines \subseteq Bookings \X Parts
  BY <1>2 DEF Parts
<1>4. lines \in LineTables
  BY <1>3, LineTable
<1> HIDE DEF lines
<1>5. RowOk(new)
  BY <1>1, <1>4 DEF RowOk, Invoices, LineTables, LinesTogether
<1>6. \A c \in Bookings \ {b} : ~OnLiveLine(c, new)
  BY <1>3 DEF OnLiveLine, LiveLines
<1> QED
  BY <1>5, <1>6 DEF lines

-----------------------------------------------------------------------------
(* The bookings' bills                                                     *)

\* The tables' rows.
BookingRows ==
    /\ status \in [Bookings -> {"live", "cancelled", "cancelled_weather"}]
    /\ fees \in [Bookings -> Nat] /\ cot \in [Bookings -> Nat]
InvoiceRows == invoices \in Seq(Invoices) /\ \A i \in DOMAIN invoices : RowOk(invoices[i])
CashRows ==
    /\ payments \in Seq(Payments) /\ \A p \in DOMAIN payments : payments[p].invoice \in DOMAIN invoices
    /\ refunds \in Seq(Refunds) /\ \A r \in DOMAIN refunds : refunds[r].invoice \in DOMAIN invoices
    /\ deposits \in Seq(Deposits) /\ paidOut \subseteq DOMAIN refunds

\* One live invoice bills a booking, for its fees and less its cash on tour; a booking's invoices
\* follow its status.
OneBill == \A b \in Bookings, i, j \in DOMAIN invoices : Bills(b, invoices[i]) /\ Bills(b, invoices[j]) => i = j
BillsCharges ==
    \A b \in Bookings, i \in DOMAIN invoices : Bills(b, invoices[i]) =>
        Amount(b, invoices[i], "fee") = fees[b] /\ Amount(b, invoices[i], "cot") = -cot[b]
BillsInv == OneBill /\ BillsCharges /\ BillsFollowStatus

\* A row after a step: as it was, or voided, or with a booking's lines off.
RowStands(old, new) ==
    /\ RowOk(new) /\ new.kind = old.kind /\ (old.voided => new = old)
    /\ \A b \in Bookings : ~new.voided => SameFor(b, old, new) \/ \A part \in Parts : ~Shows(b, new, part)

LEMMA StandingRow ==
    ASSUME NEW old, NEW new, RowOk(old), RowStands(old, new), NEW b \in Bookings
    PROVE  /\ Bills(b, new) => Bills(b, old) /\ SameFor(b, old, new)
           /\ ~new.voided /\ OnLiveLine(b, new) => ~old.voided /\ OnLiveLine(b, old)
<1>1. old \in Invoices /\ new \in Invoices
  BY DEF RowOk, RowStands
<1>2. ~new.voided => ~old.voided
  BY DEF RowStands
<1>3. /\ OnLiveLine(b, old) <=> \E part \in Parts : Shows(b, old, part)
      /\ OnLiveLine(b, new) <=> \E part \in Parts : Shows(b, new, part)
  BY <1>1, RowShows
<1>4. ~new.voided /\ (\E part \in Parts : Shows(b, new, part)) => SameFor(b, old, new)
  BY DEF RowStands
<1>5. Bills(b, new) => SameFor(b, old, new)
  BY <1>4 DEF Bills, Parts
<1> QED
  BY <1>2, <1>3, <1>4, <1>5 DEF SameFor, Bills, Parts, RowStands

LEMMA BillingIsBills ==
    ASSUME InvoiceRows, NEW b \in Bookings
    PROVE  Billing(b) = {i \in DOMAIN invoices : Bills(b, invoices[i])}
<1>1. \A i \in DOMAIN invoices : invoices[i] \in Invoices
  BY DEF InvoiceRows, RowOk
<1>2. \A i \in DOMAIN invoices :
        (\E k \in LiveLines(invoices[i].lines) : k[1] = b /\ k[2] # "cot")
            <=> Shows(b, invoices[i], "trip") \/ Shows(b, invoices[i], "fee")
  BY <1>1, RowShows
<1> QED
  BY <1>2 DEF Billing, Bills

\* The bills when rows stand: only the rows of one booking may have changed its status.
LEMMA RowsStand ==
    ASSUME InvoiceRows, BillsInv, fees' = fees, cot' = cot,
           DOMAIN invoices' = DOMAIN invoices, \A i \in DOMAIN invoices : RowStands(invoices[i], invoices'[i]),
           \A b \in Bookings, i \in DOMAIN invoices : ~invoices'[i].voided /\ OnLiveLine(b, invoices'[i]) =>
               ((invoices[i].kind = "cancellation") = (status'[b] = "cancelled"))
    PROVE  BillsInv'
<1>1. \A i \in DOMAIN invoices : RowOk(invoices[i]) /\ RowStands(invoices[i], invoices'[i])
  BY DEF InvoiceRows, RowOk
<1>2. \A b \in Bookings, i \in DOMAIN invoices :
        Bills(b, invoices'[i]) => Bills(b, invoices[i]) /\ SameFor(b, invoices[i], invoices'[i])
  BY <1>1, StandingRow
<1>3. OneBill'
  BY <1>2 DEF OneBill, BillsInv
<1>4. BillsCharges'
  <2> SUFFICES ASSUME NEW b \in Bookings, NEW i \in DOMAIN invoices, Bills(b, invoices'[i])
               PROVE  Amount(b, invoices'[i], "fee") = fees[b] /\ Amount(b, invoices'[i], "cot") = -cot[b]
    BY DEF BillsCharges
  <2>1. Bills(b, invoices[i]) /\ SameFor(b, invoices[i], invoices'[i])
    BY <1>2
  <2>2. Amount(b, invoices[i], "fee") = fees[b] /\ Amount(b, invoices[i], "cot") = -cot[b]
    BY <2>1 DEF BillsInv, BillsCharges
  <2> QED
    BY <2>1, <2>2 DEF SameFor, Parts
<1>5. \A i \in DOMAIN invoices : invoices'[i].kind = invoices[i].kind
  BY DEF RowStands
<1>6. BillsFollowStatus'
  BY <1>5 DEF BillsFollowStatus
<1> QED
  BY <1>3, <1>4, <1>6 DEF BillsInv

LEMMA RowStays == ASSUME NEW row, RowOk(row) PROVE RowStands(row, row)
  BY DEF RowStands, SameFor

LEMMA RowVoided ==
    ASSUME NEW row, RowOk(row)
    PROVE  RowStands(row, [row EXCEPT !.voided = TRUE]) /\ [row EXCEPT !.voided = TRUE].voided
<1> DEFINE new == [row EXCEPT !.voided = TRUE]
<1>1. RowOk(new) /\ new.voided /\ (row.voided => new = row)
  BY VoidedRow
<1>2. new.kind = row.kind
  BY DEF RowOk, Invoices
<1> HIDE DEF new
<1>3. RowStands(row, new)
  BY <1>1, <1>2 DEF RowStands
<1> QED
  BY <1>1, <1>3 DEF new

-----------------------------------------------------------------------------
(* What the requests do to the bills                                       *)

\* What a step leaves of the bills, and of the invoices there were.
BillsStand ==
    /\ BookingRows' /\ InvoiceRows' /\ BillsInv'
    /\ DOMAIN invoices \subseteq DOMAIN invoices'
    /\ \A i \in DOMAIN invoices : invoices[i].voided => invoices'[i] = invoices[i]

LEMMA RowsOfSeq ==
    ASSUME InvoiceRows, NEW new, new = [i \in DOMAIN invoices |-> new[i]], \A i \in DOMAIN invoices : RowOk(new[i])
    PROVE  new \in Seq(Invoices) /\ DOMAIN new = DOMAIN invoices /\ Len(new) = Len(invoices)
<1>1. DOMAIN invoices = 1..Len(invoices) /\ Len(invoices) \in Nat
  BY DEF InvoiceRows
<1>2. \A i \in 1..Len(invoices) : new[i] \in Invoices
  BY <1>1 DEF RowOk
<1> QED
  BY <1>1, <1>2

LEMMA OthersStand ==
    ASSUME BookingRows, InvoiceRows, BillsInv, UNCHANGED <<fees, cot>>, BookingRows',
           invoices' = [i \in DOMAIN invoices |-> invoices'[i]],
           \A i \in DOMAIN invoices : RowStands(invoices[i], invoices'[i]),
           \A b \in Bookings, i \in DOMAIN invoices : ~invoices'[i].voided /\ OnLiveLine(b, invoices'[i]) =>
               ((invoices[i].kind = "cancellation") = (status'[b] = "cancelled"))
    PROVE  BillsStand
<1>1. DOMAIN invoices' = DOMAIN invoices
  OBVIOUS
<1>2. BillsInv'
  BY <1>1, RowsStand
<1>3. \A i \in DOMAIN invoices : RowOk(invoices'[i]) /\ (invoices[i].voided => invoices'[i] = invoices[i])
  BY DEF RowStands
<1>4. invoices' \in Seq(Invoices)
  <2>1. PICK new : new = invoices'
    OBVIOUS
  <2>2. new = [i \in DOMAIN invoices |-> new[i]] /\ \A i \in DOMAIN invoices : RowOk(new[i])
    BY <1>3, <2>1
  <2>3. new \in Seq(Invoices)
    BY <2>2, RowsOfSeq
  <2> QED
    BY <2>1, <2>3
<1> QED
  BY <1>1, <1>2, <1>3, <1>4 DEF BillsStand, InvoiceRows

\* A step that leaves every booking its status.
LEMMA SameStatusStands ==
    ASSUME BookingRows, InvoiceRows, BillsInv, UNCHANGED booking,
           invoices' = [i \in DOMAIN invoices |-> invoices'[i]],
           \A i \in DOMAIN invoices : RowStands(invoices[i], invoices'[i])
    PROVE  BillsStand
<1>1. \A i \in DOMAIN invoices : RowOk(invoices[i]) /\ RowStands(invoices[i], invoices'[i])
  BY DEF InvoiceRows
<1>2. \A b \in Bookings, i \in DOMAIN invoices : ~invoices'[i].voided /\ OnLiveLine(b, invoices'[i]) =>
        ~invoices[i].voided /\ OnLiveLine(b, invoices[i])
  BY <1>1, StandingRow
<1>3. \A b \in Bookings, i \in DOMAIN invoices : ~invoices'[i].voided /\ OnLiveLine(b, invoices'[i]) =>
        ((invoices[i].kind = "cancellation") = (status'[b] = "cancelled"))
  BY <1>2 DEF BillsInv, BillsFollowStatus, booking
<1>4. BookingRows'
  BY DEF BookingRows, booking
<1> QED
  BY <1>3, <1>4, OthersStand DEF booking

LEMMA BillsUntouched ==
    ASSUME BookingRows, InvoiceRows, BillsInv, UNCHANGED <<booking, invoices>>
    PROVE  BillsStand
<1>1. \A i \in DOMAIN invoices : RowStands(invoices[i], invoices'[i])
  BY RowStays DEF InvoiceRows
<1>2. invoices' = [i \in DOMAIN invoices |-> invoices'[i]]
  BY DEF InvoiceRows
<1> QED
  BY <1>1, <1>2, SameStatusStands DEF booking

LEMMA DiscountBills ==
    ASSUME BookingRows, InvoiceRows, BillsInv, NEW i \in DOMAIN invoices, NEW k \in DOMAIN invoices[i].lines,
           NEW d \in Discounts, SetDiscount(i, k, d)
    PROVE  BillsStand
<1> DEFINE new == WithLines(invoices[i], [invoices[i].lines EXCEPT ![k].discount = d])
<1>1. RowOk(invoices[i]) /\ ~invoices[i].voided
  BY DEF InvoiceRows, SetDiscount
<1>2. RowOk(new) /\ new.kind = invoices[i].kind /\ new.voided = invoices[i].voided
      /\ \A b \in Bookings : SameFor(b, invoices[i], new)
  BY <1>1, DiscountRow
<1>3. invoices' = [invoices EXCEPT ![i] = new]
  BY DEF SetDiscount
<1> HIDE DEF new
<1>4. RowStands(invoices[i], new)
  BY <1>1, <1>2 DEF RowStands
<1>5. \A j \in DOMAIN invoices : RowStands(invoices[j], invoices'[j])
  BY <1>3, <1>4, RowStays DEF InvoiceRows
<1>6. invoices' = [j \in DOMAIN invoices |-> invoices'[j]]
  BY <1>3 DEF InvoiceRows
<1>7. UNCHANGED booking
  BY DEF SetDiscount
<1> QED
  BY <1>5, <1>6, <1>7, SameStatusStands

LEMMA VoidBills ==
    ASSUME BookingRows, InvoiceRows, BillsInv, NEW i \in DOMAIN invoices, Void(i)
    PROVE  BillsStand
<1>1. invoices' = [invoices EXCEPT ![i] = [invoices[i] EXCEPT !.voided = TRUE]]
  BY DEF Void
<1>2. \A j \in DOMAIN invoices : RowStands(invoices[j], invoices[j]) /\ RowStands(invoices[j], [invoices[j] EXCEPT !.voided = TRUE])
  BY RowStays, RowVoided DEF InvoiceRows
<1>3. \A j \in DOMAIN invoices : RowStands(invoices[j], invoices'[j])
  BY <1>1, <1>2
<1>4. invoices' = [j \in DOMAIN invoices |-> invoices'[j]]
  BY <1>1 DEF InvoiceRows
<1>5. UNCHANGED booking
  BY DEF Void
<1> QED
  BY <1>3, <1>4, <1>5, SameStatusStands

LEMMA VoidForStands ==
    ASSUME InvoiceRows, NEW b \in Bookings, NEW rows, NEW new, new = VoidFor(b, rows)
    PROVE  /\ new = [i \in DOMAIN invoices |-> new[i]]
           /\ \A i \in DOMAIN invoices : /\ RowStands(invoices[i], new[i])
                                         /\ Names(b, invoices[i]) /\ i \in rows => new[i].voided
<1>1. \A i \in DOMAIN invoices : new[i] = IF Names(b, invoices[i]) /\ i \in rows
                                          THEN [invoices[i] EXCEPT !.voided = TRUE] ELSE invoices[i]
  BY DEF VoidFor
<1>2. \A i \in DOMAIN invoices : RowStands(invoices[i], invoices[i]) /\ RowStands(invoices[i], [invoices[i] EXCEPT !.voided = TRUE])
                                 /\ [invoices[i] EXCEPT !.voided = TRUE].voided
  BY RowStays, RowVoided DEF InvoiceRows
<1>3. new = [i \in DOMAIN invoices |-> new[i]]
  BY DEF VoidFor
<1> QED
  BY <1>1, <1>2, <1>3

LEMMA LiveLineNames ==
    ASSUME NEW inv \in Invoices, NEW b \in Bookings, OnLiveLine(b, inv) PROVE Names(b, inv)
<1>1. PICK part \in Parts : Shows(b, inv, part)
  BY RowShows
<1> QED
  BY <1>1 DEF Names, Shows, LiveLines

LEMMA RestoreBills ==
    ASSUME BookingRows, InvoiceRows, BillsInv, NEW b \in Bookings, Restore(b)
    PROVE  BillsStand
<1> DEFINE rows == {i \in DOMAIN invoices : invoices[i].kind = "cancellation"}
<1>1. invoices' = VoidFor(b, rows) /\ status' = [status EXCEPT ![b] = "live"] /\ status[b] # "live" /\ UNCHANGED <<fees, cot>>
  BY DEF Restore, InvoicesOnRestore
<1>2. /\ invoices' = [i \in DOMAIN invoices |-> invoices'[i]]
      /\ \A i \in DOMAIN invoices : RowStands(invoices[i], invoices'[i])
      /\ \A i \in DOMAIN invoices : Names(b, invoices[i]) /\ i \in rows => invoices'[i].voided
  <2>1. PICK new : new = invoices'
    OBVIOUS
  <2>2. new = VoidFor(b, rows)
    BY <1>1, <2>1
  <2> HIDE DEF rows
  <2>3. /\ new = [i \in DOMAIN invoices |-> new[i]]
        /\ \A i \in DOMAIN invoices : RowStands(invoices[i], new[i]) /\ (Names(b, invoices[i]) /\ i \in rows => new[i].voided)
    BY <2>2, VoidForStands
  <2> QED
    BY <2>1, <2>3
<1>3. BookingRows'
  BY <1>1 DEF BookingRows
<1>4. ASSUME NEW c \in Bookings, NEW i \in DOMAIN invoices, ~invoices'[i].voided, OnLiveLine(c, invoices'[i])
      PROVE  (invoices[i].kind = "cancellation") = (status'[c] = "cancelled")
  <2>1. RowOk(invoices[i]) /\ RowStands(invoices[i], invoices'[i]) /\ invoices[i] \in Invoices
    BY <1>2 DEF InvoiceRows, RowOk
  <2>2. ~invoices[i].voided /\ OnLiveLine(c, invoices[i])
    BY <1>4, <2>1, StandingRow
  <2>3. (invoices[i].kind = "cancellation") = (status[c] = "cancelled")
    BY <2>2 DEF BillsInv, BillsFollowStatus
  <2>4. CASE c = b
    <3>1. Names(b, invoices[i])
      BY <2>1, <2>2, <2>4, LiveLineNames
    <3>2. invoices[i].kind # "cancellation"
      BY <1>2, <1>4, <3>1
    <3> QED
      BY <1>1, <2>4, <3>2 DEF BookingRows
  <2>5. CASE c # b
    BY <1>1, <2>3, <2>5 DEF BookingRows
  <2> QED
    BY <2>4, <2>5
<1> QED
  BY <1>1, <1>2, <1>3, <1>4, OthersStand

\* A step that adds an invoice, of bookings no other live invoice bills.
LEMMA AddedBills ==
    ASSUME BookingRows, InvoiceRows, BillsInv, UNCHANGED <<fees, cot>>, BookingRows',
           NEW old, old = [i \in DOMAIN invoices |-> old[i]], NEW row, RowOk(row), invoices' = Append(old, row),
           \A i \in DOMAIN invoices : RowStands(invoices[i], old[i]),
           \A b \in Bookings, i \in DOMAIN invoices : ~old[i].voided /\ OnLiveLine(b, old[i]) =>
               ((invoices[i].kind = "cancellation") = (status'[b] = "cancelled")),
           \A b \in Bookings : OnLiveLine(b, row) => ((row.kind = "cancellation") = (status'[b] = "cancelled")),
           \A b \in Bookings : Bills(b, row) =>
               /\ \A i \in DOMAIN invoices : ~Bills(b, old[i])
               /\ Amount(b, row, "fee") = fees[b] /\ Amount(b, row, "cot") = -cot[b]
    PROVE  BillsStand
<1> DEFINE n == Len(invoices) + 1
<1>1. \A i \in DOMAIN invoices : RowOk(invoices[i]) /\ RowOk(old[i]) /\ RowStands(invoices[i], old[i])
  BY DEF InvoiceRows, RowStands
<1>2. old \in Seq(Invoices) /\ DOMAIN old = DOMAIN invoices /\ Len(old) = Len(invoices)
  BY <1>1, RowsOfSeq
<1>3. row \in Invoices
  BY DEF RowOk
<1>4. /\ invoices' \in Seq(Invoices) /\ DOMAIN invoices' = DOMAIN invoices \cup {n} /\ n \notin DOMAIN invoices
      /\ invoices'[n] = row /\ \A i \in DOMAIN invoices : invoices'[i] = old[i]
  <2>1. Len(invoices) \in Nat /\ DOMAIN invoices = 1..Len(invoices)
    BY DEF InvoiceRows
  <2> QED
    BY <1>2, <1>3, <2>1
<1> HIDE DEF n
<1>5. InvoiceRows'
  BY <1>1, <1>4 DEF InvoiceRows
<1>6. \A b \in Bookings, i \in DOMAIN invoices : Bills(b, old[i]) => Bills(b, invoices[i]) /\ SameFor(b, invoices[i], old[i])
  BY <1>1, StandingRow
<1>7. \A b \in Bookings : ~ \E i \in DOMAIN invoices : Bills(b, row) /\ Bills(b, old[i])
  OBVIOUS
<1>8. OneBill'
  <2> SUFFICES ASSUME NEW b \in Bookings, NEW i \in DOMAIN invoices', NEW j \in DOMAIN invoices',
                      Bills(b, invoices'[i]), Bills(b, invoices'[j])
               PROVE  i = j
    BY DEF OneBill
  <2>1. CASE i \in DOMAIN invoices /\ j \in DOMAIN invoices
    BY <1>4, <1>6, <2>1 DEF BillsInv, OneBill
  <2>2. CASE ~(i \in DOMAIN invoices /\ j \in DOMAIN invoices)
    BY <1>4, <1>7, <2>2
  <2> QED
    BY <2>1, <2>2
<1>9. BillsCharges'
  <2> SUFFICES ASSUME NEW b \in Bookings, NEW i \in DOMAIN invoices', Bills(b, invoices'[i])
               PROVE  Amount(b, invoices'[i], "fee") = fees[b] /\ Amount(b, invoices'[i], "cot") = -cot[b]
    BY DEF BillsCharges
  <2>1. CASE i = n
    BY <1>4, <2>1
  <2>2. CASE i \in DOMAIN invoices
    <3>1. Bills(b, invoices[i]) /\ SameFor(b, invoices[i], old[i])
      BY <1>4, <1>6, <2>2
    <3>2. Amount(b, invoices[i], "fee") = fees[b] /\ Amount(b, invoices[i], "cot") = -cot[b]
      BY <2>2, <3>1 DEF BillsInv, BillsCharges
    <3> QED
      BY <1>4, <2>2, <3>1, <3>2 DEF SameFor, Parts
  <2> QED
    BY <1>4, <2>1, <2>2
<1>10. \A i \in DOMAIN invoices : old[i].kind = invoices[i].kind
  BY DEF RowStands
<1>11. BillsFollowStatus'
  BY <1>4, <1>10 DEF BillsFollowStatus
<1>12. \A i \in DOMAIN invoices : invoices[i].voided => invoices'[i] = invoices[i]
  BY <1>4 DEF RowStands
<1> QED
  BY <1>4, <1>5, <1>8, <1>9, <1>11, <1>12 DEF BillsStand, BillsInv

LEMMA CancelBills ==
    ASSUME BookingRows, InvoiceRows, BillsInv, NEW b \in Bookings, NEW charge \in Charges, Cancel(b, charge)
    PROVE  BillsStand
<1> DEFINE fee == [kind |-> "cancellation", lines |-> [k \in {<<b, "fee">>} |-> Line(charge)],
                   total |-> charge, voided |-> FALSE]
<1>1. /\ status' = [status EXCEPT ![b] = "cancelled"] /\ UNCHANGED <<fees, cot>>
      /\ invoices' = IF charge > 0 THEN Append(VoidFor(b, DOMAIN invoices), fee) ELSE VoidFor(b, DOMAIN invoices)
  BY DEF Cancel, InvoicesOnCancel
<1>2. charge \in Nat
  BY LedgerAssumption
<1>3. RowOk(fee) /\ fee.kind = "cancellation" /\ \A c \in Bookings \ {b} : ~OnLiveLine(c, fee)
  BY <1>2, ChargeRow
<1> HIDE DEF fee
<1>4. PICK old : old = VoidFor(b, DOMAIN invoices)
  OBVIOUS
<1>5. /\ old = [i \in DOMAIN invoices |-> old[i]]
      /\ \A i \in DOMAIN invoices : RowStands(invoices[i], old[i])
      /\ \A i \in DOMAIN invoices : Names(b, invoices[i]) => old[i].voided
  BY <1>4, VoidForStands
<1>6. BookingRows'
  BY <1>1 DEF BookingRows
<1>7. ASSUME NEW c \in Bookings, NEW i \in DOMAIN invoices, ~old[i].voided, OnLiveLine(c, old[i])
      PROVE  (invoices[i].kind = "cancellation") = (status'[c] = "cancelled")
  <2>1. RowOk(invoices[i]) /\ RowStands(invoices[i], old[i]) /\ invoices[i] \in Invoices
    BY <1>5 DEF InvoiceRows, RowOk
  <2>2. ~invoices[i].voided /\ OnLiveLine(c, invoices[i])
    BY <1>7, <2>1, StandingRow
  <2>3. (invoices[i].kind = "cancellation") = (status[c] = "cancelled")
    BY <2>2 DEF BillsInv, BillsFollowStatus
  <2>4. c # b
    BY <1>5, <1>7, <2>1, <2>2, LiveLineNames
  <2> QED
    BY <1>1, <2>3, <2>4 DEF BookingRows
<1>8. CASE charge > 0
  <2>1. invoices' = Append(old, fee)
    BY <1>1, <1>4, <1>8
  <2>2. \A c \in Bookings : OnLiveLine(c, fee) => ((fee.kind = "cancellation") = (status'[c] = "cancelled"))
    BY <1>1, <1>3 DEF BookingRows
  <2>3. \A c \in Bookings : ~Bills(c, fee)
    BY <1>3 DEF Bills
  <2> QED
    BY <1>1, <1>3, <1>5, <1>6, <1>7, <2>1, <2>2, <2>3, AddedBills
<1>9. CASE ~(charge > 0)
  <2>1. invoices' = old
    BY <1>1, <1>4, <1>9
  <2> QED
    BY <1>1, <1>5, <1>6, <1>7, <2>1, OthersStand
<1> QED
  BY <1>8, <1>9

LEMMA IssueBills ==
    ASSUME BookingRows, InvoiceRows, BillsInv, NEW bs \in (SUBSET Bookings) \ {{}}, Issue(bs)
    PROVE  BillsStand
<1> DEFINE lines == [k \in UNION {DOMAIN LinesOf(b) : b \in bs} |-> LinesOf(k[1])[k]]
           new == [kind |-> "booking", lines |-> lines, total |-> InvoiceTotal(lines), voided |-> FALSE]
<1>1. /\ \A b \in bs : status[b] = "live" /\ ~Invoiced(b)
      /\ invoices' = Append(invoices, new) /\ UNCHANGED booking
  BY DEF Issue
<1>2. /\ RowOk(new) /\ \A b \in Bookings \ bs : \A part \in Parts : ~Shows(b, new, part)
      /\ \A b \in bs : Amount(b, new, "fee") = fees[b] /\ Amount(b, new, "cot") = -cot[b]
  BY IssuedRow DEF BookingRows
<1>3. new.kind = "booking"
  OBVIOUS
<1> HIDE DEF new
<1>4. \A i \in DOMAIN invoices : RowStands(invoices[i], invoices[i]) /\ invoices[i] \in Invoices
  BY RowStays DEF InvoiceRows, RowOk
<1>5. invoices = [i \in DOMAIN invoices |-> invoices[i]]
  BY DEF InvoiceRows
<1>6. \A b \in Bookings : OnLiveLine(b, new) => b \in bs
  BY <1>2, RowShows DEF RowOk
<1>7. \A b \in Bookings : Bills(b, new) => b \in bs
  BY <1>2 DEF Bills, Parts
<1>8. ASSUME NEW b \in bs, NEW i \in DOMAIN invoices PROVE ~Bills(b, invoices[i])
  <2>1. OnLiveLine(b, invoices[i]) <=> \E part \in Parts : Shows(b, invoices[i], part)
    BY <1>4, RowShows
  <2> QED
    BY <1>1, <2>1 DEF Invoiced, Bills, Parts
<1>9. BookingRows'
  BY <1>1 DEF BookingRows, booking
<1>10. UNCHANGED <<fees, cot, status>>
  BY <1>1 DEF booking
<1>11. \A b \in Bookings, i \in DOMAIN invoices : ~invoices[i].voided /\ OnLiveLine(b, invoices[i]) =>
         ((invoices[i].kind = "cancellation") = (status'[b] = "cancelled"))
  BY <1>10 DEF BillsInv, BillsFollowStatus
<1>12. \A b \in Bookings : OnLiveLine(b, new) => ((new.kind = "cancellation") = (status'[b] = "cancelled"))
  BY <1>1, <1>3, <1>6, <1>10
<1>13. \A b \in Bookings : Bills(b, new) =>
         /\ \A i \in DOMAIN invoices : ~Bills(b, invoices[i])
         /\ Amount(b, new, "fee") = fees[b] /\ Amount(b, new, "cot") = -cot[b]
  BY <1>2, <1>7, <1>8
<1> QED
  BY <1>1, <1>2, <1>4, <1>5, <1>9, <1>10, <1>11, <1>12, <1>13, AddedBills

LEMMA WeatherBills ==
    ASSUME BookingRows, InvoiceRows, BillsInv, NEW b \in Bookings, NEW outcome \in Outcomes, CancelWeather(b, outcome)
    PROVE  BillsStand
<1> DEFINE share == ShareOn(b)
<1>1. /\ status[b] = "live" /\ status' = [status EXCEPT ![b] = "cancelled_weather"] /\ UNCHANGED <<fees, cot>>
      /\ invoices' = [i \in DOMAIN invoices |-> IF i \in share THEN ShareOff(b, invoices[i]) ELSE invoices[i]]
  BY DEF CancelWeather
<1>2. \A i \in share : i \in DOMAIN invoices /\ ~invoices[i].voided /\ invoices[i].kind = "booking"
  BY DEF ShareOn
<1>3. ASSUME NEW i \in share PROVE RowStands(invoices[i], ShareOff(b, invoices[i]))
  <2>1. RowOk(invoices[i]) /\ ~invoices[i].voided
    BY <1>2 DEF InvoiceRows
  <2>2. PICK new : new = ShareOff(b, invoices[i])
    OBVIOUS
  <2>3. /\ RowOk(new) /\ new.kind = invoices[i].kind
        /\ ~new.voided => /\ \A part \in Parts : ~Shows(b, new, part)
                          /\ \A c \in Bookings \ {b} : SameFor(c, invoices[i], new)
    BY <2>1, <2>2, ShareOffRow
  <2> QED
    BY <2>1, <2>2, <2>3 DEF RowStands
<1>4. \A i \in DOMAIN invoices : RowStands(invoices[i], invoices[i])
  BY RowStays DEF InvoiceRows
<1> HIDE DEF share
<1>5. \A i \in DOMAIN invoices : RowStands(invoices[i], invoices'[i])
  BY <1>1, <1>3, <1>4
<1>6. invoices' = [i \in DOMAIN invoices |-> invoices'[i]]
  BY <1>1
<1>7. BookingRows'
  BY <1>1 DEF BookingRows
<1>8. ASSUME NEW c \in Bookings, NEW i \in DOMAIN invoices, ~invoices'[i].voided, OnLiveLine(c, invoices'[i])
      PROVE  (invoices[i].kind = "cancellation") = (status'[c] = "cancelled")
  <2>1. RowOk(invoices[i]) /\ RowStands(invoices[i], invoices'[i])
    BY <1>5 DEF InvoiceRows
  <2>2. ~invoices[i].voided /\ OnLiveLine(c, invoices[i])
    BY <1>8, <2>1, StandingRow
  <2>3. (invoices[i].kind = "cancellation") = (status[c] = "cancelled")
    BY <2>2 DEF BillsInv, BillsFollowStatus
  <2>4. (status'[c] = "cancelled") = (status[c] = "cancelled")
    BY <1>1 DEF BookingRows
  <2> QED
    BY <2>3, <2>4
<1> QED
  BY <1>1, <1>5, <1>6, <1>7, <1>8, OthersStand

\* A change to the invoice that bills a booking, if one does.
LEMMA BillingChanged ==
    ASSUME BookingRows, InvoiceRows, BillsInv, NEW b \in Bookings, NEW i \in DOMAIN invoices, Bills(b, invoices[i]),
           NEW new, RowOk(new), new.kind = invoices[i].kind, new.voided = invoices[i].voided,
           \A c \in Bookings \ {b} : SameFor(c, invoices[i], new),
           invoices' = [invoices EXCEPT ![i] = new], BookingRows', UNCHANGED status,
           \A c \in Bookings \ {b} : fees'[c] = fees[c] /\ cot'[c] = cot[c],
           Amount(b, new, "fee") = fees'[b], Amount(b, new, "cot") = -cot'[b]
    PROVE  BillsStand
<1>1. /\ invoices' = [j \in DOMAIN invoices |-> invoices'[j]] /\ DOMAIN invoices' = DOMAIN invoices
      /\ invoices'[i] = new /\ \A j \in DOMAIN invoices \ {i} : invoices'[j] = invoices[j]
  BY DEF InvoiceRows
<1>2. \A j \in DOMAIN invoices : RowOk(invoices'[j])
  BY <1>1 DEF InvoiceRows
<1>3. InvoiceRows'
  <2>1. PICK rows : rows = invoices'
    OBVIOUS
  <2>2. rows = [j \in DOMAIN invoices |-> rows[j]] /\ \A j \in DOMAIN invoices : RowOk(rows[j])
    BY <1>1, <1>2, <2>1
  <2>3. rows \in Seq(Invoices)
    BY <2>2, RowsOfSeq
  <2> QED
    BY <1>1, <1>2, <2>1, <2>3 DEF InvoiceRows
<1>4. \A c \in Bookings \ {b} : Bills(c, new) <=> Bills(c, invoices[i])
  BY SameBills
<1>5. OneBill'
  <2> SUFFICES ASSUME NEW c \in Bookings, NEW j \in DOMAIN invoices, NEW k \in DOMAIN invoices,
                      Bills(c, invoices'[j]), Bills(c, invoices'[k])
               PROVE  j = k
    BY <1>1 DEF OneBill
  <2>1. \A m \in DOMAIN invoices : Bills(c, invoices'[m]) => Bills(c, invoices[m])
    BY <1>1, <1>4
  <2> QED
    BY <2>1 DEF BillsInv, OneBill
<1>6. BillsCharges'
  <2> SUFFICES ASSUME NEW c \in Bookings, NEW j \in DOMAIN invoices, Bills(c, invoices'[j])
               PROVE  Amount(c, invoices'[j], "fee") = fees'[c] /\ Amount(c, invoices'[j], "cot") = -cot'[c]
    BY <1>1 DEF BillsCharges
  <2>1. CASE c = b
    <3>1. Bills(b, invoices[j])
      BY <1>1, <2>1
    <3>2. j = i
      BY <3>1 DEF BillsInv, OneBill
    <3> QED
      BY <1>1, <2>1, <3>2
  <2>2. CASE c # b
    <3>1. Bills(c, invoices[j]) /\ Amount(c, invoices'[j], "fee") = Amount(c, invoices[j], "fee")
                                /\ Amount(c, invoices'[j], "cot") = Amount(c, invoices[j], "cot")
      BY <1>1, <1>4, <2>2 DEF SameFor, Parts
    <3>2. Amount(c, invoices[j], "fee") = fees[c] /\ Amount(c, invoices[j], "cot") = -cot[c]
      BY <3>1 DEF BillsInv, BillsCharges
    <3> QED
      BY <2>2, <3>1, <3>2
  <2> QED
    BY <2>1, <2>2
<1>7. ASSUME NEW c \in Bookings, NEW j \in DOMAIN invoices, ~invoices'[j].voided, OnLiveLine(c, invoices'[j])
      PROVE  ~invoices[j].voided /\ OnLiveLine(c, invoices[j])
  <2>1. invoices[j] \in Invoices /\ invoices'[j] \in Invoices
    BY <1>2 DEF InvoiceRows, RowOk
  <2>2. CASE j = i
    <3>1. OnLiveLine(c, invoices[i]) <=> \E part \in Parts : Shows(c, invoices[i], part)
      BY <2>1, <2>2, RowShows
    <3>2. OnLiveLine(c, new) <=> \E part \in Parts : Shows(c, new, part)
      BY <1>1, <2>1, <2>2, RowShows
    <3>3. CASE c = b
      BY <2>2, <3>1, <3>3 DEF Bills, Parts
    <3>4. CASE c # b
      BY <1>1, <1>7, <2>2, <3>1, <3>2, <3>4 DEF SameFor
    <3> QED
      BY <3>3, <3>4
  <2>3. CASE j # i
    BY <1>1, <1>7, <2>3
  <2> QED
    BY <2>2, <2>3
<1>8. \A j \in DOMAIN invoices : invoices'[j].kind = invoices[j].kind
  BY <1>1
<1>9. BillsFollowStatus'
  BY <1>1, <1>7, <1>8 DEF BillsInv, BillsFollowStatus
<1>10. \A j \in DOMAIN invoices : invoices[j].voided => invoices'[j] = invoices[j]
  BY <1>1 DEF Bills
<1> QED
  BY <1>1, <1>3, <1>5, <1>6, <1>9, <1>10 DEF BillsStand, BillsInv

\* A booking no invoice bills may be charged.
LEMMA UnbilledCharged ==
    ASSUME BookingRows, InvoiceRows, BillsInv, NEW b \in Bookings, Billing(b) = {}, UNCHANGED <<invoices, status>>,
           BookingRows', \A c \in Bookings \ {b} : fees'[c] = fees[c] /\ cot'[c] = cot[c]
    PROVE  BillsStand
<1>1. \A i \in DOMAIN invoices : ~Bills(b, invoices[i])
  BY BillingIsBills
<1>2. BillsCharges'
  BY <1>1 DEF BillsInv, BillsCharges
<1>3. InvoiceRows' /\ OneBill' /\ BillsFollowStatus'
  BY DEF InvoiceRows, BillsInv, OneBill, BillsFollowStatus
<1> QED
  BY <1>2, <1>3 DEF BillsStand, BillsInv

LEMMA NewestBilling ==
    ASSUME InvoiceRows, OneBill, NEW b \in Bookings, Billing(b) # {}
    PROVE  Newest(Billing(b)) \in DOMAIN invoices /\ Bills(b, invoices[Newest(Billing(b))])
<1>1. Billing(b) = {i \in DOMAIN invoices : Bills(b, invoices[i])}
  BY BillingIsBills
<1>2. PICK i \in DOMAIN invoices : i \in Billing(b)
  BY <1>1
<1>3. \A j \in Billing(b) : j = i
  BY <1>1, <1>2 DEF OneBill
<1>4. i <= i
  BY DEF InvoiceRows
<1>5. \E k \in Billing(b) : \A j \in Billing(b) : j <= k
  BY <1>2, <1>3, <1>4
<1>6. Newest(Billing(b)) \in Billing(b)
  BY <1>5 DEF Newest
<1> QED
  BY <1>1, <1>6

LEMMA FeeBills ==
    ASSUME BookingRows, InvoiceRows, BillsInv, NEW b \in Bookings, NEW charge \in Charges, RescheduleFee(b, charge)
    PROVE  BillsStand
<1>1. /\ charge > 0 /\ fees' = [fees EXCEPT ![b] = fees[b] + charge] /\ UNCHANGED <<status, cot>>
      /\ invoices' = IF Billing(b) = {} THEN invoices
                     ELSE [invoices EXCEPT ![Newest(Billing(b))] = WithFee(b, invoices[Newest(Billing(b))], charge)]
  BY DEF RescheduleFee, OnBilling
<1>2. charge \in Nat \ {0}
  BY <1>1, LedgerAssumption
<1>3. BookingRows' /\ fees'[b] = fees[b] + charge /\ \A c \in Bookings \ {b} : fees'[c] = fees[c] /\ cot'[c] = cot[c]
  BY <1>1, <1>2 DEF BookingRows
<1>4. CASE Billing(b) = {}
  BY <1>1, <1>3, <1>4, UnbilledCharged
<1>5. CASE Billing(b) # {}
  <2> DEFINE i == Newest(Billing(b))
  <2>1. i \in DOMAIN invoices /\ Bills(b, invoices[i])
    BY <1>5, NewestBilling DEF BillsInv
  <2>2. invoices' = [invoices EXCEPT ![i] = WithFee(b, invoices[i], charge)]
    BY <1>1, <1>5
  <2> HIDE DEF i
  <2>3. RowOk(invoices[i])
    BY <2>1 DEF InvoiceRows
  <2>4. PICK new : new = WithFee(b, invoices[i], charge)
    OBVIOUS
  <2>5. /\ RowOk(new) /\ new.kind = invoices[i].kind /\ new.voided = invoices[i].voided
        /\ \A c \in Bookings \ {b} : SameFor(c, invoices[i], new)
        /\ Amount(b, new, "fee") = Amount(b, invoices[i], "fee") + charge
        /\ Amount(b, new, "cot") = Amount(b, invoices[i], "cot")
    BY <1>2, <2>1, <2>3, <2>4, FeeRow
  <2>6. Amount(b, invoices[i], "fee") = fees[b] /\ Amount(b, invoices[i], "cot") = -cot[b]
    BY <2>1 DEF BillsInv, BillsCharges
  <2>7. Amount(b, new, "fee") = fees'[b] /\ Amount(b, new, "cot") = -cot'[b]
    BY <1>1, <1>3, <2>5, <2>6
  <2>8. invoices' = [invoices EXCEPT ![i] = new]
    BY <2>2, <2>4
  <2> QED
    BY <1>1, <1>3, <2>1, <2>5, <2>7, <2>8, BillingChanged
<1> QED
  BY <1>4, <1>5

LEMMA CotBills ==
    ASSUME BookingRows, InvoiceRows, BillsInv, NEW b \in Bookings, NEW amount \in 0..CashOnTour, DecideCot(b, amount)
    PROVE  BillsStand
<1>1. /\ cot' = [cot EXCEPT ![b] = amount] /\ UNCHANGED <<status, fees>>
      /\ invoices' = IF Billing(b) = {} THEN invoices
                     ELSE [invoices EXCEPT ![Newest(Billing(b))] = WithCot(b, invoices[Newest(Billing(b))], amount)]
  BY DEF DecideCot, OnBilling
<1>2. amount \in Nat
  BY LedgerAssumption
<1>3. BookingRows' /\ cot'[b] = amount /\ \A c \in Bookings \ {b} : fees'[c] = fees[c] /\ cot'[c] = cot[c]
  BY <1>1, <1>2 DEF BookingRows
<1>4. CASE Billing(b) = {}
  BY <1>1, <1>3, <1>4, UnbilledCharged
<1>5. CASE Billing(b) # {}
  <2> DEFINE i == Newest(Billing(b))
  <2>1. i \in DOMAIN invoices /\ Bills(b, invoices[i])
    BY <1>5, NewestBilling DEF BillsInv
  <2>2. invoices' = [invoices EXCEPT ![i] = WithCot(b, invoices[i], amount)]
    BY <1>1, <1>5
  <2> HIDE DEF i
  <2>3. RowOk(invoices[i])
    BY <2>1 DEF InvoiceRows
  <2>4. PICK new : new = WithCot(b, invoices[i], amount)
    OBVIOUS
  <2>5. /\ RowOk(new) /\ new.kind = invoices[i].kind /\ new.voided = invoices[i].voided
        /\ \A c \in Bookings \ {b} : SameFor(c, invoices[i], new)
        /\ Amount(b, new, "fee") = Amount(b, invoices[i], "fee") /\ Amount(b, new, "cot") = -amount
    BY <1>2, <2>3, <2>4, CotRow
  <2>6. Amount(b, invoices[i], "fee") = fees[b]
    BY <2>1 DEF BillsInv, BillsCharges
  <2>7. Amount(b, new, "fee") = fees'[b] /\ Amount(b, new, "cot") = -cot'[b]
    BY <1>1, <1>3, <2>5, <2>6
  <2>8. invoices' = [invoices EXCEPT ![i] = new]
    BY <2>2, <2>4
  <2> QED
    BY <1>1, <1>3, <2>1, <2>5, <2>7, <2>8, BillingChanged
<1> QED
  BY <1>4, <1>5

-----------------------------------------------------------------------------
(* Sums of rows                                                            *)

AmountsOf(S, rows) == SumOf([x \in S |-> rows[x].amount])

LEMMA AmountGrows ==
    ASSUME NEW S, NEW T, IsFiniteSet(T), S \subseteq T, NEW rows, NEW new,
           \A x \in S : rows[x].amount \in Nat /\ rows[x].amount <= new[x].amount, \A x \in T : new[x].amount \in Nat
    PROVE  AmountsOf(S, rows) <= AmountsOf(T, new) /\ AmountsOf(S, rows) \in Nat /\ AmountsOf(T, new) \in Nat
<1>1. PICK f : f = [x \in S |-> rows[x].amount]
  OBVIOUS
<1>2. PICK g : g = [x \in T |-> new[x].amount]
  OBVIOUS
<1>3. f \in [S -> Nat] /\ g \in [T -> Nat] /\ \A x \in S : f[x] <= g[x]
  BY <1>1, <1>2
<1>4. SumOf(f) <= SumOf(g) /\ SumOf(f) \in Nat /\ SumOf(g) \in Nat
  BY <1>3, SumGrows
<1> QED
  BY <1>1, <1>2, <1>4 DEF AmountsOf

\* The rows of S and one more.
OneMoreRow(S, a, rows, new) ==
    /\ IsFiniteSet(S) /\ a \notin S /\ new[a].amount \in Nat
    /\ \A x \in S : rows[x].amount \in Nat /\ new[x].amount = rows[x].amount

LEMMA AmountPlus ==
    ASSUME NEW S, NEW a, NEW rows, NEW new, OneMoreRow(S, a, rows, new)
    PROVE  AmountsOf(S \cup {a}, new) = AmountsOf(S, rows) + new[a].amount
<1> USE DEF OneMoreRow
<1>1. PICK f : f = [x \in S |-> rows[x].amount]
  OBVIOUS
<1>2. PICK g : g = [x \in S \cup {a} |-> new[x].amount]
  OBVIOUS
<1>3. f \in [S -> Nat] /\ g \in [S \cup {a} -> Nat] /\ \A x \in S : g[x] = f[x]
  BY <1>1, <1>2
<1>4. SumOf(g) = SumOf(f) + g[a] /\ SumOf(f) \in Nat /\ SumOf(g) \in Nat
  BY <1>3, SumPlus
<1> QED
  BY <1>1, <1>2, <1>4 DEF AmountsOf

LEMMA AmountOfNone == ASSUME NEW rows PROVE AmountsOf({}, rows) = 0
  BY SumOfNone DEF AmountsOf

CreditRefunds == {r \in DOMAIN refunds : refunds[r].kind = "credit"}
RefundsOf(i) == {r \in DOMAIN refunds : refunds[r].invoice = i}
KeptDeposits == {d \in DOMAIN deposits : ~deposits[d].voided}
CreditPayments == {p \in DOMAIN payments : payments[p].method = "credit" /\ ~payments[p].deleted}

LEMMA CashSums ==
    /\ Credited = AmountsOf(CreditRefunds, refunds) /\ Credited' = AmountsOf(CreditRefunds', refunds')
    /\ Deposited = AmountsOf(KeptDeposits, deposits) /\ Deposited' = AmountsOf(KeptDeposits', deposits')
    /\ Spent = AmountsOf(CreditPayments, payments) /\ Spent' = AmountsOf(CreditPayments', payments')
    /\ \A i : PaidOf(i) = AmountsOf(LivePayments(i), payments) /\ PaidOf(i)' = AmountsOf(LivePayments(i)', payments')
    /\ \A i : ReturnedOf(i) = AmountsOf(RefundsOf(i), refunds) /\ ReturnedOf(i)' = AmountsOf(RefundsOf(i)', refunds')
  BY DEF AmountsOf, Credited, Deposited, Spent, PaidOf, LivePayments, ReturnedOf, CreditRefunds, KeptDeposits,
         CreditPayments, RefundsOf

\* The rows of a table are finite, their amounts and sums natural numbers.
LEMMA RowSums ==
    ASSUME NEW Rows, NEW rows \in Seq(Rows), \A x \in Rows : x.amount \in Nat, NEW S \in SUBSET DOMAIN rows
    PROVE  IsFiniteSet(S) /\ (\A x \in S : rows[x].amount \in Nat) /\ AmountsOf(S, rows) \in Nat
<1>1. DOMAIN rows = 1..Len(rows) /\ Len(rows) \in Nat /\ \A x \in DOMAIN rows : rows[x] \in Rows
  OBVIOUS
<1>2. IsFiniteSet(DOMAIN rows)
  BY <1>1, FS_Interval
<1>3. IsFiniteSet(S)
  BY <1>2, FS_Subset
<1>4. \A x \in S : rows[x].amount \in Nat /\ rows[x].amount <= rows[x].amount
  BY <1>1
<1>5. AmountsOf(S, rows) \in Nat
  BY <1>3, <1>4, AmountGrows
<1> QED
  BY <1>3, <1>4, <1>5

\* Rows listed one by one are a sequence.
LEMMA ListIsSeq == ASSUME NEW Rows, NEW k \in Nat, NEW rows \in [1..k -> Rows] PROVE rows \in Seq(Rows) /\ Len(rows) = k
  OBVIOUS

LEMMA RowAmounts ==
    /\ \A x \in Refunds : x.amount \in Nat
    /\ \A x \in Deposits : x.amount \in Nat
    /\ \A x \in Payments : x.amount \in Nat
  BY DEF Refunds, Deposits, Payments

LEMMA RefundSums ==
    ASSUME NEW rows \in Seq(Refunds), NEW S \in SUBSET DOMAIN rows
    PROVE  IsFiniteSet(S) /\ (\A x \in S : rows[x].amount \in Nat) /\ AmountsOf(S, rows) \in Nat
  BY RowSums, RowAmounts

LEMMA DepositSums ==
    ASSUME NEW rows \in Seq(Deposits), NEW S \in SUBSET DOMAIN rows
    PROVE  IsFiniteSet(S) /\ (\A x \in S : rows[x].amount \in Nat) /\ AmountsOf(S, rows) \in Nat
  BY RowSums, RowAmounts

LEMMA PaymentSums ==
    ASSUME NEW rows \in Seq(Payments), NEW S \in SUBSET DOMAIN rows
    PROVE  IsFiniteSet(S) /\ (\A x \in S : rows[x].amount \in Nat) /\ AmountsOf(S, rows) \in Nat
  BY RowSums, RowAmounts

LEMMA CashNats ==
    ASSUME CashRows
    PROVE  /\ Credited \in Nat /\ Deposited \in Nat /\ Spent \in Nat
           /\ \A i : PaidOf(i) \in Nat /\ ReturnedOf(i) \in Nat
<1>1. /\ CreditRefunds \subseteq DOMAIN refunds /\ KeptDeposits \subseteq DOMAIN deposits
      /\ CreditPayments \subseteq DOMAIN payments
      /\ \A i : LivePayments(i) \subseteq DOMAIN payments /\ RefundsOf(i) \subseteq DOMAIN refunds
  BY DEF CreditRefunds, KeptDeposits, CreditPayments, LivePayments, RefundsOf
<1>2. refunds \in Seq(Refunds) /\ deposits \in Seq(Deposits) /\ payments \in Seq(Payments)
  BY DEF CashRows
<1>3. Credited \in Nat /\ \A i : ReturnedOf(i) \in Nat
  BY <1>1, <1>2, RefundSums, CashSums
<1>4. Deposited \in Nat
  BY <1>1, <1>2, DepositSums, CashSums
<1>5. Spent \in Nat /\ \A i : PaidOf(i) \in Nat
  BY <1>1, <1>2, PaymentSums, CashSums
<1> QED
  BY <1>3, <1>4, <1>5

LEMMA CashNatsNext ==
    ASSUME CashRows'
    PROVE  /\ Credited' \in Nat /\ Deposited' \in Nat /\ Spent' \in Nat
           /\ \A i : PaidOf(i)' \in Nat /\ ReturnedOf(i)' \in Nat
<1>1. /\ CreditRefunds' \subseteq DOMAIN refunds' /\ KeptDeposits' \subseteq DOMAIN deposits'
      /\ CreditPayments' \subseteq DOMAIN payments'
      /\ \A i : LivePayments(i)' \subseteq DOMAIN payments' /\ RefundsOf(i)' \subseteq DOMAIN refunds'
  BY DEF CreditRefunds, KeptDeposits, CreditPayments, LivePayments, RefundsOf
<1>2. refunds' \in Seq(Refunds) /\ deposits' \in Seq(Deposits) /\ payments' \in Seq(Payments)
  BY DEF CashRows
<1>3. Credited' \in Nat /\ \A i : ReturnedOf(i)' \in Nat
  BY <1>1, <1>2, RefundSums, CashSums
<1>4. Deposited' \in Nat
  BY <1>1, <1>2, DepositSums, CashSums
<1>5. Spent' \in Nat /\ \A i : PaidOf(i)' \in Nat
  BY <1>1, <1>2, PaymentSums, CashSums
<1> QED
  BY <1>3, <1>4, <1>5

-----------------------------------------------------------------------------
(* What the requests do to the cash                                        *)

\* Nothing is returned that was not paid, by whichever invoice.
ReturnsWerePaid == \A i \in Nat : i \notin corrected => ReturnedOf(i) <= PaidOf(i)
CashInv == CreditNeverOverdrawn /\ ReturnsWerePaid
\* What a step leaves of the cash and of its record.
CashStands ==
    /\ CashRows' /\ CashInv'
    /\ \A p \in DOMAIN payments : payments[p].deleted => payments'[p] = payments[p]
    /\ \A p \in DOMAIN payments' \ DOMAIN payments : ~invoices[payments'[p].invoice].voided
    /\ \A r \in DOMAIN refunds : refunds'[r] = refunds[r]
    /\ \A d \in DOMAIN deposits : deposits[d].voided => deposits'[d] = deposits[d]

LEMMA CashUntouched ==
    ASSUME CashRows, CashInv, DOMAIN invoices \subseteq DOMAIN invoices',
           UNCHANGED <<payments, refunds, deposits, corrected>>, paidOut' \subseteq DOMAIN refunds
    PROVE  CashStands
<1>1. CashRows'
  BY DEF CashRows
<1>2. Credited' = Credited /\ Deposited' = Deposited /\ Spent' = Spent
  BY DEF Credited, Deposited, Spent
<1>3. ASSUME NEW i \in Nat PROVE PaidOf(i)' = PaidOf(i) /\ ReturnedOf(i)' = ReturnedOf(i)
  BY DEF PaidOf, LivePayments, ReturnedOf
<1>4. CreditNeverOverdrawn'
  BY <1>2 DEF CashInv, CreditNeverOverdrawn, Available
<1>5. ReturnsWerePaid'
  BY <1>3 DEF CashInv, ReturnsWerePaid
<1> QED
  BY <1>1, <1>4, <1>5 DEF CashStands, CashInv

LEMMA DepositCash ==
    ASSUME CashRows, CashInv, NEW amount \in Amounts, Deposit(amount)
    PROVE  CashStands
<1>1. /\ deposits' = Append(deposits, [amount |-> amount, voided |-> FALSE])
      /\ UNCHANGED <<invoices, payments, refunds, paidOut, corrected>>
  BY DEF Deposit
<1>2. amount \in Nat \ {0}
  BY LedgerAssumption
<1>3. deposits \in Seq(Deposits) /\ [amount |-> amount, voided |-> FALSE] \in Deposits
  BY <1>2 DEF CashRows, Deposits
<1>4. /\ deposits' \in Seq(Deposits) /\ DOMAIN deposits \subseteq DOMAIN deposits'
      /\ \A d \in DOMAIN deposits : deposits'[d] = deposits[d]
  BY <1>1, <1>3
<1>5. CashRows'
  BY <1>1, <1>4 DEF CashRows
<1>6. Credited' = Credited /\ Spent' = Spent
  BY <1>1 DEF Credited, Spent
<1>7. Deposited <= Deposited'
  <2>1. KeptDeposits \subseteq KeptDeposits'
    BY <1>4 DEF KeptDeposits
  <2>2. IsFiniteSet(KeptDeposits') /\ \A d \in KeptDeposits' : deposits'[d].amount \in Nat
    <3>1. KeptDeposits' \in SUBSET DOMAIN deposits'
      BY DEF KeptDeposits
    <3> QED
      BY <1>4, <3>1, DepositSums
  <2>3. \A d \in KeptDeposits : deposits[d].amount \in Nat /\ deposits[d].amount <= deposits'[d].amount
    <3>1. KeptDeposits \in SUBSET DOMAIN deposits
      BY DEF KeptDeposits
    <3>2. \A d \in KeptDeposits : deposits[d].amount \in Nat /\ deposits'[d] = deposits[d]
      BY <1>3, <1>4, <3>1, DepositSums
    <3> QED
      BY <3>2
  <2>4. AmountsOf(KeptDeposits, deposits) <= AmountsOf(KeptDeposits', deposits')
    BY <2>1, <2>2, <2>3, AmountGrows
  <2> QED
    BY <2>4, CashSums
<1>8. ASSUME NEW i \in Nat PROVE PaidOf(i)' = PaidOf(i) /\ ReturnedOf(i)' = ReturnedOf(i)
  BY <1>1 DEF PaidOf, LivePayments, ReturnedOf
<1>9. CreditNeverOverdrawn'
  <2>1. Credited \in Nat /\ Deposited \in Nat /\ Spent \in Nat
    BY CashNats
  <2>2. Deposited' \in Nat
    BY <1>5, CashNatsNext
  <2>3. Credited + Deposited - Spent >= 0
    BY DEF CashInv, CreditNeverOverdrawn, Available
  <2>4. \A x, y, z, w \in Nat : x + y - z >= 0 /\ y <= w => x + w - z >= 0
    OBVIOUS
  <2>5. Credited + Deposited' - Spent >= 0
    BY <1>7, <2>1, <2>2, <2>3, <2>4
  <2>6. Credited' + Deposited' - Spent' >= 0
    BY <1>6, <2>5, Zenon
  <2> QED
    BY <2>6 DEF CreditNeverOverdrawn, Available
<1>10. ReturnsWerePaid'
  BY <1>1, <1>8 DEF CashInv, ReturnsWerePaid
<1> QED
  BY <1>1, <1>4, <1>5, <1>9, <1>10 DEF CashStands, CashInv

LEMMA VoidDepositCash ==
    ASSUME CashRows, CashInv, NEW d \in DOMAIN deposits, VoidDeposit(d)
    PROVE  CashStands
<1>1. /\ ~deposits[d].voided /\ deposits[d].amount <= Available
      /\ deposits' = [deposits EXCEPT ![d] = [deposits[d] EXCEPT !.voided = TRUE]]
      /\ UNCHANGED <<invoices, payments, refunds, paidOut, corrected>>
  BY DEF VoidDeposit
<1>2. deposits \in Seq(Deposits) /\ deposits[d] \in Deposits
      /\ [deposits[d] EXCEPT !.voided = TRUE] \in Deposits /\ [deposits[d] EXCEPT !.voided = TRUE].voided
  <2>1. deposits \in Seq(Deposits)
    BY DEF CashRows
  <2>2. deposits[d] \in Deposits
    BY <2>1
  <2> QED
    BY <2>1, <2>2 DEF Deposits
<1>3. /\ deposits' \in Seq(Deposits) /\ DOMAIN deposits' = DOMAIN deposits
      /\ deposits'[d] = [deposits[d] EXCEPT !.voided = TRUE] /\ \A x \in DOMAIN deposits : x # d => deposits'[x] = deposits[x]
  BY <1>1, <1>2
<1>4. CashRows'
  BY <1>1, <1>3 DEF CashRows
<1>5. Credited' = Credited /\ Spent' = Spent
  BY <1>1 DEF Credited, Spent
<1>6. Deposited = Deposited' + deposits[d].amount
  <2>1. deposits'[d].voided
    BY <1>2, <1>3
  <2>2. KeptDeposits = KeptDeposits' \cup {d} /\ d \notin KeptDeposits' /\ KeptDeposits' \subseteq DOMAIN deposits
    BY <1>1, <1>3, <2>1 DEF KeptDeposits
  <2>3. IsFiniteSet(KeptDeposits') /\ deposits[d].amount \in Nat
        /\ \A x \in KeptDeposits' : deposits'[x].amount \in Nat /\ deposits[x].amount = deposits'[x].amount
    <3>1. \A S \in SUBSET DOMAIN deposits : IsFiniteSet(S) /\ \A x \in S : deposits[x].amount \in Nat
      BY <1>2, DepositSums
    <3>2. IsFiniteSet(KeptDeposits') /\ \A x \in KeptDeposits' : deposits[x].amount \in Nat
      BY <2>2, <3>1
    <3>3. deposits[d].amount \in Nat
      BY <2>2, <1>2 DEF Deposits
    <3>4. \A x \in KeptDeposits' : deposits'[x] = deposits[x]
      BY <1>3, <2>2
    <3> QED
      BY <3>2, <3>3, <3>4
  <2>4. AmountsOf(KeptDeposits' \cup {d}, deposits) = AmountsOf(KeptDeposits', deposits') + deposits[d].amount
    <3>1. PICK S : S = KeptDeposits'
      OBVIOUS
    <3>2. PICK new : new = deposits'
      OBVIOUS
    <3>3. OneMoreRow(S, d, new, deposits)
      BY <2>2, <2>3, <3>1, <3>2 DEF OneMoreRow
    <3>4. AmountsOf(S \cup {d}, deposits) = AmountsOf(S, new) + deposits[d].amount
      BY <3>3, AmountPlus
    <3> QED
      BY <3>1, <3>2, <3>4
  <2> QED
    BY <2>2, <2>4, CashSums
<1>7. ASSUME NEW i \in Nat PROVE PaidOf(i)' = PaidOf(i) /\ ReturnedOf(i)' = ReturnedOf(i)
  BY <1>1 DEF PaidOf, LivePayments, ReturnedOf
<1>8. CreditNeverOverdrawn'
  <2>1. Credited \in Nat /\ Deposited \in Nat /\ Spent \in Nat /\ deposits[d].amount \in Nat
    BY <1>2, CashNats DEF Deposits
  <2>2. Deposited' \in Nat
    BY <1>4, CashNatsNext
  <2> QED
    BY <1>1, <1>5, <1>6, <2>1, <2>2 DEF CreditNeverOverdrawn, Available
<1>9. ReturnsWerePaid'
  BY <1>1, <1>7 DEF CashInv, ReturnsWerePaid
<1> QED
  BY <1>1, <1>3, <1>4, <1>8, <1>9 DEF CashStands, CashInv

LEMMA AmountSame ==
    ASSUME NEW S, NEW rows, NEW new, \A x \in S : new[x].amount = rows[x].amount
    PROVE  AmountsOf(S, new) = AmountsOf(S, rows)
<1>1. [x \in S |-> new[x].amount] = [x \in S |-> rows[x].amount]
  OBVIOUS
<1> QED
  BY <1>1 DEF AmountsOf

\* What is credited, deposited and spent may change as long as the credit left is enough.
LEMMA CreditLeft ==
    ASSUME CashRows, CashRows', Credited <= Credited', Deposited' = Deposited,
           Spent' <= Spent \/ \E amount \in Nat : amount <= Available /\ Spent' = Spent + amount, CashInv
    PROVE  CreditNeverOverdrawn'
<1>1. Credited \in Nat /\ Deposited \in Nat /\ Spent \in Nat
  BY CashNats
<1>2. Credited' \in Nat /\ Spent' \in Nat
  BY CashNatsNext
<1>3. Credited + Deposited - Spent >= 0
  BY DEF CashInv, CreditNeverOverdrawn, Available
<1>4. Spent' <= Spent \/ \E amount \in Nat : amount <= Credited + Deposited - Spent /\ Spent' = Spent + amount
  BY DEF Available
<1>5. \A c, d, s, e, t \in Nat : c + d - s >= 0 /\ c <= e
          /\ (t <= s \/ \E amount \in Nat : amount <= c + d - s /\ t = s + amount) => e + d - t >= 0
  OBVIOUS
<1>6. Credited' + Deposited - Spent' >= 0
  BY <1>1, <1>2, <1>3, <1>4, <1>5
<1>7. Credited' + Deposited' - Spent' >= 0
  BY <1>6, Zenon
<1> QED
  BY <1>7 DEF CreditNeverOverdrawn, Available

LEMMA RecordCash ==
    ASSUME CashRows, CashInv, InvoiceRows, NEW i \in DOMAIN invoices, NEW amount \in Amounts, NEW method \in Methods,
           NEW anyway \in Overrides, RecordPayment(i, amount, method, anyway)
    PROVE  CashStands
<1> DEFINE row == [invoice |-> i, amount |-> amount, method |-> method, deleted |-> FALSE]
<1>0. PICK n : n = Len(payments) + 1
  OBVIOUS
<1>1. /\ ~invoices[i].voided /\ (method = "credit" => amount <= Available)
      /\ payments' = Append(payments, row) /\ UNCHANGED <<invoices, refunds, deposits, paidOut, corrected>>
  BY DEF RecordPayment, CreditCovers
<1>2. amount \in Nat \ {0} /\ i \in Nat \ {0}
  BY LedgerAssumption DEF InvoiceRows
<1>3. payments \in Seq(Payments) /\ row \in Payments
  BY <1>2 DEF CashRows, Payments
<1>4. row.invoice = i /\ row.amount = amount /\ row.method = method /\ ~row.deleted
  OBVIOUS
<1> HIDE DEF row
<1>5. /\ payments' \in Seq(Payments) /\ DOMAIN payments' = DOMAIN payments \cup {n} /\ n \notin DOMAIN payments
      /\ payments'[n] = row /\ \A p \in DOMAIN payments : payments'[p] = payments[p]
  BY <1>0, <1>1, <1>3
<1>6. CashRows'
  BY <1>1, <1>4, <1>5 DEF CashRows
<1>7. Credited' = Credited /\ Deposited' = Deposited /\ \A j : ReturnedOf(j)' = ReturnedOf(j)
  BY <1>1 DEF Credited, Deposited, ReturnedOf
<1>8. ASSUME NEW j \in Nat PROVE PaidOf(j) <= PaidOf(j)'
  <2>1. PICK S : S = LivePayments(j)
    OBVIOUS
  <2>2. PICK T : T = LivePayments(j)'
    OBVIOUS
  <2>3. PICK new : new = payments'
    OBVIOUS
  <2>4. S \in SUBSET DOMAIN payments /\ T \in SUBSET DOMAIN new /\ S \subseteq T
    BY <1>5, <2>1, <2>2, <2>3 DEF LivePayments
  <2>5. IsFiniteSet(T) /\ \A x \in T : new[x].amount \in Nat
    BY <1>5, <2>3, <2>4, PaymentSums
  <2>6. \A x \in S : payments[x].amount \in Nat
    BY <1>3, <2>4, PaymentSums
  <2>7. \A x \in S : payments[x].amount \in Nat /\ payments[x].amount <= new[x].amount
    <3>1. \A x \in S : new[x] = payments[x]
      BY <1>5, <2>3, <2>4
    <3> QED
      BY <2>6, <3>1
  <2>8. AmountsOf(S, payments) <= AmountsOf(T, new)
    BY <2>4, <2>5, <2>7, AmountGrows
  <2> QED
    BY <2>1, <2>2, <2>3, <2>8, CashSums
<1>9. ReturnsWerePaid'
  <2> SUFFICES ASSUME NEW j \in Nat, j \notin corrected PROVE ReturnedOf(j)' <= PaidOf(j)'
    BY <1>1 DEF ReturnsWerePaid
  <2>1. ReturnedOf(j) <= PaidOf(j) /\ PaidOf(j) <= PaidOf(j)'
    BY <1>8 DEF CashInv, ReturnsWerePaid
  <2>2. ReturnedOf(j) \in Nat /\ PaidOf(j) \in Nat /\ PaidOf(j)' \in Nat
    BY <1>6, CashNats, CashNatsNext
  <2> QED
    BY <1>7, <2>1, <2>2
<1>11. CASE method = "credit"
  <2>1. PICK S : S = CreditPayments
    OBVIOUS
  <2>2. PICK new : new = payments'
    OBVIOUS
  <2>3. CreditPayments' = S \cup {n} /\ S \in SUBSET DOMAIN payments /\ n \notin S
    BY <1>4, <1>5, <1>11, <2>1 DEF CreditPayments
  <2>4. IsFiniteSet(S) /\ \A x \in S : payments[x].amount \in Nat
    BY <1>3, <2>3, PaymentSums
  <2>5. new[n].amount = amount /\ \A x \in S : payments[x].amount \in Nat /\ new[x].amount = payments[x].amount
    <3>1. \A x \in S : new[x] = payments[x]
      BY <1>5, <2>2, <2>3
    <3> QED
      BY <1>4, <1>5, <2>2, <2>4, <3>1
  <2>6. new[n].amount \in Nat
    BY <1>2, <2>5
  <2>7. AmountsOf(S \cup {n}, new) = AmountsOf(S, payments) + new[n].amount
    <3>1. PICK old : old = payments
      OBVIOUS
    <3>2. OneMoreRow(S, n, old, new)
      BY <2>3, <2>4, <2>5, <2>6, <3>1 DEF OneMoreRow
    <3>3. AmountsOf(S \cup {n}, new) = AmountsOf(S, old) + new[n].amount
      BY <3>2, AmountPlus
    <3> QED
      BY <3>1, <3>3
  <2>8. Spent' = Spent + amount
    BY <2>1, <2>2, <2>3, <2>5, <2>7, CashSums
  <2>9. amount \in Nat /\ amount <= Available
    BY <1>1, <1>2, <1>11
  <2>10. Credited \in Nat
    BY CashNats
  <2>11. Credited <= Credited'
    BY <1>7, <2>10
  <2>12. CreditNeverOverdrawn'
    BY <1>6, <1>7, <2>8, <2>9, <2>11, CreditLeft
  <2>13. ReturnsWerePaid'
    BY <1>9
  <2> QED
    BY <1>1, <1>4, <1>5, <1>6, <2>12, <2>13 DEF CashStands, CashInv
<1>10. CASE method # "credit"
  <2>1. PICK S : S = CreditPayments
    OBVIOUS
  <2>2. PICK new : new = payments'
    OBVIOUS
  <2>3. CreditPayments' = S /\ \A x \in S : new[x] = payments[x]
    BY <1>4, <1>5, <1>10, <2>1, <2>2 DEF CreditPayments
  <2>4. AmountsOf(S, new) = AmountsOf(S, payments)
    BY <2>3, AmountSame
  <2>5. Spent' = Spent
    BY <2>1, <2>2, <2>3, <2>4, CashSums
  <2>6. Credited \in Nat /\ Spent \in Nat
    BY CashNats
  <2>7. Credited <= Credited' /\ Spent' <= Spent
    BY <1>7, <2>5, <2>6
  <2>8. CreditNeverOverdrawn'
    BY <1>6, <1>7, <2>7, CreditLeft
  <2>9. ReturnsWerePaid'
    BY <1>9
  <2> QED
    BY <1>1, <1>4, <1>5, <1>6, <2>8, <2>9 DEF CashStands, CashInv
<1> QED
  BY <1>10, <1>11

LEMMA CorrectCash ==
    ASSUME CashRows, CashInv, NEW p \in DOMAIN payments, NEW deleted \in BOOLEAN, NEW amount \in Amounts,
           NEW anyway \in Overrides, CorrectPayment(p, [deleted |-> deleted, amount |-> amount], anyway)
    PROVE  CashStands
<1> DEFINE i == payments[p].invoice
           was == payments[p].amount
           left == IF deleted THEN 0 ELSE amount
           row == [payments[p] EXCEPT !.deleted = deleted, !.amount = IF deleted THEN was ELSE amount]
<1>1. payments \in Seq(Payments) /\ payments[p] \in Payments /\ amount \in Nat \ {0}
  BY LedgerAssumption DEF CashRows
<1>2. /\ ~payments[p].deleted /\ (deleted \/ payments[p].method # "credit")
      /\ payments' = [payments EXCEPT ![p] = row]
      /\ corrected' = IF left < was THEN corrected \cup {i} ELSE corrected
      /\ UNCHANGED <<invoices, refunds, deposits, paidOut>>
  BY <1>1 DEF CorrectPayment, MayEdit, Payments
<1>3. /\ row \in Payments /\ row.invoice = i /\ row.method = payments[p].method /\ row.deleted = deleted
      /\ row.amount = IF deleted THEN was ELSE amount
  BY <1>1 DEF Payments
<1> HIDE DEF row
<1>4. /\ payments' \in Seq(Payments) /\ DOMAIN payments' = DOMAIN payments
      /\ payments'[p] = row /\ \A x \in DOMAIN payments : x # p => payments'[x] = payments[x]
  BY <1>1, <1>2, <1>3
<1>5. CashRows'
  BY <1>2, <1>3, <1>4 DEF CashRows
<1>6. Credited' = Credited /\ Deposited' = Deposited /\ \A j : ReturnedOf(j)' = ReturnedOf(j)
  BY <1>2 DEF Credited, Deposited, ReturnedOf
<1>7. was \in Nat \ {0}
  BY <1>1 DEF Payments
<1>8. ASSUME NEW j \in Nat, j \notin corrected' PROVE PaidOf(j) <= PaidOf(j)'
  <2>1. PICK S : S = LivePayments(j)
    OBVIOUS
  <2>2. PICK new : new = payments'
    OBVIOUS
  <2>3. PICK T : T = LivePayments(j)'
    OBVIOUS
  <2>4. p \in S => ~deleted /\ was <= amount
    BY <1>1, <1>2, <1>7, <1>8, <2>1 DEF LivePayments
  <2>5. S \in SUBSET DOMAIN payments /\ T \in SUBSET DOMAIN new /\ S \subseteq T
    BY <1>2, <1>3, <1>4, <2>1, <2>2, <2>3, <2>4 DEF LivePayments
  <2>6. IsFiniteSet(T) /\ \A x \in T : new[x].amount \in Nat
    BY <1>4, <2>2, <2>5, PaymentSums
  <2>7. \A x \in S : payments[x].amount \in Nat
    BY <1>1, <2>5, PaymentSums
  <2>8. \A x \in S : payments[x].amount \in Nat /\ payments[x].amount <= new[x].amount
    <3>1. \A x \in S : x # p => new[x] = payments[x]
      BY <1>4, <2>2, <2>5
    <3>2. p \in S => new[p].amount = amount
      BY <1>3, <1>4, <2>2, <2>4
    <3> QED
      BY <1>1, <2>4, <2>7, <3>1, <3>2
  <2>9. AmountsOf(S, payments) <= AmountsOf(T, new)
    BY <2>5, <2>6, <2>8, AmountGrows
  <2> QED
    BY <2>1, <2>2, <2>3, <2>9, CashSums
<1>9. Spent' <= Spent
  <2>1. PICK S : S = CreditPayments
    OBVIOUS
  <2>2. PICK new : new = payments'
    OBVIOUS
  <2>3. PICK T : T = CreditPayments'
    OBVIOUS
  <2>4. T \subseteq S /\ p \notin T /\ S \in SUBSET DOMAIN payments
    BY <1>2, <1>3, <1>4, <2>1, <2>3 DEF CreditPayments
  <2>5. IsFiniteSet(S) /\ \A x \in S : payments[x].amount \in Nat
    BY <1>1, <2>4, PaymentSums
  <2>6. \A x \in T : new[x].amount \in Nat /\ new[x].amount <= payments[x].amount
    <3>1. \A x \in T : new[x] = payments[x]
      BY <1>4, <2>2, <2>4
    <3> QED
      BY <2>4, <2>5, <3>1
  <2>7. AmountsOf(T, new) <= AmountsOf(S, payments)
    BY <2>4, <2>5, <2>6, AmountGrows
  <2> QED
    BY <2>1, <2>2, <2>3, <2>7, CashSums
<1>10. Credited <= Credited'
  <2>1. Credited \in Nat
    BY CashNats
  <2> QED
    BY <1>6, <2>1
<1>11. CreditNeverOverdrawn'
  BY <1>5, <1>6, <1>9, <1>10, CreditLeft
<1>12. ReturnsWerePaid'
  <2> SUFFICES ASSUME NEW j \in Nat, j \notin corrected' PROVE ReturnedOf(j)' <= PaidOf(j)'
    BY DEF ReturnsWerePaid
  <2>1. j \notin corrected
    BY <1>2
  <2>2. ReturnedOf(j) <= PaidOf(j) /\ PaidOf(j) <= PaidOf(j)'
    BY <1>8, <2>1 DEF CashInv, ReturnsWerePaid
  <2>3. ReturnedOf(j) \in Nat /\ PaidOf(j) \in Nat /\ PaidOf(j)' \in Nat
    BY <1>5, CashNats, CashNatsNext
  <2> QED
    BY <1>6, <2>2, <2>3
<1>13. \A x \in DOMAIN payments : payments[x].deleted => payments'[x] = payments[x]
  BY <1>2, <1>4
<1> QED
  BY <1>2, <1>4, <1>5, <1>11, <1>12, <1>13 DEF CashStands, CashInv

\* What is freed comes back no more than it was paid.
LEMMA FreedWasPaid ==
    ASSUME CashRows, NEW i, NEW after, after.total \in Nat, Refundable(i, after) > 0
    PROVE  Refundable(i, after) \in Nat \ {0} /\ ReturnedOf(i) + Refundable(i, after) <= PaidOf(i)
<1>1. PICK paid \in Nat : paid = PaidOf(i)
  BY CashNats
<1>2. PICK back \in Nat : back = ReturnedOf(i)
  BY CashNats
<1>3. PICK asks \in Nat : asks = IF after.voided THEN 0 ELSE after.total
  OBVIOUS
<1>4. Refundable(i, after) = Clip(paid - back - asks)
  BY <1>1, <1>2, <1>3 DEF Refundable
<1>5. Clip(paid - back - asks) > 0 => Clip(paid - back - asks) = paid - back - asks
  BY DEF Clip
<1>6. Clip(paid - back - asks) > 0
  BY <1>4
<1> QED
  BY <1>1, <1>2, <1>4, <1>5, <1>6

\* The refunds added, each of an invoice of its own.
LEMMA RefundsAdded ==
    ASSUME CashRows, CashInv, DOMAIN invoices \subseteq DOMAIN invoices', InvoiceRows,
           UNCHANGED <<payments, deposits, paidOut, corrected>>,
           NEW k \in Nat, NEW added \in [1..k -> Refunds], refunds' = refunds \o added,
           \A n \in 1..k : added[n].invoice \in DOMAIN invoices
                           /\ ReturnedOf(added[n].invoice) + added[n].amount <= PaidOf(added[n].invoice),
           \A n, m \in 1..k : added[n].invoice = added[m].invoice => n = m
    PROVE  CashStands
<1>0. PICK len \in Nat : len = Len(refunds) /\ DOMAIN refunds = 1..len
  BY DEF CashRows
<1>1. /\ refunds' \in Seq(Refunds) /\ DOMAIN refunds' = 1..(len + k)
      /\ \A r \in DOMAIN refunds : refunds'[r] = refunds[r]
      /\ \A n \in 1..k : refunds'[len + n] = added[n]
      /\ \A r \in DOMAIN refunds' : r \in DOMAIN refunds \/ \E n \in 1..k : r = len + n
  <2>1. refunds \in Seq(Refunds) /\ added \in Seq(Refunds) /\ Len(added) = k
    <3>1. added \in Seq(Refunds) /\ Len(added) = k
      BY ListIsSeq
    <3> QED
      BY <3>1 DEF CashRows
  <2>2. refunds' \in Seq(Refunds) /\ Len(refunds') = len + k
    BY <1>0, <2>1
  <2>3. \A r \in 1..(len + k) : refunds'[r] = IF r <= len THEN refunds[r] ELSE added[r - len]
    BY <1>0, <2>1
  <2>4. DOMAIN refunds' = 1..(len + k)
    BY <2>2
  <2>5. \A n \in 1..k : len + n \in 1..(len + k) /\ ~(len + n <= len) /\ (len + n) - len = n
    OBVIOUS
  <2>6. \A r \in 1..(len + k) : r \in 1..len \/ (r - len \in 1..k /\ r = len + (r - len))
    OBVIOUS
  <2>7. \A r \in 1..len : r \in 1..(len + k) /\ r <= len
    OBVIOUS
  <2>8. \A r \in DOMAIN refunds : refunds'[r] = refunds[r]
    BY <1>0, <2>3, <2>7
  <2>9. \A n \in 1..k : refunds'[len + n] = added[n]
    BY <2>3, <2>5
  <2> QED
    BY <1>0, <2>2, <2>4, <2>6, <2>8, <2>9
<1>2. \A n \in 1..k : len + n \in DOMAIN refunds' /\ len + n \notin DOMAIN refunds
  BY <1>0, <1>1
<1>3. CashRows'
  <2>1. \A r \in DOMAIN refunds' : refunds'[r].invoice \in DOMAIN invoices'
    BY <1>1 DEF CashRows
  <2>2. DOMAIN refunds \subseteq DOMAIN refunds'
    BY <1>0, <1>1
  <2> QED
    BY <1>1, <2>1, <2>2 DEF CashRows
<1>4. Deposited' = Deposited /\ Spent' = Spent /\ \A i : PaidOf(i)' = PaidOf(i)
  BY DEF Deposited, Spent, PaidOf, LivePayments
<1>5. PICK old : old = refunds
  OBVIOUS
<1>6. PICK new : new = refunds'
  OBVIOUS
<1>7. old \in Seq(Refunds) /\ new \in Seq(Refunds) /\ \A r \in DOMAIN old : new[r] = old[r]
  BY <1>1, <1>5, <1>6 DEF CashRows
<1>8. Credited <= Credited'
  <2>1. PICK S : S = CreditRefunds
    OBVIOUS
  <2>2. PICK T : T = CreditRefunds'
    OBVIOUS
  <2>3. S \in SUBSET DOMAIN old /\ T \in SUBSET DOMAIN new /\ S \subseteq T
    BY <1>0, <1>1, <1>5, <1>6, <2>1, <2>2 DEF CreditRefunds
  <2>4. IsFiniteSet(T) /\ \A x \in T : new[x].amount \in Nat
    BY <1>7, <2>3, RefundSums
  <2>5. \A x \in S : old[x].amount \in Nat /\ old[x].amount <= new[x].amount
    <3>1. \A x \in S : old[x].amount \in Nat
      BY <1>7, <2>3, RefundSums
    <3>2. \A x \in S : new[x] = old[x]
      BY <1>7, <2>3
    <3> QED
      BY <3>1, <3>2
  <2>6. AmountsOf(S, old) <= AmountsOf(T, new)
    BY <2>3, <2>4, <2>5, AmountGrows
  <2> QED
    BY <1>5, <1>6, <2>1, <2>2, <2>6, CashSums
<1>9. CreditNeverOverdrawn'
  <2>1. Spent \in Nat
    BY CashNats
  <2>2. Spent' <= Spent
    BY <1>4, <2>1
  <2> QED
    BY <1>3, <1>4, <1>8, <2>2, CreditLeft
<1>10. ASSUME NEW i \in Nat, i \notin corrected PROVE ReturnedOf(i)' <= PaidOf(i)
  <2>1. PICK S : S = RefundsOf(i)
    OBVIOUS
  <2>2. PICK T : T = RefundsOf(i)'
    OBVIOUS
  <2>3. S \in SUBSET DOMAIN old /\ \A x \in S : new[x] = old[x]
    BY <1>5, <1>7, <2>1 DEF RefundsOf
  <2>4. ReturnedOf(i) = AmountsOf(S, old) /\ ReturnedOf(i)' = AmountsOf(T, new)
    BY <1>5, <1>6, <2>1, <2>2, CashSums
  <2>5. CASE \E n \in 1..k : added[n].invoice = i
    <3>1. PICK n \in 1..k : added[n].invoice = i
      BY <2>5
    <3>2. PICK a : a = len + n
      OBVIOUS
    <3>3. T = S \cup {a} /\ a \notin S /\ new[a] = added[n]
      <4>1. \A r : r \in T <=> r \in DOMAIN refunds' /\ refunds'[r].invoice = i
        BY <2>2 DEF RefundsOf
      <4>2. \A r : r \in S <=> r \in DOMAIN refunds /\ refunds[r].invoice = i
        BY <2>1 DEF RefundsOf
      <4>3. a \in DOMAIN refunds' /\ a \notin DOMAIN refunds /\ refunds'[a] = added[n]
        BY <1>1, <1>2, <3>2
      <4>4. ASSUME NEW r \in T PROVE r \in S \/ r = a
        <5>1. CASE r \in DOMAIN refunds
          BY <1>1, <4>1, <4>2, <5>1
        <5>2. CASE r \notin DOMAIN refunds
          <6>1. PICK m \in 1..k : r = len + m
            BY <1>1, <4>1, <5>2
          <6>2. added[m].invoice = i
            <7>1. refunds'[r] = added[m]
              BY <1>1, <6>1
            <7>2. refunds'[r].invoice = i
              BY <4>1
            <7> QED
              BY <7>1, <7>2, Zenon
          <6>3. m = n
            BY <3>1, <6>2
          <6> QED
            BY <3>2, <6>1, <6>3
        <5> QED
          BY <5>1, <5>2
      <4>5. ASSUME NEW r \in S PROVE r \in T
        <5>1. r \in DOMAIN refunds'
          BY <1>0, <1>1, <4>2
        <5> QED
          BY <1>1, <4>1, <4>2, <5>1
      <4>6. a \in T
        BY <3>1, <4>1, <4>3
      <4> QED
        BY <1>6, <4>2, <4>3, <4>4, <4>5, <4>6
    <3>4. new[a].amount \in Nat
      BY <3>3, RowAmounts
    <3>5. IsFiniteSet(S) /\ \A x \in S : old[x].amount \in Nat
      BY <1>7, <2>3, RefundSums
    <3>6. OneMoreRow(S, a, old, new)
      BY <2>3, <3>3, <3>4, <3>5 DEF OneMoreRow
    <3>7. AmountsOf(S \cup {a}, new) = AmountsOf(S, old) + new[a].amount
      BY <3>6, AmountPlus
    <3>8. ReturnedOf(i)' = ReturnedOf(i) + added[n].amount
      BY <2>4, <3>3, <3>7
    <3> QED
      BY <3>1, <3>8
  <2>6. CASE ~ \E n \in 1..k : added[n].invoice = i
    <3>1. T = S
      <4>1. \A r : r \in T <=> r \in DOMAIN refunds' /\ refunds'[r].invoice = i
        BY <2>2 DEF RefundsOf
      <4>2. \A r : r \in S <=> r \in DOMAIN refunds /\ refunds[r].invoice = i
        BY <2>1 DEF RefundsOf
      <4>3. ASSUME NEW r \in T PROVE r \in S
        <5>1. CASE r \in DOMAIN refunds
          BY <1>1, <4>1, <4>2, <5>1
        <5>2. CASE r \notin DOMAIN refunds
          <6>1. PICK m \in 1..k : r = len + m
            BY <1>1, <4>1, <5>2
          <6>2. refunds'[r] = added[m] /\ refunds'[r].invoice = i
            BY <1>1, <4>1, <6>1
          <6> QED
            BY <2>6, <6>2, Zenon
        <5> QED
          BY <5>1, <5>2
      <4>4. ASSUME NEW r \in S PROVE r \in T
        <5>1. r \in DOMAIN refunds' /\ refunds'[r] = refunds[r]
          BY <1>0, <1>1, <4>2
        <5> QED
          BY <4>1, <4>2, <5>1
      <4> QED
        BY <4>3, <4>4
    <3>2. AmountsOf(S, new) = AmountsOf(S, old)
      BY <2>3, AmountSame
    <3>3. ReturnedOf(i)' = ReturnedOf(i)
      BY <2>4, <3>1, <3>2
    <3> QED
      BY <1>10, <3>3 DEF CashInv, ReturnsWerePaid
  <2> QED
    BY <2>5, <2>6
<1>11. ReturnsWerePaid'
  BY <1>4, <1>10 DEF ReturnsWerePaid
<1> QED
  BY <1>1, <1>3, <1>9, <1>11 DEF CashStands, CashInv

LEMMA WeatherCash ==
    ASSUME BookingRows, InvoiceRows, CashRows, CashInv, DOMAIN invoices \subseteq DOMAIN invoices',
           NEW b \in Bookings, NEW outcome \in Outcomes, CancelWeather(b, outcome)
    PROVE  CashStands
<1> DEFINE share == ShareOn(b)
           after == [i \in DOMAIN invoices |-> IF i \in share THEN ShareOff(b, invoices[i]) ELSE invoices[i]]
           freed == {i \in share : Refundable(i, after[i]) > 0}
           refund(i) == [kind |-> outcome, invoice |-> i, booking |-> b, amount |-> Refundable(i, after[i])]
<1>1. UNCHANGED <<payments, deposits, paidOut, corrected>>
  BY DEF CancelWeather
<1>2. CASE outcome = "cancel"
  <2>1. refunds' = refunds
    BY <1>2 DEF CancelWeather
  <2>2. paidOut' \subseteq DOMAIN refunds
    BY <1>1 DEF CashRows
  <2> QED
    BY <1>1, <2>1, <2>2, CashUntouched
<1>3. CASE outcome # "cancel"
  <2>1. PICK rows \in [1..Cardinality(freed) -> freed] :
          {rows[n] : n \in DOMAIN rows} = freed /\ refunds' = refunds \o [n \in DOMAIN rows |-> refund(rows[n])]
    BY <1>3 DEF CancelWeather
  <2>2. IsFiniteSet(freed)
    <3>1. freed \subseteq DOMAIN invoices
      BY DEF ShareOn
    <3>2. IsFiniteSet(DOMAIN invoices)
      <4>1. DOMAIN invoices = 1..Len(invoices) /\ Len(invoices) \in Nat
        BY DEF InvoiceRows
      <4> QED
        BY <4>1, FS_Interval
    <3> HIDE DEF freed
    <3> QED
      BY <3>1, <3>2, FS_Subset
  <2>3. \A i \in freed : i \in DOMAIN invoices /\ i \in Nat \ {0} /\ after[i].total \in Nat /\ Refundable(i, after[i]) > 0
    <3> TAKE i \in freed
    <3>1. i \in share /\ i \in DOMAIN invoices /\ Refundable(i, after[i]) > 0 /\ ~invoices[i].voided
      BY DEF ShareOn
    <3>2. RowOk(invoices[i]) /\ i \in Nat \ {0}
      BY <3>1 DEF InvoiceRows
    <3>3. PICK new : new = ShareOff(b, invoices[i])
      OBVIOUS
    <3>4. RowOk(new)
      BY <3>1, <3>2, <3>3, ShareOffRow
    <3>5. after[i] = new
      BY <3>1, <3>3
    <3> QED
      BY <3>1, <3>2, <3>4, <3>5 DEF RowOk, Invoices
  <2>4. \A i \in freed : refund(i) \in Refunds /\ refund(i).invoice = i
                         /\ ReturnedOf(i) + refund(i).amount <= PaidOf(i)
    <3> TAKE i \in freed
    <3>1. i \in Nat \ {0} /\ after[i].total \in Nat /\ Refundable(i, after[i]) > 0
      BY <2>3
    <3>2. PICK row : row = after[i]
      OBVIOUS
    <3>3. Refundable(i, row) \in Nat \ {0} /\ ReturnedOf(i) + Refundable(i, row) <= PaidOf(i)
      BY <3>1, <3>2, FreedWasPaid
    <3> HIDE DEF after
    <3>4. outcome \in {"refund", "credit"}
      BY <1>3 DEF Outcomes
    <3> QED
      BY <3>1, <3>2, <3>3, <3>4 DEF Refunds
  <2> HIDE DEF freed, refund
  <2>5. PICK k \in Nat : k = Cardinality(freed)
    BY <2>2, FS_CardinalityType
  <2>6. rows \in [1..k -> freed] /\ DOMAIN rows = 1..k /\ \A i \in freed : \E n \in 1..k : rows[n] = i
    BY <2>1, <2>5
  <2>7. \A n, m \in 1..k : rows[n] = rows[m] => n = m
    <3>1. rows \in Surjection(1..k, freed)
      BY <2>6 DEF Surjection
    <3>2. IsFiniteSet(1..k) /\ Cardinality(1..k) = k
      BY FS_Interval
    <3>3. rows \in Injection(1..k, freed)
      BY <2>5, <3>1, <3>2, FS_SurjSameCardinalityImpliesInj
    <3> QED
      BY <3>3 DEF Injection, IsInjective
  <2>8. PICK added : added = [n \in 1..k |-> refund(rows[n])]
    OBVIOUS
  <2>9. added \in [1..k -> Refunds] /\ refunds' = refunds \o added
        /\ \A n \in 1..k : added[n] = refund(rows[n]) /\ rows[n] \in freed /\ added[n].invoice = rows[n]
    BY <2>1, <2>4, <2>6, <2>8
  <2>10. \A n \in 1..k : added[n].invoice \in DOMAIN invoices
                         /\ ReturnedOf(added[n].invoice) + added[n].amount <= PaidOf(added[n].invoice)
    BY <2>3, <2>4, <2>9
  <2>11. \A n, m \in 1..k : added[n].invoice = added[m].invoice => n = m
    BY <2>7, <2>9
  <2> QED
    BY <1>1, <2>9, <2>10, <2>11, RefundsAdded
<1> QED
  BY <1>2, <1>3

-----------------------------------------------------------------------------
(* The agent's ledger                                                      *)

LedgerInv == BookingRows /\ InvoiceRows /\ CashRows /\ BillsInv /\ CashInv

LEMMA LedgerStart == ASSUME Init PROVE LedgerInv
<1>1. BookingRows
  BY DEF Init, BookingRows
<1>2. InvoiceRows
  BY DEF Init, InvoiceRows
<1>3. CashRows
  BY DEF Init, CashRows
<1>4. BillsInv
  BY DEF Init, BillsInv, OneBill, BillsCharges, BillsFollowStatus
<1>5. CreditRefunds = {} /\ KeptDeposits = {} /\ CreditPayments = {} /\ \A i : RefundsOf(i) = {} /\ LivePayments(i) = {}
  BY DEF Init, CreditRefunds, KeptDeposits, CreditPayments, RefundsOf, LivePayments
<1>6. Credited = 0 /\ Deposited = 0 /\ Spent = 0 /\ \A i : ReturnedOf(i) = 0 /\ PaidOf(i) = 0
  BY <1>5, CashSums, AmountOfNone
<1>7. CashInv
  BY <1>6 DEF CashInv, CreditNeverOverdrawn, Available, ReturnsWerePaid
<1> QED
  BY <1>1, <1>2, <1>3, <1>4, <1>7 DEF LedgerInv

\* A request leaves the ledger sound and on paper.
LedgerStands == LedgerInv' /\ PaperTrail

LEMMA StandsTogether == ASSUME BillsStand, CashStands PROVE LedgerStands
  BY DEF BillsStand, CashStands, LedgerStands, LedgerInv, PaperTrail

LEMMA MoneyUntouched ==
    ASSUME LedgerInv, BillsStand, UNCHANGED money PROVE LedgerStands
<1>1. UNCHANGED <<payments, refunds, deposits, corrected>> /\ paidOut' \subseteq DOMAIN refunds
  BY DEF money, LedgerInv, CashRows
<1>2. CashStands
  BY <1>1, CashUntouched DEF LedgerInv, BillsStand
<1> QED
  BY <1>2, StandsTogether

LEMMA BookingRequests ==
    ASSUME LedgerInv, NEW b \in Bookings,
           \/ \E charge \in Charges : Cancel(b, charge) \/ RescheduleFee(b, charge)
           \/ Restore(b)
           \/ \E outcome \in Outcomes : CancelWeather(b, outcome)
           \/ \E amount \in 0..CashOnTour : DecideCot(b, amount)
    PROVE  LedgerStands
<1> USE DEF LedgerInv
<1>1. ASSUME NEW charge \in Charges, Cancel(b, charge) PROVE LedgerStands
  <2>1. BillsStand
    BY <1>1, CancelBills
  <2>2. UNCHANGED money
    BY <1>1 DEF Cancel
  <2> QED
    BY <2>1, <2>2, MoneyUntouched
<1>2. ASSUME NEW charge \in Charges, RescheduleFee(b, charge) PROVE LedgerStands
  <2>1. BillsStand
    BY <1>2, FeeBills
  <2>2. UNCHANGED money
    BY <1>2 DEF RescheduleFee
  <2> QED
    BY <2>1, <2>2, MoneyUntouched
<1>3. CASE Restore(b)
  <2>1. BillsStand
    BY <1>3, RestoreBills
  <2>2. UNCHANGED money
    BY <1>3 DEF Restore
  <2> QED
    BY <2>1, <2>2, MoneyUntouched
<1>4. ASSUME NEW outcome \in Outcomes, CancelWeather(b, outcome) PROVE LedgerStands
  <2>1. BillsStand
    BY <1>4, WeatherBills
  <2>2. DOMAIN invoices \subseteq DOMAIN invoices'
    BY <2>1 DEF BillsStand
  <2>3. CashStands
    BY <1>4, <2>2, WeatherCash
  <2> QED
    BY <2>1, <2>3, StandsTogether
<1>5. ASSUME NEW amount \in 0..CashOnTour, DecideCot(b, amount) PROVE LedgerStands
  <2>1. BillsStand
    BY <1>5, CotBills
  <2>2. UNCHANGED money
    BY <1>5 DEF DecideCot
  <2> QED
    BY <2>1, <2>2, MoneyUntouched
<1> QED
  BY <1>1, <1>2, <1>3, <1>4, <1>5

LEMMA InvoiceRequests ==
    ASSUME LedgerInv, NEW i \in DOMAIN invoices,
           \/ \E k \in DOMAIN invoices[i].lines, d \in Discounts : SetDiscount(i, k, d)
           \/ Void(i)
           \/ \E amount \in Amounts, method \in Methods, anyway \in Overrides : RecordPayment(i, amount, method, anyway)
    PROVE  LedgerStands
<1> USE DEF LedgerInv
<1>1. ASSUME NEW k \in DOMAIN invoices[i].lines, NEW d \in Discounts, SetDiscount(i, k, d) PROVE LedgerStands
  <2>1. BillsStand
    BY <1>1, DiscountBills
  <2>2. UNCHANGED money
    BY <1>1 DEF SetDiscount
  <2> QED
    BY <2>1, <2>2, MoneyUntouched
<1>2. CASE Void(i)
  <2>1. BillsStand
    BY <1>2, VoidBills
  <2>2. UNCHANGED money
    BY <1>2 DEF Void
  <2> QED
    BY <2>1, <2>2, MoneyUntouched
<1>3. ASSUME NEW amount \in Amounts, NEW method \in Methods, NEW anyway \in Overrides,
             RecordPayment(i, amount, method, anyway)
      PROVE  LedgerStands
  <2>1. UNCHANGED <<booking, invoices>>
    BY <1>3 DEF RecordPayment
  <2>2. BillsStand
    BY <2>1, BillsUntouched
  <2>3. CashStands
    BY <1>3, RecordCash
  <2> QED
    BY <2>2, <2>3, StandsTogether
<1> QED
  BY <1>1, <1>2, <1>3

LEMMA CashRequests ==
    ASSUME LedgerInv,
           \/ \E p \in DOMAIN payments, deleted \in BOOLEAN, amount \in Amounts, anyway \in Overrides :
                  CorrectPayment(p, [deleted |-> deleted, amount |-> amount], anyway)
           \/ \E amount \in Amounts : Deposit(amount)
           \/ \E d \in DOMAIN deposits : VoidDeposit(d)
           \/ \E r \in DOMAIN refunds : PayOut(r) \/ UndoPayout(r)
    PROVE  LedgerStands
<1> USE DEF LedgerInv
<1>1. UNCHANGED <<booking, invoices>>
  BY DEF CorrectPayment, Deposit, VoidDeposit, PayOut, UndoPayout
<1>2. BillsStand
  BY <1>1, BillsUntouched
<1>3. ASSUME NEW p \in DOMAIN payments, NEW deleted \in BOOLEAN, NEW amount \in Amounts, NEW anyway \in Overrides,
             CorrectPayment(p, [deleted |-> deleted, amount |-> amount], anyway)
      PROVE  CashStands
  BY <1>3, CorrectCash
<1>4. ASSUME NEW amount \in Amounts, Deposit(amount) PROVE CashStands
  BY <1>4, DepositCash
<1>5. ASSUME NEW d \in DOMAIN deposits, VoidDeposit(d) PROVE CashStands
  BY <1>5, VoidDepositCash
<1>6. ASSUME NEW r \in DOMAIN refunds, PayOut(r) \/ UndoPayout(r) PROVE CashStands
  <2>1. UNCHANGED <<payments, refunds, deposits, corrected>> /\ paidOut' \subseteq DOMAIN refunds
    BY <1>6 DEF PayOut, UndoPayout, CashRows
  <2> QED
    BY <1>1, <2>1, CashUntouched
<1>7. CashStands
  BY <1>3, <1>4, <1>5, <1>6
<1> QED
  BY <1>2, <1>7, StandsTogether

LEMMA LedgerStep == ASSUME LedgerInv, [Next]_vars PROVE LedgerStands
<1>1. CASE Next
  <2>1. ASSUME NEW bs \in (SUBSET Bookings) \ {{}}, Issue(bs) PROVE LedgerStands
    <3>1. BillsStand
      BY <2>1, IssueBills DEF LedgerInv
    <3>2. UNCHANGED money
      BY <2>1 DEF Issue
    <3> QED
      BY <3>1, <3>2, MoneyUntouched
  <2> QED
    BY <1>1, <2>1, InvoiceRequests, CashRequests, BookingRequests DEF Next, Request
<1>2. CASE UNCHANGED vars
  <2>1. UNCHANGED booking /\ UNCHANGED invoices /\ UNCHANGED money
    BY <1>2 DEF vars, ledger, booking, money
  <2>2. BillsStand
    BY <2>1, BillsUntouched DEF LedgerInv
  <2> QED
    BY <2>1, <2>2, MoneyUntouched
<1> QED
  BY <1>1, <1>2

\* A booking's part on an invoice is that of its one line.
LEMMA PartIsAmount ==
    ASSUME NEW inv \in Invoices, NEW b \in Bookings, NEW k \in Parts
    PROVE  SumOf([l \in {l \in LiveLines(inv.lines) : l = <<b, k>>} |-> inv.lines[l].amount]) = Amount(b, inv, k)
<1>1. inv.lines \in LineTables
  BY DEF Invoices, LineTables
<1>2. CASE Shows(b, inv, k)
  <2>1. PICK v : v = inv.lines[<<b, k>>].amount
    OBVIOUS
  <2>2. inv.lines[<<b, k>>] \in Lines
    BY <1>1, <1>2, LineTable DEF Shows, LiveLines
  <2>3. v \in Int
    BY <2>1, <2>2 DEF Lines
  <2>4. [l \in {l \in LiveLines(inv.lines) : l = <<b, k>>} |-> inv.lines[l].amount] = [l \in {<<b, k>>} |-> v]
    BY <1>2, <2>1 DEF Shows
  <2>5. SumOf([l \in {<<b, k>>} |-> v]) = v
    BY <2>3, SumOfOne
  <2> QED
    BY <1>2, <2>1, <2>4, <2>5 DEF Amount
<1>3. CASE ~Shows(b, inv, k)
  <2>1. {l \in LiveLines(inv.lines) : l = <<b, k>>} = {}
    BY <1>3 DEF Shows
  <2>2. PICK f : f = [l \in {l \in LiveLines(inv.lines) : l = <<b, k>>} |-> inv.lines[l].amount]
    OBVIOUS
  <2>3. SumOf(f) = 0
    BY <2>1, <2>2, SumOfNone
  <2> QED
    BY <1>3, <2>2, <2>3 DEF Amount
<1> QED
  BY <1>2, <1>3

LEMMA LedgerInvKeeps ==
    ASSUME LedgerInv
    PROVE  TypeOK /\ TotalFollowsLines /\ BilledOnce /\ BillsFollowStatus /\ CreditNeverOverdrawn /\ ReturnedWasPaid
<1> USE DEF LedgerInv
<1>1. \A i \in DOMAIN invoices : RowOk(invoices[i]) /\ invoices[i] \in Invoices /\ i \in Nat
  BY DEF InvoiceRows, RowOk
<1>2. TypeOK
  <2>1. \A i \in DOMAIN invoices : /\ DOMAIN invoices[i].lines \subseteq Bookings \X Parts
                                   /\ \A k \in DOMAIN invoices[i].lines : invoices[i].lines[k] \in Lines
                                   /\ invoices[i].total \in Nat
    <3> TAKE i \in DOMAIN invoices
    <3>1. invoices[i].lines \in LineTables /\ invoices[i].total \in Nat
      BY <1>1 DEF Invoices, LineTables
    <3> QED
      BY <3>1, LineTable
  <2>2. /\ \A p \in DOMAIN payments : payments[p] \in Payments
        /\ \A r \in DOMAIN refunds : refunds[r] \in Refunds
        /\ \A d \in DOMAIN deposits : deposits[d] \in Deposits
    BY DEF CashRows
  <2> QED
    BY <2>1, <2>2 DEF TypeOK, BookingRows, CashRows
<1>3. TotalFollowsLines
  BY <1>1 DEF TotalFollowsLines, RowOk
<1>4. BilledOnce
  <2> SUFFICES ASSUME NEW b \in Bookings
               PROVE  /\ \A i, j \in Billing(b) : i = j
                      /\ \A i \in Billing(b) :
                            /\ SumOf([l \in {l \in LiveLines(invoices[i].lines) : l = <<b, "fee">>} |-> invoices[i].lines[l].amount]) = fees[b]
                            /\ SumOf([l \in {l \in LiveLines(invoices[i].lines) : l = <<b, "cot">>} |-> invoices[i].lines[l].amount]) = -cot[b]
    BY DEF BilledOnce
  <2>1. Billing(b) = {i \in DOMAIN invoices : Bills(b, invoices[i])}
    BY BillingIsBills
  <2>2. \A i, j \in Billing(b) : i = j
    BY <2>1 DEF BillsInv, OneBill
  <2>3. ASSUME NEW i \in Billing(b)
        PROVE  /\ SumOf([l \in {l \in LiveLines(invoices[i].lines) : l = <<b, "fee">>} |-> invoices[i].lines[l].amount]) = fees[b]
               /\ SumOf([l \in {l \in LiveLines(invoices[i].lines) : l = <<b, "cot">>} |-> invoices[i].lines[l].amount]) = -cot[b]
    <3>1. i \in DOMAIN invoices /\ Bills(b, invoices[i]) /\ invoices[i] \in Invoices
      BY <1>1, <2>1
    <3>2. Amount(b, invoices[i], "fee") = fees[b] /\ Amount(b, invoices[i], "cot") = -cot[b]
      BY <3>1 DEF BillsInv, BillsCharges
    <3>3. "fee" \in Parts /\ "cot" \in Parts
      BY DEF Parts
    <3> QED
      BY <3>1, <3>2, <3>3, PartIsAmount
  <2> QED
    BY <2>2, <2>3
<1>5. ReturnedWasPaid
  BY <1>1 DEF ReturnedWasPaid, CashInv, ReturnsWerePaid
<1> QED
  BY <1>2, <1>3, <1>4, <1>5 DEF BillsInv, CashInv

-----------------------------------------------------------------------------
(* The pier's sales and hand-overs                                         *)

HandoverRows == [day : Days, expected : Nat, state : HandoverStates]
PayoutRows == [seller : Sellers, paid : UNION {[S -> Nat \ {0}] : S \in SUBSET SaleItems}, void : BOOLEAN]

\* The tables' rows: a sale's id was handed out, and never again.
PierRows ==
    /\ travels \in [Riders -> Days] /\ live \subseteq Riders
    /\ pierPayments \in Seq(PierPayments)
    /\ DOMAIN saleItem \subseteq SaleItems /\ saleItem \in [DOMAIN saleItem -> Items]
    /\ salesMade \in 0..MaxSales /\ \A x \in DOMAIN saleItem \cap SaleIds : x[2] <= salesMade
    /\ handovers \in Seq(HandoverRows) /\ payouts \in Seq(PayoutRows)
OnePayout == \A x \in SaleItems : \A n, m \in PaidOn(x) : n = m
OneHandover == \A n, m \in DOMAIN handovers :
    handovers[n].day = handovers[m].day /\ handovers[n].state # "void" /\ handovers[m].state # "void" => n = m

PierInv == PierRows /\ OnePayout /\ PaidSaleKeepsTerms /\ OneHandover

LEMMA PierStart == ASSUME PierInit PROVE PierInv
<1>1. DOMAIN saleItem = {} /\ DOMAIN handovers = {} /\ DOMAIN payouts = {} /\ salesMade = 0
  BY DEF PierInit
<1>2. PierRows
  BY <1>1, PierAssumption DEF PierInit, PierRows
<1> QED
  BY <1>1, <1>2 DEF PierInv, OnePayout, PaidSaleKeepsTerms, OneHandover, PaidOn

LEMMA PierRest == ASSUME PierInv, UNCHANGED desk PROVE PierInv'
  BY DEF desk, PierInv, PierRows, OnePayout, PaidSaleKeepsTerms, OneHandover, PaidOn

LEMMA PierInvKeeps == PierInv => CommissionPaidOnce /\ PaidSaleKeepsTerms
<1> SUFFICES ASSUME PierInv PROVE CommissionPaidOnce
  BY DEF PierInv
<1>1. ASSUME NEW x \in SaleItems PROVE Cardinality(PaidOn(x)) <= 1
  <2>1. CASE PaidOn(x) = {}
    BY <2>1, FS_EmptySet
  <2>2. CASE PaidOn(x) # {}
    <3>1. PICK n : PaidOn(x) = {n}
      BY <2>2 DEF PierInv, OnePayout
    <3>2. Cardinality({n}) = 1
      BY FS_Singleton
    <3> QED
      BY <3>1, <3>2
  <2> QED
    BY <2>1, <2>2
<1> QED
  BY <1>1 DEF CommissionPaidOnce

-----------------------------------------------------------------------------
(* Sums of the desk's amounts are amounts                                  *)

LEMMA PaymentsCount ==
    ASSUME PierInv, NEW S \in SUBSET DOMAIN pierPayments
    PROVE  Total([p \in S |-> pierPayments[p].amount]) \in Nat
<1> DEFINE f == [p \in S |-> pierPayments[p].amount]
<1>1. IsFiniteSet(1..Len(pierPayments)) /\ DOMAIN pierPayments = 1..Len(pierPayments)
  <2>1. Len(pierPayments) \in Nat /\ DOMAIN pierPayments = 1..Len(pierPayments)
    BY DEF PierInv, PierRows
  <2> QED
    BY <2>1, FS_Interval
<1>2. IsFiniteSet(S)
  BY <1>1, FS_Subset
<1>3. \A p \in DOMAIN pierPayments : pierPayments[p] \in PierPayments
  BY DEF PierInv, PierRows
<1>4. DOMAIN f = S /\ \A p \in S : f[p] \in Nat
  BY <1>3 DEF PierPayments
<1> QED
  BY <1>2, <1>4, TotalIsNat

LEMMA ItemsCount ==
    ASSUME PierInv, NEW S \in SUBSET DOMAIN saleItem
    PROVE  Total([x \in S |-> saleItem[x].price]) \in Nat
<1> DEFINE f == [x \in S |-> saleItem[x].price]
<1>1. IsFiniteSet(SaleItems)
  <2>1. IsFiniteSet({"tour_sale"}) /\ IsFiniteSet({"upgrade"})
    BY FS_Singleton, Zenon
  <2>2. IsFiniteSet(1..MaxSales)
    BY PierAssumption, FS_Interval
  <2>3. IsFiniteSet(SaleIds) /\ IsFiniteSet(UpgradeIds)
    BY <2>1, <2>2, FS_Product DEF SaleIds, UpgradeIds
  <2> QED
    BY <2>3, FS_Union DEF SaleItems
<1>2. IsFiniteSet(S)
  BY <1>1, FS_Subset DEF PierInv, PierRows
<1>3. DOMAIN f = S /\ \A x \in S : f[x] \in Nat
  BY DEF PierInv, PierRows, Items
<1> QED
  BY <1>2, <1>3, TotalIsNat

LEMMA TakingsCount == ASSUME PierInv, NEW d PROVE Takings(d) \in Nat
<1> DEFINE here == {b \in Riders : travels[b] = d}
           P == {p \in UNION {LiveHere(b, d) : b \in here} : pierPayments[p].method = "cash"}
           X == {x \in UNION {ItemsOf(b) : b \in here} : saleItem[x].method = "cash" /\ DayOf(x) = d}
<1>1. P \in SUBSET DOMAIN pierPayments
  BY DEF LiveHere
<1>2. X \in SUBSET DOMAIN saleItem
  BY DEF ItemsOf
<1>3. Total([p \in P |-> pierPayments[p].amount]) \in Nat
  BY <1>1, PaymentsCount
<1>4. Total([x \in X |-> saleItem[x].price]) \in Nat
  BY <1>2, ItemsCount
<1> HIDE DEF P, X
<1> QED
  BY <1>3, <1>4 DEF Takings, P, X

-----------------------------------------------------------------------------
(* Each request keeps them                                                 *)

LEMMA DeskSteps ==
    ASSUME PierInv, PierRows', UNCHANGED <<saleItem, payouts, handovers>>
    PROVE  PierInv'
  BY DEF PierInv, OnePayout, PaidSaleKeepsTerms, OneHandover, PaidOn

LEMMA PaymentSteps ==
    ASSUME PierInv,
           \/ \E b \in Riders, amount \in PierAmounts, method \in PierMethods, anyway \in PierOverrides :
                 RecordPierPayment(b, amount, method, anyway)
           \/ \E p \in DOMAIN pierPayments : DeletePierPayment(p)
           \/ \E b \in Riders : CancelOrRestore(b) \/ \E d \in Days : Reschedule(b, d)
    PROVE  PierInv'
<1>1. ASSUME NEW b \in Riders, NEW amount \in PierAmounts, NEW method \in PierMethods, NEW anyway \in PierOverrides,
             RecordPierPayment(b, amount, method, anyway)
      PROVE  PierRows'
  <2> DEFINE row == [booking |-> b, day |-> travels[b], amount |-> amount, method |-> method, deleted |-> FALSE]
  <2>1. row \in PierPayments
    BY PierAssumption DEF PierInv, PierRows, PierPayments
  <2>2. pierPayments' = Append(pierPayments, row) /\ UNCHANGED <<travels, live, saleItem, salesMade, handovers, payouts>>
    BY <1>1 DEF RecordPierPayment
  <2> HIDE DEF row
  <2>3. pierPayments' \in Seq(PierPayments)
    BY <2>1, <2>2 DEF PierInv, PierRows
  <2> QED
    BY <2>2, <2>3 DEF PierInv, PierRows
<1>2. ASSUME NEW p \in DOMAIN pierPayments, DeletePierPayment(p) PROVE PierRows'
  <2> DEFINE row == [pierPayments[p] EXCEPT !.deleted = TRUE]
  <2>1. pierPayments[p] \in PierPayments
    BY DEF PierInv, PierRows
  <2>2. row \in PierPayments
    BY <2>1 DEF PierPayments
  <2>3. pierPayments' = [pierPayments EXCEPT ![p] = row]
    BY <1>2 DEF DeletePierPayment
  <2> HIDE DEF row
  <2>4. pierPayments' \in Seq(PierPayments)
    BY <2>2, <2>3 DEF PierInv, PierRows
  <2> QED
    BY <1>2, <2>4 DEF DeletePierPayment, PierInv, PierRows
<1>3. ASSUME NEW b \in Riders, CancelOrRestore(b) \/ \E d \in Days : Reschedule(b, d) PROVE PierRows'
  BY <1>3 DEF CancelOrRestore, Reschedule, PierInv, PierRows
<1>4. UNCHANGED <<saleItem, payouts, handovers>>
  BY DEF RecordPierPayment, DeletePierPayment, CancelOrRestore, Reschedule
<1> QED
  BY <1>1, <1>2, <1>3, <1>4, DeskSteps

LEMMA NewItemTyped ==
    ASSUME NEW b \in Riders, NEW d \in Days, NEW terms \in Terms, NEW seller \in Sellers, NEW method \in SaleMethods
    PROVE  NewItem(b, d, terms, seller, method) \in Items
  BY PierAssumption DEF NewItem, Items

\* A new row, of an id no payout that stands names or of an upgrade's.
LEMMA ItemAdded ==
    ASSUME PierInv, NEW x \in SaleItems, NEW i \in Items, saleItem' = With(saleItem, x, i), x \notin DOMAIN saleItem,
           UNCHANGED <<travels, live, pierPayments, handovers, payouts>>, salesMade' \in salesMade..MaxSales,
           x \in SaleIds => x[2] <= salesMade'
    PROVE  PierInv'
<1>1. DOMAIN saleItem' = DOMAIN saleItem \cup {x} /\ \A y \in DOMAIN saleItem' : saleItem'[y] = IF y = x THEN i ELSE saleItem[y]
  BY DEF With
<1>2. saleItem' \in [DOMAIN saleItem' -> Items]
  BY DEF With, PierInv, PierRows
<1>3. PierRows'
  <2>1. salesMade \in Nat /\ MaxSales \in Nat /\ salesMade' \in 0..MaxSales /\ salesMade <= salesMade'
    BY PierAssumption DEF PierInv, PierRows
  <2>2. \A y \in DOMAIN saleItem' \cap SaleIds : y[2] <= salesMade'
    <3> TAKE y \in DOMAIN saleItem' \cap SaleIds
    <3>1. y[2] \in Int
      BY DEF SaleIds
    <3> QED
      BY <1>1, <2>1, <3>1 DEF PierInv, PierRows
  <2> QED
    BY <1>1, <1>2, <2>1, <2>2 DEF PierInv, PierRows
<1>4. \A y : PaidOn(y)' = PaidOn(y)
  BY DEF PaidOn
<1>5. PaidSaleKeepsTerms'
  BY <1>1, <1>4 DEF PierInv, PaidSaleKeepsTerms
<1> QED
  BY <1>3, <1>4, <1>5 DEF PierInv, OnePayout, OneHandover

\* A row rewritten in place.
LEMMA ItemEdited ==
    ASSUME PierInv, NEW x \in DOMAIN saleItem, NEW i \in Items, saleItem' = [saleItem EXCEPT ![x] = i],
           x \in SaleIds => MayReterm(x, i),
           UNCHANGED <<travels, live, pierPayments, handovers, payouts, salesMade>>
    PROVE  PierInv'
<1>1. saleItem \in [DOMAIN saleItem -> Items]
  BY DEF PierInv, PierRows
<1>2. DOMAIN saleItem' = DOMAIN saleItem /\ \A y \in DOMAIN saleItem : saleItem'[y] = IF y = x THEN i ELSE saleItem[y]
  BY <1>1
<1>3. PierRows'
  BY <1>1, <1>2 DEF PierInv, PierRows
<1>4. \A y : PaidOn(y)' = PaidOn(y)
  BY DEF PaidOn
<1>5. PaidSaleKeepsTerms'
  BY <1>2, <1>4 DEF PierInv, PaidSaleKeepsTerms, MayReterm, SameTerms
<1> QED
  BY <1>3, <1>4, <1>5 DEF PierInv, OnePayout, OneHandover

\* A row gone that no payout that stands names, or an upgrade.
LEMMA ItemGone ==
    ASSUME PierInv, NEW x \in DOMAIN saleItem, saleItem' = Without(x), x \in SaleIds => PaidOn(x) = {},
           UNCHANGED <<travels, live, pierPayments, handovers, payouts, salesMade>>
    PROVE  PierInv'
<1>1. DOMAIN saleItem' = DOMAIN saleItem \ {x} /\ \A y \in DOMAIN saleItem' : saleItem'[y] = saleItem[y]
  BY DEF Without
<1>2. saleItem' \in [DOMAIN saleItem' -> Items]
  BY DEF Without, PierInv, PierRows
<1>3. PierRows'
  BY <1>1, <1>2 DEF PierInv, PierRows
<1>4. \A y : PaidOn(y)' = PaidOn(y)
  BY DEF PaidOn
<1>5. PaidSaleKeepsTerms'
  BY <1>1, <1>4 DEF PierInv, PaidSaleKeepsTerms
<1> QED
  BY <1>3, <1>4, <1>5 DEF PierInv, OnePayout, OneHandover

LEMMA SaleSteps ==
    ASSUME PierInv,
           \/ \E b \in Riders, terms \in Terms, seller \in Sellers, method \in SaleMethods :
                 \/ SellTour(b, terms, seller, method)
                 \/ \E x \in UpgradeIds : AddUpgrade(b, x, terms, seller, method)
           \/ \E x \in DOMAIN saleItem \cap SaleIds :
                 \/ \E d \in Days, terms \in Terms, seller \in Sellers, method \in SaleMethods : EditTourSale(x, d, terms, seller, method)
                 \/ DeleteTourSale(x)
           \/ \E x \in DOMAIN saleItem, method \in PierMethods : Collect(x, method)
           \/ \E x \in DOMAIN saleItem \cap UpgradeIds :
                 \/ \E terms \in Terms, seller \in Sellers, method \in SaleMethods : EditUpgrade(x, terms, seller, method)
                 \/ DropUpgrade(x)
    PROVE  PierInv'
<1> USE DEF SetItems
<1>0. /\ travels \in [Riders -> Days] /\ saleItem \in [DOMAIN saleItem -> Items] /\ salesMade \in Nat /\ MaxSales \in Nat
      /\ salesMade <= MaxSales /\ SaleIds \cap UpgradeIds = {} /\ SaleIds \subseteq SaleItems /\ UpgradeIds \subseteq SaleItems
      /\ \A x \in DOMAIN saleItem : saleItem[x] \in Items
  BY PierAssumption DEF PierInv, PierRows, SaleIds, UpgradeIds, SaleItems
<1>1. ASSUME NEW b \in Riders, NEW terms \in Terms, NEW seller \in Sellers, NEW method \in SaleMethods,
             SellTour(b, terms, seller, method)
      PROVE  PierInv'
  <2> DEFINE x == <<"tour_sale", salesMade + 1>>
             i == NewItem(b, travels[b], terms, seller, method)
  <2>1. /\ saleItem' = With(saleItem, x, i) /\ salesMade < MaxSales /\ salesMade' = salesMade + 1
        /\ UNCHANGED <<travels, live, pierPayments, handovers, payouts>>
    BY <1>1 DEF SellTour
  <2>2. i \in Items
    BY <1>0, NewItemTyped
  <2>3. x \in SaleIds /\ x[2] = salesMade + 1
    BY <1>0, <2>1 DEF SaleIds
  <2>4. x \notin DOMAIN saleItem
    BY <1>0, <2>3 DEF PierInv, PierRows
  <2>5. salesMade' \in salesMade..MaxSales /\ x[2] <= salesMade'
    BY <1>0, <2>1, <2>3
  <2> HIDE DEF x, i
  <2> QED
    BY <1>0, <2>1, <2>2, <2>3, <2>4, <2>5, ItemAdded
<1>2. ASSUME NEW b \in Riders, NEW terms \in Terms, NEW seller \in Sellers, NEW method \in SaleMethods, NEW x \in UpgradeIds,
             AddUpgrade(b, x, terms, seller, method)
      PROVE  PierInv'
  <2> DEFINE i == NewItem(b, travels[b], terms, seller, method)
  <2>1. /\ saleItem' = With(saleItem, x, i) /\ x \notin DOMAIN saleItem /\ salesMade' = salesMade
        /\ UNCHANGED <<travels, live, pierPayments, handovers, payouts>>
    BY <1>2 DEF AddUpgrade
  <2>2. i \in Items
    BY <1>0, NewItemTyped
  <2>3. salesMade' \in salesMade..MaxSales /\ x \notin SaleIds /\ x \in SaleItems
    BY <1>0, <2>1
  <2> HIDE DEF i
  <2> QED
    BY <2>1, <2>2, <2>3, ItemAdded
<1>3. ASSUME NEW x \in DOMAIN saleItem \cap SaleIds, NEW d \in Days, NEW terms \in Terms, NEW seller \in Sellers,
             NEW method \in SaleMethods, EditTourSale(x, d, terms, seller, method)
      PROVE  PierInv'
  <2> DEFINE i == NewItem(saleItem[x].booking, d, terms, seller, method)
  <2>1. /\ saleItem' = [saleItem EXCEPT ![x] = i] /\ MayReterm(x, i)
        /\ UNCHANGED <<travels, live, pierPayments, handovers, payouts, salesMade>>
    BY <1>3 DEF EditTourSale
  <2>2. i \in Items
    BY <1>0, NewItemTyped DEF Items
  <2> HIDE DEF i
  <2> QED
    BY <2>1, <2>2, ItemEdited
<1>4. ASSUME NEW x \in DOMAIN saleItem \cap SaleIds, DeleteTourSale(x) PROVE PierInv'
  BY <1>4, ItemGone DEF DeleteTourSale
<1>5. ASSUME NEW x \in DOMAIN saleItem, NEW method \in PierMethods, Collect(x, method) PROVE PierInv'
  <2> DEFINE i == [saleItem[x] EXCEPT !.method = method]
  <2>1. /\ saleItem' = [saleItem EXCEPT ![x] = i]
        /\ UNCHANGED <<travels, live, pierPayments, handovers, payouts, salesMade>>
    BY <1>0, <1>5 DEF Collect
  <2>2. saleItem[x] \in Items
    BY <1>0
  <2>3. i \in Items /\ SameTerms(x, i)
    BY <2>2 DEF Items, SaleMethods, SameTerms, Commission
  <2> HIDE DEF i
  <2> QED
    BY <2>1, <2>3, ItemEdited DEF MayReterm
<1>6. ASSUME NEW x \in DOMAIN saleItem \cap UpgradeIds, NEW terms \in Terms, NEW seller \in Sellers,
             NEW method \in SaleMethods, EditUpgrade(x, terms, seller, method)
      PROVE  PierInv'
  <2> DEFINE i == NewItem(saleItem[x].booking, saleItem[x].day, terms, seller, method)
  <2>1. /\ saleItem' = [saleItem EXCEPT ![x] = i]
        /\ UNCHANGED <<travels, live, pierPayments, handovers, payouts, salesMade>>
    BY <1>6 DEF EditUpgrade
  <2>2. i \in Items
    BY <1>0, NewItemTyped DEF Items
  <2> HIDE DEF i
  <2> QED
    BY <1>0, <2>1, <2>2, ItemEdited
<1>7. ASSUME NEW x \in DOMAIN saleItem \cap UpgradeIds, DropUpgrade(x) PROVE PierInv'
  BY <1>0, <1>7, ItemGone DEF DropUpgrade
<1> QED
  BY <1>1, <1>2, <1>3, <1>4, <1>5, <1>6, <1>7

\* Hand-overs: one open for a day, and one accepted for good.
LEMMA HandoverRowSteps ==
    ASSUME PierInv, NEW n \in DOMAIN handovers, NEW state \in HandoverStates, handovers[n].state = "handed",
           handovers' = [handovers EXCEPT ![n].state = state],
           UNCHANGED <<travels, live, pierPayments, saleItem, salesMade, payouts>>
    PROVE  PierInv' /\ HandoverStands
<1>1. handovers \in Seq(HandoverRows) /\ \A m \in DOMAIN handovers : handovers[m] \in HandoverRows
  BY DEF PierInv, PierRows
<1> DEFINE row == [handovers[n] EXCEPT !.state = state]
<1>2. row \in HandoverRows /\ row.day = handovers[n].day /\ row.expected = handovers[n].expected /\ row.state = state
  BY <1>1 DEF HandoverRows
<1>3. handovers' = [handovers EXCEPT ![n] = row]
  BY <1>1
<1> HIDE DEF row
<1>4. handovers' \in Seq(HandoverRows) /\ DOMAIN handovers' = DOMAIN handovers
      /\ \A m \in DOMAIN handovers : handovers'[m] = IF m = n THEN row ELSE handovers[m]
  BY <1>1, <1>2, <1>3
<1>5. OneHandover'
  BY <1>2, <1>4 DEF PierInv, OneHandover
<1>6. PierRows'
  BY <1>4 DEF PierInv, PierRows
<1>7. PierInv'
  BY <1>5, <1>6 DEF PierInv, OnePayout, PaidSaleKeepsTerms, PaidOn
<1>8. HandoverStands
  BY <1>2, <1>4, <1>5 DEF HandoverStands, OneHandover
<1> QED
  BY <1>7, <1>8

LEMMA HandoverAdded ==
    ASSUME PierInv, NEW d \in Days, HandOver(d)
    PROVE  PierInv' /\ HandoverStands
<1> DEFINE row == [day |-> d, expected |-> Takings(d), state |-> "handed"]
<1>1. row \in HandoverRows /\ row.day = d
  BY TakingsCount DEF HandoverRows, HandoverStates
<1>2. /\ LiveHandovers(d) = {} /\ handovers' = Append(handovers, row)
      /\ UNCHANGED <<travels, live, pierPayments, saleItem, salesMade, payouts>>
  BY DEF HandOver
<1> HIDE DEF row
<1>3. handovers \in Seq(HandoverRows)
  BY DEF PierInv, PierRows
<1>4. /\ handovers' \in Seq(HandoverRows) /\ DOMAIN handovers' = DOMAIN handovers \cup {Len(handovers) + 1}
      /\ \A m \in DOMAIN handovers : handovers'[m] = handovers[m]
      /\ handovers'[Len(handovers) + 1] = row
  BY <1>1, <1>2, <1>3
<1>5. OneHandover'
  <2>1. \A m \in DOMAIN handovers : handovers[m].day = d => handovers[m].state = "void"
    BY <1>2 DEF LiveHandovers
  <2> QED
    BY <1>1, <1>4, <2>1 DEF PierInv, OneHandover
<1>6. PierRows'
  BY <1>2, <1>4 DEF PierInv, PierRows
<1>7. PierInv'
  BY <1>2, <1>5, <1>6 DEF PierInv, OnePayout, PaidSaleKeepsTerms, PaidOn
<1>8. HandoverStands
  BY <1>4, <1>5 DEF HandoverStands, OneHandover
<1> QED
  BY <1>7, <1>8

LEMMA HandoverRest == ASSUME PierInv, PierInv', UNCHANGED handovers PROVE HandoverStands
  BY DEF PierInv, OneHandover, HandoverStands

\* Commissions: paid out only what no payout that stands has, on the sale's own terms.
LEMMA PaySteps ==
    ASSUME PierInv, NEW seller \in Sellers, NEW xs \in (SUBSET DOMAIN saleItem) \ {{}}, PayCommission(seller, xs)
    PROVE  PierInv'
<1> DEFINE paid == [x \in xs |-> Commission(saleItem[x])]
           row == [seller |-> seller, paid |-> paid, void |-> FALSE]
           new == Len(payouts) + 1
<1>1. payouts \in Seq(PayoutRows) /\ saleItem \in [DOMAIN saleItem -> Items] /\ xs \in SUBSET SaleItems
  BY DEF PierInv, PierRows
<1>2. \A x \in xs : Payable(x, seller)
  BY DEF PayCommission
<1>3. \A x \in xs : Commission(saleItem[x]) \in Nat \ {0}
  <2> TAKE x \in xs
  <2>1. saleItem[x] \in Items
    BY <1>1
  <2> QED
    BY <1>2, <2>1 DEF Payable, Commission, Clip, Items
<1>4. paid \in [xs -> Nat \ {0}]
  BY <1>3
<1>5. row \in PayoutRows
  BY <1>1, <1>4 DEF PayoutRows
<1>6. payouts' = Append(payouts, row) /\ UNCHANGED <<travels, live, pierPayments, saleItem, salesMade, handovers>>
  BY DEF PayCommission
<1>7. DOMAIN row.paid = xs /\ row.seller = seller /\ ~row.void /\ \A x \in xs : row.paid[x] = Commission(saleItem[x])
  OBVIOUS
<1> HIDE DEF row, paid
<1>8. /\ payouts' \in Seq(PayoutRows) /\ DOMAIN payouts' = DOMAIN payouts \cup {new} /\ new \notin DOMAIN payouts
      /\ payouts'[new] = row /\ \A n \in DOMAIN payouts : payouts'[n] = payouts[n]
  BY <1>1, <1>5, <1>6
<1> HIDE DEF new
<1>9. \A x : PaidOn(x)' = IF x \in xs THEN PaidOn(x) \cup {new} ELSE PaidOn(x)
  BY <1>7, <1>8 DEF PaidOn
<1>10. OnePayout'
  BY <1>2, <1>9 DEF PierInv, OnePayout, Payable
<1>11. PaidSaleKeepsTerms'
  <2> SUFFICES ASSUME NEW x \in SaleIds, NEW n \in PaidOn(x)'
               PROVE  x \in DOMAIN saleItem /\ saleItem[x].seller = payouts'[n].seller
                      /\ Commission(saleItem[x]) = payouts'[n].paid[x]
    BY <1>6 DEF PaidSaleKeepsTerms
  <2>1. CASE n \in PaidOn(x)
    BY <1>8, <2>1 DEF PierInv, PaidSaleKeepsTerms, PaidOn
  <2>2. CASE n = new /\ x \in xs
    BY <1>2, <1>7, <1>8, <2>2 DEF Payable
  <2> QED
    BY <1>9, <2>1, <2>2
<1> QED
  BY <1>6, <1>8, <1>10, <1>11 DEF PierInv, PierRows, OneHandover

LEMMA VoidPayoutStep ==
    ASSUME PierInv, NEW n \in DOMAIN payouts, VoidPayout(n)
    PROVE  PierInv'
<1> DEFINE row == [payouts[n] EXCEPT !.void = TRUE]
<1>1. payouts \in Seq(PayoutRows) /\ payouts[n] \in PayoutRows
  BY DEF PierInv, PierRows
<1>2. row \in PayoutRows /\ row.void
  BY <1>1 DEF PayoutRows
<1>3. payouts' = [payouts EXCEPT ![n] = row] /\ UNCHANGED <<travels, live, pierPayments, saleItem, salesMade, handovers>>
  BY DEF VoidPayout
<1> HIDE DEF row
<1>4. /\ payouts' \in Seq(PayoutRows) /\ DOMAIN payouts' = DOMAIN payouts
      /\ \A m \in DOMAIN payouts : payouts'[m] = IF m = n THEN row ELSE payouts[m]
  BY <1>1, <1>2, <1>3
<1>5. \A x : PaidOn(x)' = PaidOn(x) \ {n}
  BY <1>2, <1>4 DEF PaidOn
<1>6. PaidSaleKeepsTerms'
  <2> SUFFICES ASSUME NEW x \in SaleIds, NEW m \in PaidOn(x)'
               PROVE  x \in DOMAIN saleItem /\ saleItem[x].seller = payouts'[m].seller
                      /\ Commission(saleItem[x]) = payouts'[m].paid[x]
    BY <1>3 DEF PaidSaleKeepsTerms
  <2>1. m \in PaidOn(x) /\ m # n /\ m \in DOMAIN payouts
    BY <1>5 DEF PaidOn
  <2> QED
    BY <1>4, <2>1 DEF PierInv, PaidSaleKeepsTerms
<1> QED
  BY <1>3, <1>4, <1>5, <1>6 DEF PierInv, PierRows, OnePayout, OneHandover

\* Every request of the pier keeps the invariant, and what was handed over.
LEMMA PierStep == ASSUME PierInv, [PierNext]_pierVars PROVE PierInv' /\ HandoverStands
<1>1. CASE UNCHANGED pierVars
  BY <1>1, PierRest, HandoverRest DEF pierVars, desk
<1>2. ASSUME PierNext PROVE PierInv' /\ HandoverStands
  <2>1. PierRequest
    BY <1>2 DEF PierNext
  <2>2. ASSUME UNCHANGED handovers PROVE PierInv'
    BY <2>1, <2>2, PaymentSteps, SaleSteps, PaySteps, VoidPayoutStep, HandoverAdded, HandoverRowSteps
       DEF PierRequest, Accept, VoidHandover, HandoverStates
  <2>3. ASSUME handovers' # handovers PROVE PierInv' /\ HandoverStands
    <3>1. \/ \E d \in Days : HandOver(d)
          \/ \E n \in DOMAIN handovers : Accept(n) \/ VoidHandover(n)
      BY <2>1, <2>3 DEF PierRequest, RecordPierPayment, SellTour, AddUpgrade, Reschedule, CancelOrRestore,
         DeletePierPayment, EditTourSale, DeleteTourSale, Collect, EditUpgrade, DropUpgrade, PayCommission, VoidPayout, SetItems
    <3> QED
      BY <3>1, HandoverAdded, HandoverRowSteps DEF Accept, VoidHandover, HandoverStates
  <2> QED
    BY <2>2, <2>3, HandoverRest
<1> QED
  BY <1>1, <1>2

-----------------------------------------------------------------------------
(* The office's lists                                                      *)

Rank == [pier : Piers \cup {NoPier}, sort : Nat]
Person == [pier : Piers \cup {NoPier}, section : SectionIds \cup {NoId}, sort : Nat,
           code : {Upper[t] : t \in CodeTexts} \cup {NoText}]

\* The rows of the lists, and the groups' members, who are somewhere.
ListRows ==
    /\ kind \in [KindIds -> Nat]
    /\ goods \in [GoodsIds -> [pier : Piers \cup {NoPier}, kind : KindIds \cup {NoId}]]
    /\ section \in [SectionIds -> Rank] /\ staff \in [StaffIds -> Person]
    /\ code \in [CodeIds -> CodeTexts \cup {NoText}]
    /\ \A x \in StaffIds : Unborn(staff, x) => staff[x].section = NoId
StaffHome == \A x \in StaffIds : staff[x].section # NoId => section[staff[x].section].pier = staff[x].pier
GoodsHome == \A i \in GoodsIds : goods[i].kind # NoId => kind[goods[i].kind] # 0
StaffPlaced == \A p \in Piers : \A x, y \in PeopleOf(p) : staff[x].sort = staff[y].sort => x = y
SectionsPlaced == \A p \in Piers : \A s, t \in Sections(p) : section[s].sort = section[t].sort => s = t
KindsPlaced == \A k, l \in Kinds : kind[k] = kind[l] => k = l
CodesDiffer == \A c, d \in CodesNow : Upper[code[c]] = Upper[code[d]] => c = d

ListInv == ListRows /\ StaffHome /\ GoodsHome /\ StaffPlaced /\ SectionsPlaced /\ KindsPlaced /\ CodesDiffer

LEMMA ListInvKeeps == ListInv => ListsKept
  BY DEF ListInv, StaffHome, GoodsHome, StaffPlaced, SectionsPlaced, KindsPlaced, CodesDiffer, ListsKept

LEMMA ListsStart == ASSUME OfficeInit PROVE ListInv
  BY OfficeAssumption DEF OfficeInit, ListInv, ListRows, StaffHome, GoodsHome, StaffPlaced, SectionsPlaced, KindsPlaced, CodesDiffer,
     Rank, Person, Unborn, PeopleOf, Sections, Kinds, CodesNow, NoId

LEMMA ListsRest == ASSUME ListInv, UNCHANGED listVars PROVE ListInv'
  BY DEF listVars, ListInv, ListRows, StaffHome, GoodsHome, StaffPlaced, SectionsPlaced, KindsPlaced, CodesDiffer,
     Rank, Person, Unborn, PeopleOf, Sections, Kinds, CodesNow

\* A list in a new order: each row has a place, and no two the same.
LEMMA OrderPlaces ==
    ASSUME NEW S, IsFiniteSet(S), NEW o \in Orders(S)
    PROVE  /\ \A x \in S : PlaceIn(o, x) \in Nat \ {0}
           /\ \A x, y \in S : PlaceIn(o, x) = PlaceIn(o, y) => x = y
<1>1. Cardinality(S) \in Nat
  BY FS_CardinalityType
<1>2. o \in [1 .. Cardinality(S) -> S] /\ o \in Injection(1 .. Cardinality(S), S)
  BY DEF Orders, Injection, IsInjective
<1>3. Cardinality(1 .. Cardinality(S)) = Cardinality(S)
  BY <1>1, FS_Interval
<1>4. o \in Surjection(1 .. Cardinality(S), S)
  BY <1>2, <1>3, FS_Injection
<1>5. \A x \in S : \E i \in DOMAIN o : o[i] = x
  BY <1>4 DEF Surjection
<1>6. \A x \in S : PlaceIn(o, x) \in DOMAIN o /\ o[PlaceIn(o, x)] = x
  BY <1>5, Zenon DEF PlaceIn
<1>7. DOMAIN o = 1 .. Cardinality(S)
  BY <1>2
<1> QED
  BY <1>1, <1>6, <1>7

LEMMA KindSteps ==
    ASSUME ListInv, NEW k \in KindIds, AddKind(k) \/ DropKind(k)
    PROVE  ListInv'
<1>1. CASE AddKind(k)
  <2> DEFINE n == 1 + Max({0} \cup {kind[x] : x \in Kinds})
  <2>1. IsFiniteSet(Kinds) /\ \A x \in Kinds : kind[x] \in Nat
    BY OfficeAssumption, FS_Subset DEF Kinds, ListInv, ListRows
  <2>2. n \in Nat \ {0} /\ \A x \in Kinds : kind[x] < n
    BY <2>1, NextIsNew
  <2>3. n = NextSort(Kinds, KindSort)
    BY DEF NextSort, KindSort
  <2> HIDE DEF n
  <2>4. kind' = [kind EXCEPT ![k] = n] /\ UNCHANGED <<goods, section, staff, code>> /\ kind[k] = 0
    BY <1>1, <2>3 DEF AddKind
  <2>5. ListRows' /\ StaffHome' /\ GoodsHome' /\ StaffPlaced' /\ SectionsPlaced' /\ CodesDiffer'
    BY <2>2, <2>4, OfficeAssumption DEF ListInv, ListRows, StaffHome, GoodsHome, StaffPlaced, SectionsPlaced, CodesDiffer,
       Rank, Person, Unborn, PeopleOf, Sections, CodesNow, NoId
  <2>6. KindsPlaced'
    BY <2>1, <2>2, <2>4 DEF ListInv, ListRows, KindsPlaced, Kinds
  <2> QED
    BY <2>5, <2>6 DEF ListInv
<1>2. CASE DropKind(k)
  BY <1>2, OfficeAssumption DEF DropKind, KindUnused, ListInv, ListRows, StaffHome, GoodsHome, StaffPlaced, SectionsPlaced, KindsPlaced,
     CodesDiffer, Rank, Person, Unborn, PeopleOf, Sections, Kinds, CodesNow, NoId
<1> QED
  BY <1>1, <1>2

LEMMA ItemStep ==
    ASSUME ListInv, NEW i \in GoodsIds, NEW p \in Piers, NEW k \in KindIds, PutItem(i, p, k)
    PROVE  ListInv'
  BY OfficeAssumption DEF PutItem, ListInv, ListRows, StaffHome, GoodsHome, StaffPlaced, SectionsPlaced, KindsPlaced,
     CodesDiffer, Rank, Person, Unborn, PeopleOf, Sections, Kinds, CodesNow, NoId

LEMMA CodeSteps ==
    ASSUME ListInv, NEW c \in CodeIds, DropCode(c) \/ \E t \in CodeTexts : PutCode(c, t)
    PROVE  ListInv'
  BY OfficeAssumption DEF DropCode, PutCode, CodeFree, ListInv, ListRows, StaffHome, GoodsHome, StaffPlaced, SectionsPlaced, KindsPlaced,
     CodesDiffer, Rank, Person, Unborn, PeopleOf, Sections, Kinds, CodesNow, NoId

LEMMA SectionSteps ==
    ASSUME ListInv, NEW s \in SectionIds,
           (\E p \in Piers : AddSection(s, p)) \/ \E anyway \in BOOLEAN : DropSection(s, anyway)
    PROVE  ListInv'
<1>1. ASSUME NEW p \in Piers, AddSection(s, p) PROVE ListInv'
  <2>0. PICK rank : rank = [x \in SectionIds |-> section[x].sort]
    OBVIOUS
  <2> DEFINE n == 1 + Max({0} \cup {rank[x] : x \in Sections(p)})
  <2>1. IsFiniteSet(Sections(p)) /\ \A x \in Sections(p) : rank[x] \in Nat
    BY <2>0, OfficeAssumption, FS_Subset DEF Sections, ListInv, ListRows, Rank
  <2>2. n \in Nat \ {0} /\ \A x \in Sections(p) : rank[x] < n
    BY <2>1, NextIsNew
  <2>3. {rank[x] : x \in Sections(p)} = {SectionSort(x) : x \in Sections(p)}
    BY <2>0 DEF SectionSort, Sections
  <2>4. n = NextSort(Sections(p), SectionSort)
    BY <2>3, Zenon DEF NextSort
  <2>5. \A x \in Sections(p) : section[x].sort < n
    BY <2>0, <2>2 DEF Sections
  <2> HIDE DEF n
  <2>6. section' = [section EXCEPT ![s] = [pier |-> p, sort |-> n]] /\ UNCHANGED <<kind, goods, staff, code>>
        /\ section[s].pier = NoPier
    BY <1>1, <2>4 DEF AddSection, Unborn
  <2>7. \A x \in StaffIds : staff[x].section # s
    BY <2>6, OfficeAssumption DEF ListInv, ListRows, StaffHome, Unborn, Person, NoId
  <2>8. ListRows' /\ GoodsHome' /\ StaffPlaced' /\ KindsPlaced' /\ CodesDiffer'
    BY <2>2, <2>6, OfficeAssumption DEF ListInv, ListRows, GoodsHome, StaffPlaced, KindsPlaced, CodesDiffer,
       Rank, Person, Unborn, PeopleOf, Kinds, CodesNow, NoId
  <2>9. StaffHome'
    BY <2>6, <2>7 DEF ListInv, ListRows, StaffHome, Person, NoId
  <2>10. SectionsPlaced'
    BY <2>2, <2>5, <2>6, OfficeAssumption DEF ListInv, ListRows, SectionsPlaced, Sections, Rank
  <2> QED
    BY <2>8, <2>9, <2>10 DEF ListInv
<1>2. ASSUME NEW anyway \in BOOLEAN, DropSection(s, anyway) PROVE ListInv'
  <2>1. /\ section' = [section EXCEPT ![s] = [pier |-> NoPier, sort |-> 0]] /\ UNCHANGED <<kind, goods, code>>
        /\ staff' = [x \in StaffIds |-> IF staff[x].section = s THEN [staff[x] EXCEPT !.section = NoId] ELSE staff[x]]
    BY <1>2 DEF DropSection
  <2>2. ListRows'
    BY <2>1, OfficeAssumption DEF ListInv, ListRows, Rank, Person, Unborn, NoId
  <2>3. StaffHome' /\ GoodsHome' /\ KindsPlaced' /\ CodesDiffer'
    BY <2>1, OfficeAssumption DEF ListInv, ListRows, StaffHome, GoodsHome, KindsPlaced, CodesDiffer,
       Rank, Person, Unborn, Kinds, CodesNow, NoId
  <2>4. StaffPlaced'
    <3>1. \A x \in StaffIds : staff'[x].pier = staff[x].pier /\ staff'[x].sort = staff[x].sort
      BY <2>1 DEF ListInv, ListRows, Person
    <3> QED
      BY <3>1 DEF ListInv, StaffPlaced, PeopleOf
  <2>5. SectionsPlaced'
    BY <2>1, OfficeAssumption DEF ListInv, ListRows, SectionsPlaced, Sections, Rank
  <2> QED
    BY <2>2, <2>3, <2>4, <2>5 DEF ListInv
<1> QED
  BY <1>1, <1>2

\* A person put last in a pier's list.
LEMMA LastPlace ==
    ASSUME ListInv, NEW S \in SUBSET StaffIds
    PROVE  NextSort(S, StaffSort) \in Nat /\ \A x \in S : staff[x].sort < NextSort(S, StaffSort)
<1>0. PICK rank : rank = [x \in StaffIds |-> staff[x].sort]
  OBVIOUS
<1> DEFINE n == 1 + Max({0} \cup {rank[x] : x \in S})
<1>1. IsFiniteSet(S) /\ \A x \in S : rank[x] \in Nat
  BY <1>0, OfficeAssumption, FS_Subset DEF ListInv, ListRows, Person
<1>2. n \in Nat \ {0} /\ \A x \in S : rank[x] < n
  BY <1>1, NextIsNew
<1>3. {rank[x] : x \in S} = {StaffSort(x) : x \in S}
  BY <1>0 DEF StaffSort
<1>4. n = NextSort(S, StaffSort)
  BY <1>3, Zenon DEF NextSort
<1>5. \A x \in S : staff[x].sort < n
  BY <1>0, <1>2
<1> HIDE DEF n
<1> QED
  BY <1>2, <1>4, <1>5

\* A person set in a group of a pier, placed last there or, staying, where they were.
LEMMA SetPerson ==
    ASSUME ListInv, NEW x \in StaffIds, NEW row \in Person, row.pier \in Piers, SectionOf(row.section, row.pier),
           \A y \in PeopleOf(row.pier) \ {x} : staff[y].sort # row.sort,
           staff' = [staff EXCEPT ![x] = row], UNCHANGED <<kind, goods, section, code>>
    PROVE  ListInv'
<1>1. ListRows'
  BY OfficeAssumption DEF ListInv, ListRows, Unborn
<1>2. StaffHome'
  BY OfficeAssumption DEF ListInv, ListRows, StaffHome, SectionOf, Sections
<1>3. GoodsHome' /\ SectionsPlaced' /\ KindsPlaced' /\ CodesDiffer'
  BY DEF ListInv, GoodsHome, SectionsPlaced, KindsPlaced, CodesDiffer, Sections, Kinds, CodesNow
<1>4. StaffPlaced'
  BY DEF ListInv, ListRows, StaffPlaced, PeopleOf
<1> QED
  BY <1>1, <1>2, <1>3, <1>4 DEF ListInv

LEMMA AddStaffStep ==
    ASSUME ListInv, NEW x \in StaffIds, NEW p \in Piers, NEW s \in SectionIds \union {NoId}, NEW c \in CodeTexts,
           AddStaff(x, p, s, c)
    PROVE  ListInv'
<1> DEFINE n == NextSort(PeopleOf(p), StaffSort)
           row == [pier |-> p, section |-> s, code |-> Upper[c], sort |-> n]
<1>1. n \in Nat /\ \A y \in PeopleOf(p) : staff[y].sort < n
  BY LastPlace DEF PeopleOf
<1>2. \A y \in PeopleOf(p) : staff[y].sort \in Nat
  BY DEF PeopleOf, ListInv, ListRows, Person
<1>3. SectionOf(s, p) /\ staff' = [staff EXCEPT ![x] = row] /\ UNCHANGED <<kind, goods, section, code>>
  BY DEF AddStaff
<1> HIDE DEF n
<1>4. row \in Person /\ row.pier = p /\ row.section = s /\ row.sort = n
  BY <1>1 DEF Person
<1> HIDE DEF row
<1>5. \A y \in PeopleOf(row.pier) \ {x} : staff[y].sort # row.sort
  BY <1>1, <1>2, <1>4
<1> QED
  BY <1>3, <1>4, <1>5, SetPerson

LEMMA MoveStaffStep ==
    ASSUME ListInv, NEW x \in StaffIds, NEW p \in Piers, NEW s \in SectionIds \union {NoId}, SectionOf(s, p),
           MoveStaff(x, p, s)
    PROVE  ListInv'
<1> DEFINE n == Placed(x, p, s)
           row == [staff[x] EXCEPT !.pier = p, !.section = s, !.sort = n]
<1>1. staff[x] \in Person /\ staff \in [StaffIds -> Person]
  BY DEF ListInv, ListRows
<1>2. n \in Nat /\ \A y \in PeopleOf(p) \ {x} : staff[y].sort # n
  <2>1. CASE s = staff[x].section /\ p = staff[x].pier
    BY <1>1, <2>1 DEF Placed, ListInv, StaffPlaced, PeopleOf, Person
  <2>2. CASE ~(s = staff[x].section /\ p = staff[x].pier)
    <3>1. n = NextSort(PeopleOf(p) \ {x}, StaffSort)
      BY <2>2 DEF Placed
    <3>2. n \in Nat /\ \A y \in PeopleOf(p) \ {x} : staff[y].sort < n
      BY <3>1, LastPlace DEF PeopleOf
    <3> QED
      BY <1>1, <3>2 DEF PeopleOf, Person
  <2> QED
    BY <2>1, <2>2
<1> HIDE DEF n
<1>3. row \in Person /\ row.pier = p /\ row.section = s /\ row.sort = n
  BY <1>1, <1>2 DEF Person
<1>4. staff' = [staff EXCEPT ![x] = row] /\ UNCHANGED <<kind, goods, section, code>>
  BY <1>1 DEF MoveStaff, n
<1> HIDE DEF row
<1> QED
  BY <1>2, <1>3, <1>4, SetPerson

LEMMA PatchStaffStep ==
    ASSUME ListInv, NEW x \in StaffIds, NEW p \in Piers, PatchStaff(x, p)
    PROVE  ListInv'
<1>1. CASE MoveStaff(x, p, SectionAfterMove(x, p))
  <2>1. staff[x] \in Person /\ ~Unborn(staff, x)
    BY <1>1 DEF ListInv, ListRows, MoveStaff
  <2>2. SectionAfterMove(x, p) \in SectionIds \union {NoId} /\ SectionOf(SectionAfterMove(x, p), p)
    BY <2>1 DEF SectionAfterMove, SectionOf, Sections, Person, ListInv, StaffHome
  <2> QED
    BY <1>1, <2>2, MoveStaffStep
<1>2. CASE \E s \in SectionIds \union {NoId} : SectionOf(s, p) /\ MoveStaff(x, p, s)
  BY <1>2, MoveStaffStep
<1> QED
  BY <1>1, <1>2 DEF PatchStaff

LEMMA OrderSteps ==
    ASSUME ListInv, OrderKinds \/ \E p \in Piers : OrderSections(p) \/ OrderStaff(p)
    PROVE  ListInv'
<1>1. CASE OrderKinds
  <2>1. PICK o \in Orders(Kinds) :
          kind' = [k \in KindIds |-> IF k \in Kinds THEN PlaceIn(o, k) ELSE 0] /\ UNCHANGED <<goods, section, staff, code>>
    BY <1>1 DEF OrderKinds
  <2>2. IsFiniteSet(Kinds)
    BY OfficeAssumption, FS_Subset DEF Kinds
  <2>3. /\ \A k \in Kinds : PlaceIn(o, k) \in Nat \ {0}
        /\ \A k, l \in Kinds : PlaceIn(o, k) = PlaceIn(o, l) => k = l
    BY <2>2, OrderPlaces
  <2>4. Kinds' = Kinds /\ \A k \in Kinds : kind'[k] = PlaceIn(o, k)
    BY <2>1, <2>3 DEF Kinds
  <2>5. KindsPlaced'
    BY <2>3, <2>4 DEF KindsPlaced
  <2>6. ListRows'
    BY <2>1, <2>3 DEF ListInv, ListRows, Unborn
  <2>7. GoodsHome'
    BY <2>1, <2>4 DEF ListInv, ListRows, GoodsHome, Kinds, NoId
  <2>8. StaffHome' /\ StaffPlaced' /\ SectionsPlaced' /\ CodesDiffer'
    BY <2>1 DEF ListInv, StaffHome, StaffPlaced, SectionsPlaced, CodesDiffer, PeopleOf, Sections, CodesNow
  <2> QED
    BY <2>5, <2>6, <2>7, <2>8 DEF ListInv
<1>2. ASSUME NEW p \in Piers, OrderSections(p) PROVE ListInv'
  <2>1. PICK o \in Orders(Sections(p)) :
          /\ section' = [s \in SectionIds |-> IF s \in Sections(p) THEN [section[s] EXCEPT !.sort = PlaceIn(o, s)] ELSE section[s]]
          /\ UNCHANGED <<kind, goods, staff, code>>
    BY <1>2 DEF OrderSections
  <2>2. IsFiniteSet(Sections(p))
    BY OfficeAssumption, FS_Subset DEF Sections
  <2>3. /\ \A s \in Sections(p) : PlaceIn(o, s) \in Nat \ {0}
        /\ \A s, t \in Sections(p) : PlaceIn(o, s) = PlaceIn(o, t) => s = t
    BY <2>2, OrderPlaces
  <2>4. /\ section' \in [SectionIds -> Rank]
        /\ \A s \in SectionIds : /\ section'[s].pier = section[s].pier
                                 /\ section'[s].sort = IF s \in Sections(p) THEN PlaceIn(o, s) ELSE section[s].sort
    BY <2>1, <2>3 DEF ListInv, ListRows, Rank
  <2>5. SectionsPlaced'
    <3> SUFFICES ASSUME NEW q \in Piers, NEW s \in Sections(q), NEW t \in Sections(q), section'[s].sort = section'[t].sort
                 PROVE  s = t
      BY <2>4 DEF SectionsPlaced, Sections
    <3>1. s \in SectionIds /\ t \in SectionIds /\ section[s].pier = q /\ section[t].pier = q
      BY DEF Sections
    <3>2. CASE q = p
      BY <2>3, <2>4, <3>1, <3>2
    <3>3. CASE q # p
      BY <2>4, <3>1, <3>3 DEF ListInv, SectionsPlaced, Sections
    <3> QED
      BY <3>2, <3>3
  <2>6. ListRows' /\ StaffHome' /\ GoodsHome' /\ StaffPlaced' /\ KindsPlaced' /\ CodesDiffer'
    BY <2>1, <2>4 DEF ListInv, ListRows, StaffHome, GoodsHome, StaffPlaced, KindsPlaced, CodesDiffer,
       Person, Unborn, PeopleOf, Kinds, CodesNow, NoId
  <2> QED
    BY <2>5, <2>6 DEF ListInv
<1>3. ASSUME NEW p \in Piers, OrderStaff(p) PROVE ListInv'
  <2>1. PICK o \in Orders(PeopleOf(p)) :
          /\ staff' = [x \in StaffIds |-> IF x \in PeopleOf(p) THEN [staff[x] EXCEPT !.sort = PlaceIn(o, x)] ELSE staff[x]]
          /\ UNCHANGED <<kind, goods, section, code>>
    BY <1>3 DEF OrderStaff
  <2>2. IsFiniteSet(PeopleOf(p))
    BY OfficeAssumption, FS_Subset DEF PeopleOf
  <2>3. /\ \A x \in PeopleOf(p) : PlaceIn(o, x) \in Nat \ {0}
        /\ \A x, y \in PeopleOf(p) : PlaceIn(o, x) = PlaceIn(o, y) => x = y
    BY <2>2, OrderPlaces
  <2>4. /\ staff' \in [StaffIds -> Person]
        /\ \A x \in StaffIds : /\ staff'[x].pier = staff[x].pier /\ staff'[x].section = staff[x].section
                               /\ staff'[x].sort = IF x \in PeopleOf(p) THEN PlaceIn(o, x) ELSE staff[x].sort
    BY <2>1, <2>3 DEF ListInv, ListRows, Person
  <2>5. StaffPlaced'
    <3> SUFFICES ASSUME NEW q \in Piers, NEW x \in PeopleOf(q), NEW y \in PeopleOf(q), staff'[x].sort = staff'[y].sort
                 PROVE  x = y
      BY <2>4 DEF StaffPlaced, PeopleOf
    <3>1. x \in StaffIds /\ y \in StaffIds /\ staff[x].pier = q /\ staff[y].pier = q
      BY DEF PeopleOf
    <3>2. CASE q = p
      BY <2>3, <2>4, <3>1, <3>2
    <3>3. CASE q # p
      BY <2>4, <3>1, <3>3 DEF ListInv, StaffPlaced, PeopleOf
    <3> QED
      BY <3>2, <3>3
  <2>6. ListRows' /\ StaffHome' /\ GoodsHome' /\ SectionsPlaced' /\ KindsPlaced' /\ CodesDiffer'
    BY <2>1, <2>4 DEF ListInv, ListRows, StaffHome, GoodsHome, SectionsPlaced, KindsPlaced, CodesDiffer,
       Unborn, Sections, Kinds, CodesNow, NoId
  <2> QED
    BY <2>5, <2>6 DEF ListInv
<1> QED
  BY <1>1, <1>2, <1>3

LEMMA ListsStep == ASSUME ListInv, [OfficeNext]_officeVars PROVE ListInv'
<1>1. CASE ListStep
  <2> USE <1>1
  <2> QED
    BY KindSteps, ItemStep, SectionSteps, AddStaffStep, PatchStaffStep, CodeSteps, OrderSteps DEF ListStep
<1>2. CASE CashStep \/ UNCHANGED officeVars
  BY <1>2, ListsRest DEF CashStep, officeVars, listVars
<1> QED
  BY <1>1, <1>2 DEF OfficeNext

-----------------------------------------------------------------------------
(* The agent's deals                                                       *)

AgentRows == [sales : People \cup {Nil}, rate : Rates \cup {Nil}, seasons : SeasonTables \cup {{}}, programs : SUBSET Routes,
              template : Templates \cup {Nil}, active : BOOLEAN]
SoldRows == [route : Routes \cup {Nil}, rate : Rates \cup {Nil}, promo : Promos \cup {Nil}, ref : Rates \cup {Nil},
             baht : {sold.baht}, list : {sold.list}, live : BOOLEAN, promoted : SUBSET Promos]

\* The tables' rows; a booking not made yet names no rate.
DealRows ==
    /\ rate \in [Rates -> RateRows \cup {Nil}] /\ people \subseteq People
    /\ agent \in AgentRows /\ main \in [rate : Rates \cup {Nil}, status : {"active", "expired", "none"}]
    /\ promo \in [Promos -> PromoRows \cup {Nil}] /\ template \in [Templates -> TemplateRows \cup {Nil}]
    /\ sold \in SoldRows /\ (sold.route = Nil => sold.rate = Nil /\ sold.ref = Nil)
\* What the printed contract rests on: one default template, which is active.
OneDefault ==
    \E t \in Templates : /\ TemplateMade(t) /\ template[t].default /\ template[t].active
                         /\ \A u \in Templates : TemplateMade(u) /\ template[u].default => u = t

DealsInv == DealRows /\ MainFollowsAgent /\ NothingDangling /\ OneDefault

LEMMA DealsStart == ASSUME DealsInit PROVE DealsInv
<1>0. /\ sold = NoSale /\ people = People /\ promo = [i \in Promos |-> Nil]
  BY DEF DealsInit
<1>1. PICK r \in Rates, list \in [Rates -> Lists \cup {Nil}] :
        /\ list[r] # Nil
        /\ rate = [q \in Rates |-> IF list[q] # Nil THEN [owner |-> Nil, list |-> [x \in Routes |-> list[q]]] ELSE Nil]
        /\ \E s \in People : agent = [sales |-> s, rate |-> r, seasons |-> {}, programs |-> Routes, template |-> Nil, active |-> TRUE]
        /\ main \in {[rate |-> r, status |-> "active"], [rate |-> r, status |-> "expired"], [rate |-> Nil, status |-> "none"]}
  BY DEF DealsInit
<1>2. PICK t \in Templates : template = [u \in Templates |-> IF u = t THEN [active |-> TRUE, default |-> TRUE] ELSE Nil]
  BY DEF DealsInit
<1>3. \A q \in Rates : list[q] # Nil => [owner |-> Nil, list |-> [x \in Routes |-> list[q]]] \in RateRows
  BY <1>1 DEF RateRows
<1>4. rate \in [Rates -> RateRows \cup {Nil}] /\ \A q \in Rates : rate[q] # Nil => rate[q].owner = Nil
  BY <1>1, <1>3
<1>5. rate[r] # Nil
  BY <1>1, <1>3, NilAssumption
<1>6. agent \in AgentRows /\ agent.rate = r /\ agent.seasons = {} /\ agent.template = Nil /\ agent.sales \in People
  BY <1>1 DEF AgentRows
<1>7. /\ main \in [rate : Rates \cup {Nil}, status : {"active", "expired", "none"}] /\ main.rate \in {r, Nil}
      /\ main.status = "active" => main.rate = r
  BY <1>1
<1>8. [active |-> TRUE, default |-> TRUE] \in TemplateRows
  BY DEF TemplateRows
<1>9. template \in [Templates -> TemplateRows \cup {Nil}] /\ OneDefault
  BY <1>2, <1>8, NilAssumption DEF OneDefault, TemplateMade
<1>10. sold \in SoldRows /\ sold.route = Nil /\ sold.rate = Nil /\ sold.ref = Nil
  BY <1>0 DEF NoSale, SoldRows
<1>11. DealRows
  BY <1>0, <1>4, <1>6, <1>7, <1>9, <1>10 DEF DealRows
<1>12. NothingDangling
  BY <1>0, <1>4, <1>5, <1>6, <1>7, <1>10, DealsAssumption DEF NothingDangling, Exists
<1> QED
  BY <1>6, <1>7, <1>9, <1>11, <1>12 DEF DealsInv, MainFollowsAgent

LEMMA DealsRest == ASSUME DealsInv, UNCHANGED books PROVE DealsInv'
  BY DEF books, DealsInv, DealRows, MainFollowsAgent, NothingDangling, OneDefault, TemplateMade, Exists, SoldRows

LEMMA DealsInvKeeps == DealsInv => MainFollowsAgent /\ NothingDangling /\ OneTemplatePrints
<1> SUFFICES ASSUME DealsInv PROVE OneTemplatePrints
  BY DEF DealsInv
<1>1. PICK t \in Templates : /\ TemplateMade(t) /\ template[t].default /\ template[t].active
                            /\ \A u \in Templates : TemplateMade(u) /\ template[u].default => u = t
  BY DEF DealsInv, OneDefault
<1>2. {u \in Templates : TemplateMade(u) /\ template[u].default} = {t}
  BY <1>1
<1>3. Cardinality({t}) = 1
  BY FS_Singleton
<1> DEFINE active == {u \in Templates : TemplateMade(u) /\ template[u].active}
           default == {u \in active : template[u].default}
<1>4. default = {t} /\ t \in active
  BY <1>1
<1>5. CASE agent.template \in active
  <2>1. EffectiveTemplates = {agent.template}
    BY <1>5 DEF EffectiveTemplates
  <2> QED
    BY <1>2, <1>3, <1>5, <2>1 DEF OneTemplatePrints
<1>6. CASE agent.template \notin active
  <2>1. EffectiveTemplates = {t}
    BY <1>4, <1>6 DEF EffectiveTemplates
  <2> QED
    BY <1>1, <1>2, <1>3, <2>1 DEF OneTemplatePrints
<1> QED
  BY <1>5, <1>6

-----------------------------------------------------------------------------
(* Rate types, the agent, promotions, templates and salespeople            *)

\* A rate's row put in place of one there was, or of none.
LEMMA RateRowSet ==
    ASSUME DealsInv, NEW r \in Rates, NEW row \in RateRows, row.owner \in people \cup {Nil},
           rate' = [rate EXCEPT ![r] = row], UNCHANGED <<agent, main, promo, people, template, sold>>
    PROVE  DealsInv'
<1>1. row # Nil
  BY NilAssumption
<1>2. \A q : Exists(q) => Exists(q)'
  BY <1>1 DEF DealsInv, DealRows, Exists
<1>3. \A q \in Rates : rate'[q] = IF q = r THEN row ELSE rate[q]
  BY DEF DealsInv, DealRows
<1>4. rate' \in [Rates -> RateRows \cup {Nil}]
  BY DEF DealsInv, DealRows
<1>5. NothingDangling'
  BY <1>2, <1>3 DEF DealsInv, NothingDangling, TemplateMade
<1> QED
  BY <1>4, <1>5 DEF DealsInv, DealRows, MainFollowsAgent, OneDefault, TemplateMade, SoldRows

LEMMA RateSteps == ASSUME DealsInv, RateStep PROVE DealsInv'
<1>0. \A r \in Rates : rate[r] # Nil => rate[r] \in RateRows /\ rate[r].owner \in people \cup {Nil}
  BY DEF DealsInv, DealRows, NothingDangling
<1>1. ASSUME NEW r \in Rates, NEW owner \in People \cup {Nil}, NEW list \in Lists, CreateRate(r, owner, list)
      PROVE  DealsInv'
  <2> DEFINE row == [owner |-> owner, list |-> [x \in Routes |-> list]]
  <2>1. row \in RateRows /\ row.owner = owner
    BY DEF RateRows
  <2>2. rate' = [rate EXCEPT ![r] = row] /\ owner \in people \cup {Nil} /\ UNCHANGED <<agent, main, promo, people, template, sold>>
    BY <1>1 DEF CreateRate
  <2> HIDE DEF row
  <2> QED
    BY <2>1, <2>2, RateRowSet
<1>2. ASSUME NEW r \in Rates, NEW owner \in People \cup {Nil}, PatchRate(r, owner) PROVE DealsInv'
  <2> DEFINE row == [rate[r] EXCEPT !.owner = owner]
  <2>1. row \in RateRows /\ row.owner = owner
    BY <1>0, <1>2 DEF PatchRate, RateTypeExists, RateRows
  <2>2. rate' = [rate EXCEPT ![r] = row] /\ owner \in people \cup {Nil} /\ UNCHANGED <<agent, main, promo, people, template, sold>>
    BY <1>2 DEF PatchRate, DealsInv, DealRows
  <2> HIDE DEF row
  <2> QED
    BY <2>1, <2>2, RateRowSet
<1>3. ASSUME NEW r \in Rates, NEW route \in Routes, NEW list \in Lists \cup {NotPriced},
             RateTypeExists(r), rate' = [rate EXCEPT ![r].list[route] = list], UNCHANGED <<agent, main, promo, people, template, sold>>
      PROVE  DealsInv'
  <2> DEFINE row == [rate[r] EXCEPT !.list[route] = list]
  <2>1. row \in RateRows /\ row.owner = rate[r].owner
    BY <1>0, <1>3 DEF RateTypeExists, RateRows
  <2>2. rate' = [rate EXCEPT ![r] = row] /\ row.owner \in people \cup {Nil}
    BY <1>0, <1>3, <2>1 DEF RateTypeExists, DealsInv, DealRows
  <2> HIDE DEF row
  <2> QED
    BY <1>3, <2>1, <2>2, RateRowSet
<1>4. ASSUME NEW r \in Rates, DeleteRate(r) PROVE DealsInv'
  <2>1. RateUnused(r) /\ rate' = [rate EXCEPT ![r] = Nil] /\ UNCHANGED <<agent, main, promo, people, template, sold>>
    BY <1>4 DEF DeleteRate
  <2>2. \A q \in Rates \ {r} : Exists(q) => Exists(q)'
    BY <2>1 DEF DealsInv, DealRows, Exists
  <2>3. /\ agent.rate \in Rates \cup {Nil} /\ main.rate \in Rates \cup {Nil}
        /\ sold.rate \in Rates \cup {Nil} /\ sold.ref \in Rates \cup {Nil}
        /\ \A s \in agent.seasons : s.rate \in Rates
        /\ \A i \in Promos : promo[i] # Nil => promo[i].form.rate \in Rates \cup {Nil}
    BY DealsAssumption DEF DealsInv, DealRows, AgentRows, SoldRows, PromoRows, Forms
  <2>4. sold.rate # r /\ sold.ref # r
    BY <2>1, DealsAssumption DEF RateUnused, DealsInv, DealRows
  <2>5. NothingDangling'
    <3>1. /\ (agent.rate # Nil => Exists(agent.rate)')
          /\ (\A s \in agent.seasons : Exists(s.rate)')
          /\ (main.rate # Nil => Exists(main.rate)')
      BY <2>1, <2>2, <2>3 DEF RateUnused, DealsInv, NothingDangling
    <3>2. (\A i \in Promos : promo[i] # Nil /\ promo[i].form.rate # Nil => Exists(promo[i].form.rate)')
      BY <2>1, <2>2, <2>3 DEF RateUnused, DealsInv, NothingDangling
    <3>3. (sold.rate # Nil => Exists(sold.rate)') /\ (sold.ref # Nil => Exists(sold.ref)')
      BY <2>1, <2>2, <2>3, <2>4 DEF DealsInv, NothingDangling
    <3>4. \A q \in Rates : rate'[q] # Nil => rate'[q].owner \in people \cup {Nil}
      BY <1>0, <2>1 DEF DealsInv, DealRows
    <3> QED
      BY <2>1, <3>1, <3>2, <3>3, <3>4 DEF DealsInv, NothingDangling, TemplateMade
  <2>6. rate' \in [Rates -> RateRows \cup {Nil}]
    BY <2>1 DEF DealsInv, DealRows
  <2> QED
    BY <2>1, <2>5, <2>6 DEF DealsInv, DealRows, MainFollowsAgent, OneDefault, TemplateMade, SoldRows
<1> QED
  BY <1>1, <1>2, <1>3, <1>4 DEF RateStep, PutRateRoute, DeleteRateRoute

\* The agent's row and its main contract rewritten.
LEMMA AgentSet ==
    ASSUME DealsInv, agent' \in AgentRows, main' \in [rate : Rates \cup {Nil}, status : {"active", "expired", "none"}],
           UNCHANGED <<rate, promo, people, template, sold>>,
           agent'.rate # Nil => Exists(agent'.rate), \A s \in agent'.seasons : Exists(s.rate),
           main'.rate # Nil => Exists(main'.rate), MainFollowsAgent',
           agent'.sales \in people \cup {Nil}, agent'.template # Nil => TemplateMade(agent'.template)
    PROVE  DealsInv'
<1>1. \A r : Exists(r)' <=> Exists(r)
  BY DEF Exists
<1>2. NothingDangling'
  BY <1>1 DEF DealsInv, NothingDangling, TemplateMade, Exists
<1> QED
  BY <1>2 DEF DealsInv, DealRows, OneDefault, TemplateMade, SoldRows

LEMMA AgentSteps == ASSUME DealsInv, AgentStep PROVE DealsInv'
<1>0. /\ agent \in AgentRows /\ main \in [rate : Rates \cup {Nil}, status : {"active", "expired", "none"}]
      /\ agent.rate # Nil => Exists(agent.rate)
      /\ main.rate # Nil => Exists(main.rate)
      /\ \A s \in agent.seasons : Exists(s.rate)
      /\ agent.sales \in people \cup {Nil} /\ people \subseteq People
      /\ agent.template # Nil => TemplateMade(agent.template)
      /\ MainFollowsAgent
  BY DEF DealsInv, DealRows, NothingDangling
<1>1. ASSUME NEW s \in People \cup {Nil}, NEW t \in Templates \cup {Nil}, PatchAgent(s, t) PROVE DealsInv'
  BY <1>0, <1>1, AgentSet DEF PatchAgent, AgentRows, TemplateMade, MainFollowsAgent
<1>2. ASSUME \/ \E on \in BOOLEAN : SetActive(on)
             \/ \E routes \in SUBSET Routes : PutPrograms(routes)
             \/ \E table \in SeasonTables : PutSeasons(table)
      PROVE  DealsInv'
  BY <1>0, <1>2, AgentSet DEF SetActive, PutPrograms, PutSeasons, AgentRows, MainFollowsAgent
<1>3. ASSUME NEW r \in Rates \cup {Nil}, NEW programs \in SUBSET Routes, r = agent.rate \/ r = Nil \/ RateFits(r, agent.sales),
             agent' = [agent EXCEPT !.rate = r, !.programs = programs],
             main' = [main EXCEPT !.rate = r] \/ (main' = main /\ (main.status = "active" => r = agent.rate)),
             UNCHANGED <<rate, promo, people, template, sold>>
      PROVE  DealsInv'
  <2>1. agent' \in AgentRows /\ agent'.rate = r /\ agent'.seasons = agent.seasons /\ agent'.sales = agent.sales
        /\ agent'.template = agent.template
    BY <1>0, <1>3 DEF AgentRows
  <2>2. r # Nil => Exists(r)
    BY <1>0, <1>3 DEF RateFits
  <2>3. /\ main' \in [rate : Rates \cup {Nil}, status : {"active", "expired", "none"}]
        /\ main'.rate \in {r, main.rate} /\ main'.status = main.status
        /\ main'.status = "active" => main'.rate = r
    BY <1>0, <1>3 DEF MainFollowsAgent
  <2>4. main'.rate # Nil => Exists(main'.rate)
    BY <1>0, <2>2, <2>3
  <2>5. MainFollowsAgent'
    BY <2>1, <2>3 DEF MainFollowsAgent
  <2> QED
    BY <1>0, <1>3, <2>1, <2>2, <2>3, <2>4, <2>5, AgentSet
<1>4. ASSUME NEW r \in Rates \cup {Nil}, NEW drop \in {"unsaid", "yes", "no"}, ChangeRate(r, drop) PROVE DealsInv'
  <2> DEFINE cover == PricedRoutes(r)
             uncovered == IF r = Nil THEN {} ELSE agent.programs \ cover
             programs == IF drop = "yes" THEN (agent.programs \cup cover) \ uncovered ELSE agent.programs \cup cover
  <2>1. programs \in SUBSET Routes
    BY <1>0 DEF PricedRoutes, AgentRows
  <2>2. agent' = [agent EXCEPT !.rate = r, !.programs = programs]
    <3>1. CASE drop = "yes"
      BY <1>0, <1>4, <3>1 DEF ChangeRate, AgentRows
    <3>2. CASE drop # "yes"
      <4>1. agent' = [agent EXCEPT !.rate = r, !.programs = @ \cup cover]
        BY <1>4, <3>2 DEF ChangeRate
      <4>2. agent' = [agent EXCEPT !.rate = r, !.programs = agent.programs \cup cover]
        BY <1>0, <4>1 DEF AgentRows
      <4>3. programs = agent.programs \cup cover
        BY <3>2
      <4> HIDE DEF programs, cover
      <4> QED
        BY <4>2, <4>3
    <3> QED
      BY <3>1, <3>2
  <2>3. main' = Synced(r, FALSE) /\ UNCHANGED <<rate, promo, people, template, sold>> /\ (r # Nil => RateFits(r, agent.sales))
    BY <1>4 DEF ChangeRate
  <2> HIDE DEF programs
  <2> QED
    BY <1>3, <2>1, <2>2, <2>3 DEF Synced
<1>5. ASSUME NEW r \in Rates, NEW carry \in BOOLEAN, Renew(r, carry) PROVE DealsInv'
  <2> DEFINE programs == IF carry THEN agent.programs ELSE {}
  <2>1. programs \in SUBSET Routes
    BY <1>0 DEF AgentRows
  <2>2. agent' = [agent EXCEPT !.rate = r, !.programs = programs]
        /\ main' = (IF r = agent.rate THEN main ELSE Synced(r, TRUE))
        /\ UNCHANGED <<rate, promo, people, template, sold>> /\ (r # agent.rate => RateFits(r, agent.sales))
    BY <1>0, <1>5 DEF Renew, AgentRows
  <2> HIDE DEF programs
  <2> QED
    BY <1>3, <2>1, <2>2 DEF Synced
<1> QED
  BY <1>1, <1>2, <1>4, <1>5 DEF AgentStep

LEMMA PromoSteps == ASSUME DealsInv, PromoStep PROVE DealsInv'
<1>0. promo \in [Promos -> PromoRows \cup {Nil}]
  BY DEF DealsInv, DealRows
<1>1. ASSUME NEW i \in Promos, NEW row \in PromoRows, row.form.rate # Nil => Exists(row.form.rate),
             promo' = [promo EXCEPT ![i] = row], UNCHANGED <<rate, agent, main, people, template, sold>>
      PROVE  DealsInv'
  <2>1. promo' \in [Promos -> PromoRows \cup {Nil}] /\ \A j \in Promos : promo'[j] = IF j = i THEN row ELSE promo[j]
    BY <1>0, <1>1
  <2>2. \A r : Exists(r)' <=> Exists(r)
    BY <1>1 DEF Exists
  <2>3. NothingDangling'
    BY <1>1, <2>1, <2>2 DEF DealsInv, NothingDangling, TemplateMade, Exists
  <2> QED
    BY <1>1, <2>1, <2>3 DEF DealsInv, DealRows, MainFollowsAgent, OneDefault, TemplateMade, SoldRows
<1>2. \A f \in Forms : (f.mode = "rate" => Exists(f.rate)) => (f.rate # Nil => Exists(f.rate))
  BY DEF Forms
<1>3. ASSUME NEW i \in Promos, NEW f \in Forms, AddPromo(i, f) PROVE DealsInv'
  <2> DEFINE row == [form |-> f, status |-> "active"]
  <2>1. row \in PromoRows /\ row.form = f
    BY DEF PromoRows
  <2>2. promo' = [promo EXCEPT ![i] = row] /\ UNCHANGED <<rate, agent, main, people, template, sold>>
        /\ (f.mode = "rate" => Exists(f.rate))
    BY <1>3 DEF AddPromo, CheckPromo
  <2> HIDE DEF row
  <2> QED
    BY <1>1, <1>2, <2>1, <2>2
<1>4. ASSUME NEW i \in Promos, NEW f \in Forms, NEW anyway \in BOOLEAN, EditPromo(i, f, anyway) PROVE DealsInv'
  <2> DEFINE row == [promo[i] EXCEPT !.form = f]
  <2>1. promo[i] \in PromoRows
    BY <1>0, <1>4 DEF EditPromo, Live
  <2>2. row \in PromoRows /\ row.form = f
    BY <2>1 DEF PromoRows
  <2>3. promo' = [promo EXCEPT ![i] = row] /\ UNCHANGED <<rate, agent, main, people, template, sold>>
        /\ (f.mode = "rate" => Exists(f.rate))
    BY <1>0, <1>4 DEF EditPromo, CheckPromo
  <2> HIDE DEF row
  <2> QED
    BY <1>1, <1>2, <2>2, <2>3
<1>5. ASSUME NEW i \in Promos, VoidPromo(i) PROVE DealsInv'
  <2> DEFINE row == [promo[i] EXCEPT !.status = "void"]
  <2>1. promo[i] \in PromoRows /\ promo[i] # Nil
    BY <1>0, <1>5 DEF VoidPromo, Live
  <2>2. row \in PromoRows /\ row.form = promo[i].form
    BY <2>1 DEF PromoRows
  <2>3. promo' = [promo EXCEPT ![i] = row] /\ UNCHANGED <<rate, agent, main, people, template, sold>>
        /\ (row.form.rate # Nil => Exists(row.form.rate))
    BY <1>0, <1>5, <2>1, <2>2 DEF VoidPromo, DealsInv, NothingDangling
  <2> HIDE DEF row
  <2> QED
    BY <1>1, <2>2, <2>3
<1> QED
  BY <1>3, <1>4, <1>5 DEF PromoStep

LEMMA DeskStepKeeps == ASSUME DealsInv, DeskStep PROVE DealsInv'
<1>0. template \in [Templates -> TemplateRows \cup {Nil}] /\ agent \in AgentRows
      /\ \A t \in Templates : TemplateMade(t) => template[t] \in TemplateRows
  BY DEF DealsInv, DealRows, TemplateMade
<1>1. ASSUME agent' \in AgentRows, agent' = [agent EXCEPT !.sales = agent'.sales, !.template = agent'.template],
             template' \in [Templates -> TemplateRows \cup {Nil}], OneDefault', people' \subseteq People,
             agent'.sales \in people' \cup {Nil}, agent'.template # Nil => template'[agent'.template] # Nil,
             \A r \in Rates : rate[r] # Nil => rate[r].owner \in people' \cup {Nil},
             UNCHANGED <<rate, main, promo, sold>>
      PROVE  DealsInv'
  <2>1. agent'.rate = agent.rate /\ agent'.seasons = agent.seasons
    BY <1>0, <1>1 DEF AgentRows
  <2>2. \A r : Exists(r)' <=> Exists(r)
    BY <1>1 DEF Exists
  <2>3. NothingDangling'
    BY <1>1, <2>1, <2>2 DEF DealsInv, NothingDangling, Exists, TemplateMade
  <2> QED
    BY <1>1, <2>1, <2>3 DEF DealsInv, DealRows, MainFollowsAgent, SoldRows
<1>2. agent = [agent EXCEPT !.sales = agent.sales, !.template = agent.template] /\ people \subseteq People
      /\ agent.sales \in people \cup {Nil} /\ (agent.template # Nil => TemplateMade(agent.template))
      /\ \A r \in Rates : rate[r] # Nil => rate[r].owner \in people \cup {Nil}
  BY <1>0 DEF AgentRows, DealsInv, DealRows, NothingDangling
<1>3. PICK d \in Templates : /\ TemplateMade(d) /\ template[d].default /\ template[d].active
                            /\ \A u \in Templates : TemplateMade(u) /\ template[u].default => u = d
  BY DEF DealsInv, OneDefault
<1>4. ASSUME NEW t \in Templates, NEW row \in TemplateRows, template' = [template EXCEPT ![t] = row],
             t = d => row.default /\ row.active, t # d => ~row.default,
             UNCHANGED <<rate, agent, main, promo, people, sold>>
      PROVE  DealsInv'
  <2>1. \A u \in Templates : template'[u] = IF u = t THEN row ELSE template[u]
    BY <1>0, <1>4
  <2>2. row # Nil
    BY NilAssumption
  <2>3. OneDefault'
    BY <1>3, <1>4, <2>1, <2>2 DEF OneDefault, TemplateMade
  <2>4. agent.template # Nil => template'[agent.template] # Nil
    BY <1>0, <1>2, <2>1, <2>2 DEF TemplateMade, AgentRows
  <2>5. template' \in [Templates -> TemplateRows \cup {Nil}]
    BY <1>0, <1>4
  <2> QED
    BY <1>0, <1>1, <1>2, <1>4, <2>3, <2>4, <2>5
<1>5. ASSUME NEW t \in Templates, NEW on \in BOOLEAN, CreateTemplate(t, on) PROVE DealsInv'
  <2> DEFINE row == [active |-> on, default |-> FALSE]
  <2>1. ~TemplateMade(t) /\ ~(\A u \in Templates : ~TemplateMade(u)) /\ UNCHANGED <<rate, agent, main, promo, people, sold>>
    BY <1>3, <1>5 DEF CreateTemplate
  <2>2. template' = [template EXCEPT ![t] = row]
    BY <1>5, <2>1 DEF CreateTemplate
  <2>3. row \in TemplateRows /\ t # d /\ row.default = FALSE
    BY <1>3, <2>1 DEF TemplateRows
  <2> HIDE DEF row
  <2> QED
    BY <1>4, <2>1, <2>2, <2>3
<1>6. ASSUME NEW t \in Templates, NEW on \in BOOLEAN, PatchTemplate(t, on) PROVE DealsInv'
  <2> DEFINE row == [template[t] EXCEPT !.active = on]
  <2>1. TemplateMade(t) /\ (~on => ~template[t].default) /\ template' = [template EXCEPT ![t].active = on]
        /\ UNCHANGED <<rate, agent, main, promo, people, sold>>
    BY <1>6 DEF PatchTemplate, MayPatchTemplate
  <2>2. row \in TemplateRows /\ row.default = template[t].default /\ row.active = on
    BY <1>0, <2>1 DEF TemplateRows
  <2>3. template' = [template EXCEPT ![t] = row]
    BY <1>0, <2>1
  <2>4. (t = d => row.default /\ row.active) /\ (t # d => ~row.default)
    BY <1>3, <2>1, <2>2
  <2> HIDE DEF row
  <2> QED
    BY <1>4, <2>1, <2>2, <2>3, <2>4
<1>7. ASSUME NEW t \in Templates, SetDefault(t) PROVE DealsInv'
  <2>1. TemplateMade(t) /\ UNCHANGED <<rate, agent, main, promo, people, sold>>
        /\ template' = [u \in Templates |-> IF u = t THEN [active |-> TRUE, default |-> TRUE]
                                            ELSE IF TemplateMade(u) THEN [template[u] EXCEPT !.default = FALSE] ELSE Nil]
    BY <1>7 DEF SetDefault
  <2>2. [active |-> TRUE, default |-> TRUE] \in TemplateRows
        /\ \A u \in Templates : TemplateMade(u) => [template[u] EXCEPT !.default = FALSE] \in TemplateRows
    BY <1>0 DEF TemplateRows
  <2>3. template' \in [Templates -> TemplateRows \cup {Nil}]
    BY <2>1, <2>2
  <2>4. template'[t] # Nil /\ template'[t].default /\ template'[t].active
    BY <2>1, <2>2, NilAssumption
  <2>5. \A u \in Templates \ {t} : /\ (TemplateMade(u) <=> TemplateMade(u)')
                                  /\ (TemplateMade(u) => template'[u].default = FALSE)
    BY <1>0, <2>1, <2>2, NilAssumption DEF TemplateMade, TemplateRows
  <2>6. OneDefault'
    BY <2>4, <2>5 DEF OneDefault, TemplateMade
  <2>7. agent.template # Nil => template'[agent.template] # Nil
    BY <1>0, <1>2, <2>4, <2>5 DEF TemplateMade, AgentRows
  <2> QED
    BY <1>0, <1>1, <1>2, <2>1, <2>3, <2>6, <2>7
<1>8. ASSUME NEW t \in Templates, DeleteTemplate(t) PROVE DealsInv'
  <2>1. TemplateMade(t) /\ ~template[t].default /\ template' = [template EXCEPT ![t] = Nil]
        /\ agent' = [agent EXCEPT !.template = IF agent.template = t THEN Nil ELSE agent.template]
        /\ UNCHANGED <<rate, main, promo, people, sold>>
    BY <1>0, <1>8 DEF DeleteTemplate, AgentRows
  <2>2. template' \in [Templates -> TemplateRows \cup {Nil}] /\ \A u \in Templates : template'[u] = IF u = t THEN Nil ELSE template[u]
    BY <1>0, <2>1
  <2>3. agent' \in AgentRows /\ agent' = [agent EXCEPT !.sales = agent'.sales, !.template = agent'.template]
        /\ agent'.sales = agent.sales /\ agent'.template = IF agent.template = t THEN Nil ELSE agent.template
    BY <1>0, <2>1 DEF AgentRows
  <2>4. OneDefault'
    BY <1>3, <2>1, <2>2 DEF OneDefault, TemplateMade
  <2>5. agent'.template # Nil => template'[agent'.template] # Nil
    BY <1>0, <1>2, <2>2, <2>3 DEF TemplateMade, AgentRows
  <2> QED
    BY <1>1, <1>2, <2>1, <2>2, <2>3, <2>4, <2>5
<1>9. OneDefault' \/ ~(UNCHANGED template)
  BY <1>3 DEF OneDefault, TemplateMade
<1>10. ASSUME NEW s \in People, DeletePerson(s) PROVE DealsInv'
  <2>1. people' = people \ {s} /\ agent' = [agent EXCEPT !.sales = IF agent.sales = s THEN Nil ELSE agent.sales]
        /\ UNCHANGED <<rate, main, promo, template, sold>> /\ \A r \in Rates : rate[r] # Nil => rate[r].owner # s
    BY <1>0, <1>10 DEF DeletePerson, AgentRows
  <2>2. agent' \in AgentRows /\ agent' = [agent EXCEPT !.sales = agent'.sales, !.template = agent'.template]
        /\ agent'.template = agent.template /\ agent'.sales = IF agent.sales = s THEN Nil ELSE agent.sales
    BY <1>0, <2>1 DEF AgentRows
  <2>3. agent'.sales \in people' \cup {Nil} /\ people' \subseteq People
    BY <1>2, <2>1, <2>2
  <2>4. agent'.template # Nil => template'[agent'.template] # Nil
    BY <1>2, <2>1, <2>2 DEF TemplateMade
  <2>5. \A r \in Rates : rate[r] # Nil => rate[r].owner \in people' \cup {Nil}
    BY <1>2, <2>1
  <2> QED
    BY <1>0, <1>1, <1>9, <2>1, <2>2, <2>3, <2>4, <2>5
<1>11. ASSUME NEW s \in People, CreatePerson(s) PROVE DealsInv'
  <2>1. people' = people \cup {s} /\ UNCHANGED <<rate, agent, main, promo, template, sold>>
    BY <1>11 DEF CreatePerson
  <2> QED
    BY <1>0, <1>1, <1>2, <1>9, <2>1 DEF TemplateMade
<1> QED
  BY <1>5, <1>6, <1>7, <1>8, <1>10, <1>11 DEF DeskStep

-----------------------------------------------------------------------------
(* The booking                                                             *)

\* The promotion that wins is one of those that cover the trip.
LEMMA WinnerHits == ASSUME DealsInv, NEW route, Hits(route) # {} PROVE Winner(route) \in Hits(route)
<1> DEFINE first == {i \in Hits(route) : \A j \in Hits(route) : promo[j].form.priority <= promo[i].form.priority}
<1>0. \A i \in Hits(route) : i \in Promos /\ promo[i].form.priority \in 1..2
  <2> TAKE i \in Hits(route)
  <2>1. i \in Promos /\ promo[i] \in PromoRows
    BY DEF Hits, Live, DealsInv, DealRows
  <2> QED
    BY <2>1 DEF PromoRows, Forms
<1>1. first # {}
  <2>1. CASE \E i \in Hits(route) : promo[i].form.priority = 2
    BY <1>0, <2>1
  <2>2. CASE ~ \E i \in Hits(route) : promo[i].form.priority = 2
    BY <1>0, <2>2
  <2> QED
    BY <2>1, <2>2
<1>2. first \in SUBSET Nat
  BY <1>0, DealsAssumption
<1>3. Min(first) \in first /\ \A i \in first : Min(first) <= i
  BY <1>1, <1>2, MinIsIn
<1>4. \E i \in Hits(route) : \A j \in Hits(route) :
        \/ promo[j].form.priority < promo[i].form.priority
        \/ promo[j].form.priority = promo[i].form.priority /\ i <= j
  <2> DEFINE m == Min(first)
  <2>1. m \in Hits(route) /\ \A j \in Hits(route) : promo[j].form.priority <= promo[m].form.priority
    BY <1>3
  <2>2. ASSUME NEW j \in Hits(route), promo[j].form.priority = promo[m].form.priority PROVE m <= j
    <3>1. j \in first
      BY <2>1, <2>2
    <3> QED
      BY <1>3, <3>1
  <2> HIDE DEF m
  <2>3. \A j \in Hits(route) :
          \/ promo[j].form.priority < promo[m].form.priority
          \/ promo[j].form.priority = promo[m].form.priority /\ m <= j
    BY <1>0, <2>1, <2>2
  <2> QED
    BY <2>1, <2>3
<1> QED
  BY <1>4, Zenon DEF Winner

\* The season that prices a day is one of the agent's.
LEMMA RateForKnown == ASSUME DealsInv, NEW day \in Nat PROVE RateFor(day) \in Rates \cup {Nil}
<1>0. agent \in AgentRows
  BY DEF DealsInv, DealRows
<1>1. CASE Covering(day) = {}
  BY <1>0, <1>1 DEF RateFor, AgentRows
<1>2. CASE Covering(day) # {}
  <2>1. IsFiniteSet(agent.seasons) /\ \A s \in agent.seasons : s.rate \in Rates /\ s.from \in Nat
    BY <1>0, DealsAssumption, FS_EmptySet DEF AgentRows
  <2>2. IsFiniteSet(Covering(day)) /\ Covering(day) \subseteq agent.seasons
    BY <2>1, FS_Subset DEF Covering
  <2> DEFINE f == [s \in Covering(day) |-> s.from]
             starts == {f[s] : s \in Covering(day)}
  <2>3. f \in Surjection(Covering(day), starts)
    BY DEF Surjection
  <2>4. IsFiniteSet(starts)
    BY <2>2, <2>3, FS_Surjection
  <2>5. starts \in SUBSET Nat /\ starts # {}
    BY <1>2, <2>1, <2>2
  <2>6. Max(starts) \in starts /\ \A n \in starts : n <= Max(starts)
    BY <2>4, <2>5, MaxIsIn
  <2>7. \E s \in Covering(day) : \A u \in Covering(day) : u.from <= s.from
    BY <2>6
  <2> DEFINE last == CHOOSE s \in Covering(day) : \A u \in Covering(day) : u.from <= s.from
  <2>8. last \in Covering(day)
    BY <2>7, Zenon
  <2>9. RateFor(day) = last.rate
    BY <1>2, Zenon DEF RateFor
  <2> HIDE DEF last
  <2> QED
    BY <2>1, <2>2, <2>8, <2>9
<1> QED
  BY <1>1, <1>2

LEMMA BaseKnown ==
    ASSUME DealsInv, NEW keep \in BOOLEAN, NEW kept, NEW ref \in Rates \cup {Nil}, kept \in Rates \cup {Nil}
    PROVE  /\ BaseFor(keep, kept, ref, TripDay) \in Rates \cup {Nil}
           /\ BaseFor(keep, kept, ref, TripDay) # Nil => Exists(BaseFor(keep, kept, ref, TripDay))
<1>1. RateFor(TripDay) \in Rates \cup {Nil}
  BY RateForKnown, DealsAssumption
<1>2. MainRate(TripDay) \in Rates \cup {Nil} /\ (MainRate(TripDay) # Nil => Exists(MainRate(TripDay)))
  BY <1>1 DEF MainRate
<1> QED
  BY <1>2 DEF BaseFor, Exists

\* What prices a trip, a promotion laid over it or not, is a rate there is.
LEMMA WonKnown ==
    ASSUME DealsInv, NEW base \in Rates \cup {Nil}, base # Nil => Exists(base), NEW route \in Routes
    PROVE  LET won == WithPromo(base, route, TripDay)
           IN  won.rate \in Rates \cup {Nil} /\ (won.rate # Nil => Exists(won.rate)) /\ won.promo \in Promos \cup {Nil}
<1>1. CASE Hits(route) = {}
  BY <1>1 DEF WithPromo, Laid
<1>2. CASE Hits(route) # {}
  <2>1. Winner(route) \in Promos /\ promo[Winner(route)] # Nil /\ promo[Winner(route)] \in PromoRows
    BY <1>2, WinnerHits DEF Hits, Live, DealsInv, DealRows
  <2>2. PICK p : p = promo[Winner(route)].form
    OBVIOUS
  <2>3. p \in Forms /\ (p.rate # Nil => Exists(p.rate))
    BY <2>1, <2>2 DEF PromoRows, DealsInv, NothingDangling
  <2>4. p.mode \in {"own", "discount", "rate"} /\ p.rate \in Rates \cup {Nil}
    BY <2>3 DEF Forms
  <2>5. WithPromo(base, route, TripDay) \in
          {Laid(base, route), [rate |-> base, cells |-> p.list, promo |-> Winner(route)],
           [rate |-> base, cells |-> Discounted(Block(PromoMainRate(TripDay), route), p.off), promo |-> Winner(route)],
           [rate |-> p.rate, cells |-> Block(p.rate, route), promo |-> Winner(route)]}
    BY <1>2, <2>2, <2>4 DEF WithPromo
  <2> QED
    BY <2>1, <2>3, <2>4, <2>5 DEF Laid
<1> QED
  BY <1>1, <1>2

LEMMA RepriceKeeps ==
    ASSUME DealsInv, NEW keep \in BOOLEAN, NEW route \in Routes, NEW kept \in Rates \cup {Nil}, NEW ref \in Rates \cup {Nil},
           ref # Nil => Exists(ref), NEW before \in SUBSET Promos, Reprice(keep, route, kept, ref, before),
           UNCHANGED <<rate, agent, main, promo, people, template>>
    PROVE  DealsInv'
<1> DEFINE base == BaseFor(keep, kept, ref, TripDay)
           won == WithPromo(base, route, TripDay)
           promoted == IF won.promo # Nil THEN {won.promo}
                       ELSE {i \in before : keep /\ promo[i].form.mode = "rate" /\ promo[i].form.rate = won.rate}
           baht == SeatPrice(won.cells, Party)
           list == Block(won.rate, route)
<1>1. base \in Rates \cup {Nil} /\ (base # Nil => Exists(base))
  BY BaseKnown
<1>2. sold' = [route |-> route, rate |-> won.rate, promo |-> won.promo, ref |-> ref, baht |-> baht, list |-> list, live |-> TRUE,
               promoted |-> promoted]
  BY DEF Reprice
<1> HIDE DEF base
<1>3. won.rate \in Rates \cup {Nil} /\ (won.rate # Nil => Exists(won.rate)) /\ won.promo \in Promos \cup {Nil}
  BY <1>1, WonKnown
<1> HIDE DEF won
<1>4. promoted \in SUBSET Promos
  BY <1>3
<1> HIDE DEF promoted, baht, list
<1>5. /\ sold'.route = route /\ sold'.rate = won.rate /\ sold'.promo = won.promo /\ sold'.ref = ref /\ sold'.baht = baht
      /\ sold'.list = list /\ sold'.live = TRUE /\ sold'.promoted = promoted
  BY <1>2
<1>6. sold' \in SoldRows'
  BY <1>2, <1>3, <1>4, <1>5 DEF SoldRows
<1>7. \A r : Exists(r)' <=> Exists(r)
  BY DEF Exists
<1>8. NothingDangling'
  BY <1>3, <1>5, <1>7 DEF DealsInv, NothingDangling, TemplateMade, Exists
<1>9. sold'.route # Nil
  BY <1>5, DealsAssumption
<1> QED
  BY <1>6, <1>8, <1>9 DEF DealsInv, DealRows, MainFollowsAgent, OneDefault, TemplateMade

LEMMA BookingSteps == ASSUME DealsInv, BookingDeal PROVE DealsInv'
<1>0. /\ agent.rate \in Rates \cup {Nil} /\ (agent.rate # Nil => Exists(agent.rate))
      /\ sold \in SoldRows /\ (sold.rate # Nil => Exists(sold.rate)) /\ (sold.ref # Nil => Exists(sold.ref))
      /\ sold.rate \in Rates \cup {Nil} /\ sold.ref \in Rates \cup {Nil} /\ sold.promoted \in SUBSET Promos
  BY DEF DealsInv, DealRows, NothingDangling, AgentRows, SoldRows
<1>1. CASE CreateBooking
  <2>1. PICK route \in Routes : Reprice(FALSE, route, Nil, agent.rate, {})
    BY <1>1 DEF CreateBooking
  <2>2. UNCHANGED <<rate, agent, main, promo, people, template>>
    BY <1>1 DEF CreateBooking
  <2>3. FALSE \in BOOLEAN /\ Nil \in Rates \cup {Nil} /\ {} \in SUBSET Promos
    OBVIOUS
  <2> QED
    BY <1>0, <2>1, <2>2, <2>3, RepriceKeeps
<1>2. ASSUME NEW keep \in BOOLEAN, NEW byId \in BOOLEAN, NEW route \in Routes, EditBooking(keep, route, byId) PROVE DealsInv'
  <2> DEFINE same == byId \/ route = sold.route
             ref == IF keep \/ agent.rate = Nil THEN sold.ref ELSE agent.rate
             kept == IF same THEN sold.rate ELSE Nil
             before == IF same THEN sold.promoted ELSE {}
  <2>1. Reprice(keep /\ same, route, kept, ref, before) /\ UNCHANGED <<rate, agent, main, promo, people, template>>
    BY <1>2 DEF EditBooking, PriceFor
  <2>2. kept \in Rates \cup {Nil} /\ ref \in Rates \cup {Nil} /\ (ref # Nil => Exists(ref)) /\ before \in SUBSET Promos
        /\ (keep /\ same) \in BOOLEAN
    BY <1>0
  <2> HIDE DEF same, ref, kept, before
  <2> QED
    BY <2>1, <2>2, RepriceKeeps
<1>3. CASE CancelBooking
  <2>1. /\ sold' = [sold EXCEPT !.live = FALSE] /\ UNCHANGED <<rate, agent, main, promo, people, template>>
    BY <1>3 DEF CancelBooking
  <2>2. sold' \in SoldRows' /\ sold'.route = sold.route /\ sold'.rate = sold.rate /\ sold'.ref = sold.ref
    BY <1>0, <2>1 DEF SoldRows
  <2>3. NothingDangling'
    BY <2>1, <2>2 DEF DealsInv, NothingDangling, TemplateMade, Exists
  <2> QED
    BY <2>1, <2>2, <2>3 DEF DealsInv, DealRows, MainFollowsAgent, OneDefault, TemplateMade
<1> QED
  BY <1>1, <1>2, <1>3 DEF BookingDeal

\* An edit that keeps the rate keeps the price.
LEMMA KeptPrice == ASSUME DealsInv PROVE KeptPriceStands
<1> SUFFICES ASSUME sold.route # Nil, EditBooking(TRUE, sold.route, TRUE), Offered(sold.list),
                    sold.list = Block(sold.rate, sold.route), sold.baht = SeatPrice(sold.list, Party),
                    \A i \in Hits(sold.route) : promo[i].form.mode = "rate" /\ promo[i].form.rate = sold.rate
             PROVE  sold'.baht = sold.baht
  BY DEF KeptPriceStands
<1>1. Exists(sold.rate)
  BY DEF Offered, Block
<1>2. Reprice(TRUE, sold.route, sold.rate, sold.ref, sold.promoted)
  BY Zenon DEF EditBooking, PriceFor
<1>3. BaseFor(TRUE, sold.rate, sold.ref, TripDay) = sold.rate
  BY <1>1 DEF BaseFor, Exists
<1>4. WithPromo(sold.rate, sold.route, TripDay) = Laid(sold.rate, sold.route)
  <2>1. CASE Hits(sold.route) = {}
    BY <2>1 DEF WithPromo
  <2>2. CASE Hits(sold.route) # {}
    <3>1. promo[Winner(sold.route)].form.mode = "rate" /\ promo[Winner(sold.route)].form.rate = sold.rate
      BY <2>2, WinnerHits
    <3> QED
      BY <2>2, <3>1 DEF WithPromo
  <2> QED
    BY <2>1, <2>2
<1>5. sold'.baht = SeatPrice(WithPromo(BaseFor(TRUE, sold.rate, sold.ref, TripDay), sold.route, TripDay).cells, Party)
  BY <1>2 DEF Reprice
<1>6. Laid(sold.rate, sold.route).cells = sold.list
  BY DEF Laid
<1> QED
  BY <1>3, <1>4, <1>5, <1>6

LEMMA DealsStep == ASSUME DealsInv, [DealsNext]_<<books, deals>> PROVE DealsInv'
<1>1. CASE DealsNext
  BY <1>1, RateSteps, AgentSteps, PromoSteps, DeskStepKeeps, BookingSteps DEF DealsNext
<1>2. CASE UNCHANGED <<books, deals>>
  BY <1>2, DealsRest
<1> QED
  BY <1>1, <1>2

-----------------------------------------------------------------------------
(* The money                                                               *)

moneyVars == <<vars, pierVars, officeVars, dealVars, area>>
MoneyInv == LedgerInv /\ PierInv /\ ListInv /\ DealsInv

\* Every part keeps its invariant: the history's own by its step, the others by resting.
LEMMA MoneyStart == ASSUME MoneyInit PROVE MoneyInv
<1>1. Init /\ PierInit /\ OfficeInit /\ DealsInit
  BY DEF MoneyInit
<1> QED
  BY <1>1, LedgerStart, PierStart, ListsStart, DealsStart DEF MoneyInv

LEMMA MoneySteps ==
    ASSUME [MoneyNext]_moneyVars
    PROVE  [Next]_vars /\ [PierNext]_pierVars /\ [OfficeNext]_officeVars /\ [DealsNext]_<<books, deals>>
<1>1. CASE MoneyNext
  <2>1. CASE area = "ledger" /\ Next /\ UNCHANGED <<pierVars, officeVars, books, deals>>
    BY <2>1
  <2>2. CASE area = "sales" /\ PierNext /\ UNCHANGED <<vars, officeVars, books, deals>>
    BY <2>2
  <2>3. CASE area = "cash" /\ CashStep /\ UNCHANGED <<vars, pierVars, books, deals>>
    BY <2>3 DEF OfficeNext
  <2>4. CASE area = "lists" /\ ListStep /\ UNCHANGED <<vars, pierVars, books, deals>>
    BY <2>4 DEF OfficeNext
  <2>5. CASE area = "deals" /\ DealsNext /\ UNCHANGED <<vars, pierVars, officeVars>>
    BY <2>5
  <2> QED
    BY <1>1, <2>1, <2>2, <2>3, <2>4, <2>5 DEF MoneyNext
<1>2. CASE UNCHANGED moneyVars
  BY <1>2 DEF moneyVars, dealVars
<1> QED
  BY <1>1, <1>2

LEMMA MoneyStep == ASSUME MoneyInv, [MoneyNext]_moneyVars PROVE MoneyInv'
<1>1. [Next]_vars /\ [PierNext]_pierVars /\ [OfficeNext]_officeVars /\ [DealsNext]_<<books, deals>>
  BY MoneySteps
<1>2. LedgerInv'
  BY <1>1, LedgerStep DEF MoneyInv, LedgerStands
<1>3. PierInv'
  BY <1>1, PierStep DEF MoneyInv
<1>4. ListInv'
  BY <1>1, ListsStep DEF MoneyInv
<1>5. DealsInv'
  BY <1>1, DealsStep DEF MoneyInv
<1> QED
  BY <1>2, <1>3, <1>4, <1>5 DEF MoneyInv

LEMMA MoneyAlways == MoneySpec => []MoneyInv
<1>1. MoneyInit => MoneyInv
  BY MoneyStart
<1>2. MoneyInv /\ [MoneyNext]_moneyVars => MoneyInv'
  BY MoneyStep
<1> QED
  BY <1>1, <1>2, PTL DEF MoneySpec, moneyVars

\* Through any requests an invoice totals its lines, a booking is billed once, with its fees and less
\* its cash on tour, a cancelled one owes nothing but its fee, no credit is spent twice, and nothing
\* comes back that was not paid (invoices.ts, refunds.ts, after-trip.ts).
THEOREM LedgerIsKept == MoneySpec => []LedgerKept
<1>1. MoneyInv => LedgerKept
  BY LedgerInvKeeps DEF MoneyInv, LedgerKept
<1> QED
  BY <1>1, MoneyAlways, PTL

\* At the pier a sale earns its seller once, on the terms it was paid out on; the office's lists keep
\* their rows placed and numbered among the rows there are (pier-money.ts, pier-office.ts).
THEOREM PierIsKept == MoneySpec => []PierKept
<1>1. MoneyInv => PierKept
  BY PierInvKeeps, ListInvKeeps DEF MoneyInv, PierKept
<1> QED
  BY <1>1, MoneyAlways, PTL

\* The main contract follows its agent, nothing names a deleted row, and one template is printed,
\* through any edits and deletions of rates, people, promotions and templates (contracts.ts).
THEOREM DealsAreKept == MoneySpec => []DealsKept
<1>1. MoneyInv => DealsKept
  BY DealsInvKeeps DEF MoneyInv, DealsKept
<1> QED
  BY <1>1, MoneyAlways, PTL

\* What the sales at the pier and the agent's deals rest on holds together, through any requests on
\* either (pier-money.ts, pier-office.ts, contracts.ts).
THEOREM SalesAreKept == MoneySpec => []SalesKept
<1>1. PierKept /\ DealsKept => SalesKept
  BY DEF SalesKept
<1> QED
  BY <1>1, PierIsKept, DealsAreKept, PTL

LEMMA MoneyRecords ==
    ASSUME MoneyInv, [MoneyNext]_moneyVars PROVE PaperTrail /\ HandoverStands /\ KeptPriceStands
<1>1. [Next]_vars /\ [PierNext]_pierVars
  BY MoneySteps
<1>2. PaperTrail
  BY <1>1, LedgerStep DEF MoneyInv, LedgerStands
<1>3. HandoverStands
  BY <1>1, PierStep DEF MoneyInv
<1>4. KeptPriceStands
  BY KeptPrice DEF MoneyInv
<1> QED
  BY <1>2, <1>3, <1>4

\* A voided bill, a deleted payment and a refund stay as they were; a handover that accounts accepted
\* stands, with what it expected; an edit that keeps a booking's rate keeps its price.
THEOREM HistoryStands == MoneySpec => MoneyHistory
<1>1. MoneyInv /\ [MoneyNext]_<<vars, pierVars, officeVars, dealVars, area>>
      => [/\ area = "ledger" => PaperTrail
          /\ area = "sales" => HandoverStands
          /\ area = "deals" => KeptPriceStands]_<<vars, pierVars, officeVars, dealVars, area>>
  BY MoneyRecords DEF moneyVars
<1> QED
  BY <1>1, MoneyAlways, PTL DEF MoneySpec, MoneyHistory
=============================================================================
