------------------------------- MODULE MCFleet -------------------------------
(* Small instances of the fleet's parts, a history being of one of them:     *)
(* the store and its memos, the boats' work, the gear that moves between     *)
(* boats, the cost reports, the certificates, and the day logs (the pier's   *)
(* lock, and a report's figures).                                            *)
EXTENDS FleetStock, FleetWork, FleetGear, FleetBooks, DailyLog

CONSTANTS i1, i2, i4, f1, h1, pn1, pn2, lb1, lb2, lp1, lr1, lr2, fam1

VARIABLE area

TwoNames == [i \in Items |-> IF i = i4 THEN "filter" ELSE "oil"]
Duplicates == [i \in {i1, i2} |-> [w \in Warehouses |-> 0]]

OnePlace == {[boat |-> "b", pos |-> "port"]}
OneGearJob == <<"b">>

SomeWork == {[boat |-> f1, kind |-> "corrective", assets |-> <<>>],
             [boat |-> h1, kind |-> "preventive", assets |-> <<"engine", "engine", "hull">>]}
SomeBuys == {[kind |-> "parts", boat |-> f1, name |-> pn1, stocked |-> FALSE],
             [kind |-> "parts", boat |-> NoWork, name |-> pn2, stocked |-> TRUE],
             [kind |-> "labor", boat |-> h1, name |-> pn2, stocked |-> FALSE]}

LicenceNames == "lic" :> "t1" @@ "licence" :> "t1" @@ "crew" :> "other"

SamePier == lb1 :> lp1 @@ lb2 :> lp1
TwoRoutes(m, n) == lr1 :> m @@ lr2 :> n
BookedThen == [x \in LogDays \X LogBoats |->
    CASE x = <<1, lb1>> -> TwoRoutes(1, 2)
      [] x = <<1, lb2>> -> TwoRoutes(0, 0)
      [] x = <<2, lb2>> -> TwoRoutes(NotKeyed, 3)
      [] OTHER -> TwoRoutes(NotKeyed, NotKeyed)]
TwoFamilies == lr1 :> lr1 @@ lr2 :> fam1
\* Bound of the lock's histories: one boat is moved, logged and locked, on the first day.
OneSheet ==
    /\ \A x \in DOMAIN row : x # <<1, lb1>> => row'[x] = row[x]
    /\ \A x \in DOMAIN price : x[1] = 2 => price'[x] = price[x]
    /\ \A x \in locks' : x[1] = 1
    /\ \A x \in DOMAIN outsiders : x[1] = 2 => outsiders'[x] = outsiders[x]
    /\ atShop' \subseteq LogDays \X {lb1} /\ \A x \in DOMAIN noted : x[2] = lb2 => noted'[x] = NoHome
    /\ \A i \in DOMAIN moves' : moves'[i].boat = lb1

FleetSymmetric == Permutations(JobNos)

\* Bound of the store's histories: a memo is made for two of something, and names the second of the duplicates
\* only once that is the last of them; one of labor names no item; a job that took no part is not deleted.
OneStore ==
    /\ \A m \in DOMAIN memo' :
         /\ memo'[m].item = i2 => item'[i1] # "live"
         /\ memo'[m].type = "labor" => memo'[m].item = None /\ memo'[m].name = NameOf[i1]
         /\ m \notin DOMAIN memo => memo'[m].qty = 2
    /\ job' # job => \A j \in Jobs : job'[j] = "deleted" => \E k \in DOMAIN parts : k[1] = j

\* An area that is not the history's stays in one of its first states.
FleetInit ==
    /\ area \in {"stock", "work", "gear", "books", "certificates", "lock", "report"}
    /\ Init /\ BooksInit /\ CertInit /\ LogInit
    /\ WorkInit /\ (area # "work" => project.status = "none")
    /\ area # "gear" => gearbox = [g \in Gearboxes |-> [on |-> NoEngine, wait |-> Nowhere, status |-> "ready", kept |-> "none"]]
    /\ GearInit /\ (area # "gear" => \A e \in Engines : engine[e].boat = NoBoat)
FleetNext ==
    /\ UNCHANGED area
    /\ \/ /\ area = "stock" /\ Next /\ OneStore
          /\ UNCHANGED <<workVars, gearVars, booksVars, certVars, logVars>>
       \/ /\ area = "work" /\ WorkNext
          /\ UNCHANGED <<vars, gearVars, booksVars, certVars, logVars>>
       \/ /\ area = "gear" /\ GearNext
          /\ UNCHANGED <<vars, workVars, booksVars, certVars, logVars>>
       \/ /\ area = "books" /\ BooksNext
          /\ UNCHANGED <<vars, workVars, gearVars, certVars, logVars>>
       \/ /\ area = "certificates" /\ CertNext
          /\ UNCHANGED <<vars, workVars, gearVars, booksVars, logVars>>
       \/ /\ area = "lock" /\ LogNext /\ OneSheet
          /\ UNCHANGED <<vars, workVars, gearVars, booksVars, certVars>>
       \/ /\ area = "report" /\ logged < MaxLog /\ logged' = logged + 1 /\ RowStep /\ UNCHANGED outsiders
          /\ UNCHANGED <<vars, workVars, gearVars, booksVars, certVars>>
FleetSpec == FleetInit /\ [][FleetNext]_<<vars, workVars, gearVars, booksVars, certVars, logVars, area>>

-----------------------------------------------------------------------------
\* Every variable of the fleet's parts keeps its type.
FleetTypes ==
    /\ area = "stock" => TypeOK
    /\ area = "work" => WorkTypeOK
    /\ area = "gear" => GearTypeOK
    /\ area = "books" => BooksTypeOK
    /\ area = "certificates" => CertTypeOK
    /\ area \in {"lock", "report"} => LogTypeOK

\* The store: what is held is what came in less what went out, across merges, draws and memos; a count
\* is below zero only where someone said so; what a memo received, in however many rounds, is in the store.
StockKept == area = "stock" => StockAccountedFor /\ BelowZeroOnlyByConsent /\ ReceivedIsInStock

\* The boats: one sails only on a day its entries, jobs and projects leave it free, the entry that
\* decides a day is the one that was set for it, and gear moved between boats has one parent.
BoatsKept ==
    /\ area = "work" => SailsOnlyWhenFree /\ EntriesDecideTheirDays
    /\ area = "gear" => OnePerParent

\* The figures: the cost report, the fleet report and the jobs tell the same costs, and a day's fuel is
\* shared out whole among its passengers.
FiguresKept ==
    /\ area = "books" => FiguresAgree
    /\ area \in {"lock", "report"} => LogAccounts

\* What is settled stays: a paid memo, an incident closed by its last job, past days of the boats' log,
\* a saved day, and the renewal that runs longest; goods go under the name their line has when they come.
FleetHistory ==
    [][/\ area = "stock" => PaidStaysSettled /\ ComesUnderItsName
       /\ area = "work" => IncidentClosesLast /\ WorkKeepsThePast
       /\ area = "lock" => SavedDayStands
       /\ area = "certificates" => LongestRenewalShows]_<<vars, workVars, gearVars, booksVars, certVars, logVars, area>>
=============================================================================
