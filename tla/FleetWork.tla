------------------------------ MODULE FleetWork ------------------------------
(***************************************************************************)
(* Whether a boat of the company's own sails on a day: the status log a    *)
(* person keeps, and the maintenance jobs and the project that hold the    *)
(* boat, which write that log too.                                         *)
(*                                                                         *)
(* One boat, one project and one incident. The confirms that only refuse   *)
(* (create_anyway, the bill gate), costs, parts and the lines written for  *)
(* people are left out.                                                    *)
(***************************************************************************)
EXTENDS Integers, Sequences, FiniteSets, FiniteSetsExt, SequencesExt, TLC

CONSTANTS
    JobIds, JobNos,     \* jobs as they are made, 1, 2, ..., and the numbers people give them
    ProjectNo,          \* the project's number
    FirstDay, LastDay,  \* the day a history begins, and the last one looked at
    PickedStatuses,     \* the statuses a person sets
    JobStatuses,        \* the statuses a job holds its boat at, "available" for none
    StartDays,          \* the start dates a person gives a job
    NoJob,
    MaxAsks             \* bound: the requests of a history

Days == 1..LastDay
Forever == LastDay + 2      \* to_date: null
Always == 0                 \* start_date: null

ASSUME WorkAssumption ==
    /\ FirstDay \in Nat \ {0} /\ LastDay \in Nat /\ FirstDay <= LastDay
    /\ PickedStatuses \cup JobStatuses \subseteq {"available", "fixing", "unavailable"}
    /\ StartDays \subseteq {Always} \cup Days
    /\ NoJob \notin JobIds /\ ProjectNo \notin JobNos

BoatStatuses == {"available", "fixing", "unavailable"}
Nos == JobNos \cup {ProjectNo}
\* `over` is the work planned over, `names` the jobs its note names, `project` whether it is the project's.
Entries == [status : BoatStatuses, from : Nat, to : Nat, over : SUBSET Nos, names : SUBSET JobNos, project : BOOLEAN]
JobRows == [status : {"pending", "inprogress", "done", "deleted"}, no : JobNos, boat : BoatStatuses,
            start : {Always} \cup Days, incident : BOOLEAN, project : BOOLEAN]
ProjectStatuses == {"none", "planned", "inprogress", "on_hold", "awaiting_bill", "completed", "cancelled"}

VARIABLES
    today,
    boatLog,        \* Seq(Entries)
    jobs,           \* the jobs made
    project,        \* its status, actual start (or Always) and whether it is this boat's
    incident,       \* its state and the job it links to
    agreed,         \* history: the work, by id and number, and the days someone planned the boat over it
    asks            \* bound: the requests made

works == <<boatLog, jobs, project, incident, agreed>>
workVars == <<today, works, asks>>

-----------------------------------------------------------------------------
(* Availability                                                            *)

Alive == {j \in DOMAIN jobs : jobs[j].status # "deleted"}
Open == {j \in Alive : jobs[j].status # "done"}

\* The entry covering a day: the one starting latest; of two starting the same day, the one added later.
Covering(log, d) == {k \in DOMAIN log : log[k].from <= d /\ d <= log[k].to}
CoveringEntry(log, d) ==
    LET covering == Covering(log, d)
        decides(k) == \A o \in covering : log[o].from < log[k].from \/ (log[o].from = log[k].from /\ o <= k)
    IN  {log[k] : k \in {c \in covering : decides(c)}}
StoredStatus(log, d) ==
    LET entry == CoveringEntry(log, d) IN IF entry = {} THEN "available" ELSE (CHOOSE e \in entry : TRUE).status

\* The started jobs that hold the boat, and the project while it runs or rests.
JobWork == {[id |-> j, no |-> jobs[j].no, status |-> jobs[j].boat, from |-> jobs[j].start] :
               j \in {k \in Alive : jobs[k].status = "inprogress" /\ jobs[k].boat # "available"}}
ProjectWork == {[id |-> ProjectNo, no |-> ProjectNo, status |-> "unavailable", from |-> project.from] :
                   p \in {q \in {project} : q.boat /\ q.status \in {"inprogress", "on_hold"}}}
OpenWork == JobWork \cup ProjectWork
\* Work that holds the boat on a day, but for what was planned over.
WorkOn(work, d, skip) == {w \in work : w.from <= d /\ w.no \notin skip}
Strictest(held) == IF \E w \in held : w.status = "unavailable" THEN "unavailable" ELSE "fixing"

\* availability: the log's status, unless it says available and work holds the boat.
\* Mutant: work planned over once holds the boat no more.
AvailabilityPlanned(d) ==
    LET stored == StoredStatus(boatLog, d)
        held == WorkOn(OpenWork, d, UNION {boatLog[k].over : k \in DOMAIN boatLog})
    IN  IF stored = "available" /\ held # {} THEN Strictest(held) ELSE stored
Availability(d) ==
    LET stored == StoredStatus(boatLog, d)
        held == WorkOn(OpenWork, d, UNION {e.over : e \in {c \in CoveringEntry(boatLog, d) : c.status = "available"}})
    IN  IF stored = "available" /\ held # {} THEN Strictest(held) ELSE stored

-----------------------------------------------------------------------------
(* The status log                                                          *)

Entry(status, from, to) ==
    [status |-> status, from |-> from, to |-> to, over |-> {}, names |-> {}, project |-> FALSE]
Naming(e, nos) == [e EXCEPT !.names = nos]

(* closeOverlaps: an entry running into the new one ends the day before,   *)
(* its part after it kept as a new entry; one starting inside is cut to    *)
(* after it, or removed.                                                   *)
\* Mutants: an entry running into the new one goes whole; one starting inside it stays.
CutWhole(e, from, to) ==
    CASE e.from < from /\ e.to >= from -> <<>>
      [] e.from < from \/ e.from > to -> <<e>>
      [] e.to > to -> <<[e EXCEPT !.from = to + 1]>>
      [] OTHER -> <<>>
CutBefore(e, from, to) ==
    CASE e.from < from /\ e.to >= from -> <<[e EXCEPT !.to = from - 1]>>
      [] OTHER -> <<e>>
Cut(e, from, to) ==
    CASE e.from < from /\ e.to >= from -> <<[e EXCEPT !.to = from - 1]>>
      [] e.from < from \/ e.from > to -> <<e>>
      [] e.to > to -> <<[e EXCEPT !.from = to + 1]>>
      [] OTHER -> <<>>
After(e, from, to) == IF e.from < from /\ e.to > to THEN <<[e EXCEPT !.from = to + 1]>> ELSE <<>>
CloseOverlaps(log, from, to) ==
    FlattenSeq([k \in DOMAIN log |-> Cut(log[k], from, to)]) \o FlattenSeq([k \in DOMAIN log |-> After(log[k], from, to)])

(* planAhead: an available entry whose first day work holds the boat is    *)
(* planned over that work, and only when told to.                          *)
PlanAhead(e, ahead) ==
    LET held == IF e.status = "available" THEN WorkOn(OpenWork, e.from, {}) ELSE {}
    IN  [entry |-> [e EXCEPT !.over = {w.no : w \in held}], held |-> held, may |-> held # {} => ahead]
AgreeToPlan(plan) ==
    agreed' = agreed \cup {<<w.id, w.no, d>> : w \in plan.held, d \in {x \in Days : plan.entry.from <= x /\ x <= plan.entry.to}}

\* POST /v1/boats/{id}/status-log
AddStatusEntry(status, from, to, ahead) ==
    LET plan == PlanAhead(Entry(status, from, to), ahead)
    IN  /\ from <= to /\ plan.may
        /\ boatLog' = Append(CloseOverlaps(boatLog, from, to), plan.entry)
        /\ AgreeToPlan(plan)
        /\ UNCHANGED <<jobs, project, incident>>
\* PATCH /v1/boats/{id}/status-log/{entry_id}: in place, and an entry has an end.
EditStatusEntry(k, status, from, to, ahead) ==
    LET plan == PlanAhead([boatLog[k] EXCEPT !.status = status, !.from = from, !.to = to], ahead)
    IN  /\ from <= to /\ plan.may
        /\ boatLog' = [boatLog EXCEPT ![k] = plan.entry]
        /\ AgreeToPlan(plan)
        /\ UNCHANGED <<jobs, project, incident>>
\* DELETE /v1/boats/{id}/status-log/{entry_id}
DeleteStatusEntry(k) == boatLog' = RemoveAt(boatLog, k) /\ UNCHANGED <<jobs, project, incident, agreed>>
\* The boat form's status: open-ended from today, when it differs.
FormStatus(status) ==
    /\ StoredStatus(boatLog, today) # status
    /\ boatLog' = Append(CloseOverlaps(boatLog, today, Forever), Entry(status, today, Forever))
    /\ UNCHANGED <<jobs, project, incident, agreed>>

-----------------------------------------------------------------------------
(* Incidents and jobs                                                      *)

\* POST /v1/fleet/incidents: one fixed at once is resolved.
NewIncident(quick) ==
    /\ incident.state = "none"
    /\ incident' = [state |-> IF quick THEN "resolved" ELSE "open", job |-> NoJob]
    /\ UNCHANGED <<boatLog, jobs, project, agreed>>
\* DELETE /v1/fleet/incidents/{id}: its jobs stay.
DeleteIncident ==
    /\ incident.state \notin {"none", "deleted"}
    /\ incident' = [incident EXCEPT !.state = "deleted"]
    /\ UNCHANGED <<boatLog, jobs, project, agreed>>

\* assertNoFree: a number is used by one job at a time.
NoFree(no, self) == \A j \in Alive \ {self} : jobs[j].no # no

(* POST /v1/fleet/jobs: one, or one per damaged asset of its incident,     *)
(* which must not have one already.                                        *)
NewJobs(nos, boat, start, ofIncident, ofProject) ==
    LET made == DOMAIN nos
    IN  /\ made # {} /\ made = 1 + Cardinality(DOMAIN jobs)..Cardinality(made \cup DOMAIN jobs)
        /\ \A j \in made : NoFree(nos[j], j) /\ \A k \in made : nos[j] = nos[k] => j = k
        /\ Cardinality(made) > 1 => ofIncident
        /\ ofIncident => incident.state \notin {"none", "deleted"} /\ incident.job \notin Alive
        /\ ofProject => project.status # "none"
        /\ jobs' = [j \in made \cup DOMAIN jobs |->
                      IF j \in made THEN [status |-> "pending", no |-> nos[j], boat |-> boat, start |-> start,
                                          incident |-> ofIncident, project |-> ofProject] ELSE jobs[j]]
        /\ \E first \in made : incident' = IF ofIncident THEN [incident EXCEPT !.job = first] ELSE incident
        /\ UNCHANGED <<boatLog, project, agreed>>

PutJob(j, row) == jobs' = [jobs EXCEPT ![j] = row]

(* POST .../start: the boat goes to the job's status, from tomorrow when   *)
(* it sailed today; what was planned from today on goes.                   *)
StartJob(j, ranToday) ==
    /\ jobs[j].status = "pending"
    /\ PutJob(j, [jobs[j] EXCEPT !.status = "inprogress"])
    /\ boatLog' = IF jobs[j].boat = "available" THEN boatLog
                  ELSE Append(CloseOverlaps(boatLog, today, Forever),
                              Naming(Entry(jobs[j].boat, IF ranToday THEN today + 1 ELSE today, Forever), {jobs[j].no}))
    /\ UNCHANGED <<project, incident, agreed>>

\* Mutant: the incident closes with the job it links to.
AllDoneLinked(j) == incident.job = j
AllDone(j) == \A k \in Alive \ {j} : jobs[k].incident => jobs[k].status = "done"

(* POST .../close: the boat goes to the outcome's status unless other work *)
(* holds it; a job run alongside it leaves its log alone. The incident     *)
(* closes with the last of its jobs.                                       *)
CloseJob(j, outcome) ==
    LET job == jobs[j]
        held == {w \in WorkOn(OpenWork, today, {}) : w.id # j}
        status == CASE held # {} -> Strictest(held) [] outcome = "rework" -> "fixing" [] OTHER -> "available"
    IN  /\ j \in Open
        /\ PutJob(j, [job EXCEPT !.status = "done"])
        /\ boatLog' = IF job.boat = "available" THEN boatLog
                      ELSE Append(CloseOverlaps(boatLog, today, Forever),
                                  Naming(Entry(status, today, Forever), {job.no} \cup ({w.no : w \in held} \cap JobNos)))
        /\ incident' = IF job.incident /\ outcome # "cancelled" /\ incident.state \in {"open", "resolved"} /\ AllDone(j)
                       THEN [incident EXCEPT !.state = "closed"] ELSE incident
        /\ UNCHANGED <<project, agreed>>

(* POST .../boat-status, of a job not closed: the open entries naming the  *)
(* job end that day, and one with the new status begins.                   *)
JobBoatStatus(j, status, date) ==
    LET job == jobs[j]
        ended(e) == IF e.to = Forever /\ job.no \in e.names THEN [e EXCEPT !.to = IF date < e.from THEN e.from ELSE date] ELSE e
    IN  /\ j \in Open /\ status # job.boat
        /\ PutJob(j, [job EXCEPT !.boat = status])
        /\ boatLog' = Append([k \in DOMAIN boatLog |-> ended(boatLog[k])], Naming(Entry(status, date, Forever), {job.no}))
        /\ UNCHANGED <<project, incident, agreed>>

\* DELETE /v1/fleet/jobs/{id}: not a closed one; the boat's log stays as the job wrote it.
DeleteJob(j) ==
    /\ j \in Open /\ PutJob(j, [jobs[j] EXCEPT !.status = "deleted"])
    /\ UNCHANGED <<boatLog, project, incident, agreed>>
\* POST .../split, of any job: a part of it as a pending job of its own.
SplitJob(j, k, no) ==
    /\ j \in Alive /\ k = 1 + Cardinality(DOMAIN jobs) /\ NoFree(no, k)
    /\ jobs' = [i \in {k} \cup DOMAIN jobs |-> IF i = k THEN [jobs[j] EXCEPT !.status = "pending", !.no = no] ELSE jobs[i]]
    /\ UNCHANGED <<boatLog, project, incident, agreed>>
\* PATCH /v1/fleet/jobs/{id}
PatchJob(j, no, start, ofProject) ==
    /\ j \in Alive /\ NoFree(no, j) /\ (ofProject => project.status # "none")
    /\ PutJob(j, [jobs[j] EXCEPT !.no = no, !.start = start, !.project = ofProject])
    /\ UNCHANGED <<boatLog, project, incident, agreed>>

-----------------------------------------------------------------------------
(* The project                                                             *)

ToStatus(status) == project' = [project EXCEPT !.status = status]
BoatUnavailable(log) == Append(log, [Entry("unavailable", today, Forever) EXCEPT !.project = TRUE])
\* Its own open entries end today, and the boat is available.
BoatReturned(log) ==
    Append([k \in DOMAIN log |-> IF log[k].project /\ log[k].to = Forever THEN [log[k] EXCEPT !.to = today] ELSE log[k]],
           Entry("available", today, Forever))
IfItsBoat(log) == boatLog' = IF project.boat THEN log ELSE boatLog
Children == {j \in Open : jobs[j].project}
\* The cascade closes the open child jobs and nothing else of theirs.
ClosedChildJobs == [j \in DOMAIN jobs |-> IF j \in Children THEN [jobs[j] EXCEPT !.status = "done"] ELSE jobs[j]]

PlanProject(ours) ==
    /\ project.status = "none" /\ project' = [status |-> "planned", from |-> Always, boat |-> ours]
    /\ UNCHANGED <<boatLog, jobs, incident, agreed>>
\* PATCH /v1/fleet/projects/{id}: its boat changes at any time, the log does not.
MoveProject == /\ project.status # "none" /\ project' = [project EXCEPT !.boat = ~@]
               /\ UNCHANGED <<boatLog, jobs, incident, agreed>>
StartProject ==
    /\ project.status = "planned"
    /\ project' = [project EXCEPT !.status = "inprogress", !.from = IF @ = Always THEN today ELSE @]
    /\ IfItsBoat(BoatUnavailable(boatLog)) /\ UNCHANGED <<jobs, incident, agreed>>
HoldProject == project.status = "inprogress" /\ ToStatus("on_hold") /\ UNCHANGED <<boatLog, jobs, incident, agreed>>
ResumeProject == project.status = "on_hold" /\ ToStatus("inprogress") /\ UNCHANGED <<boatLog, jobs, incident, agreed>>
\* The open child jobs go on alone when told so, else stay under it.
CancelProject(unlink) ==
    /\ project.status \notin {"none", "completed", "cancelled"} /\ ToStatus("cancelled")
    /\ IF project.status \in {"inprogress", "on_hold"} THEN IfItsBoat(BoatReturned(boatLog)) ELSE UNCHANGED boatLog
    /\ jobs' = [j \in DOMAIN jobs |-> IF unlink /\ j \in Children THEN [jobs[j] EXCEPT !.project = FALSE] ELSE jobs[j]]
    /\ UNCHANGED <<incident, agreed>>
ReopenProject == project.status = "cancelled" /\ ToStatus("planned") /\ UNCHANGED <<boatLog, jobs, incident, agreed>>
WorkDone ==
    /\ project.status = "inprogress" /\ ToStatus("awaiting_bill")
    /\ IfItsBoat(BoatReturned(boatLog)) /\ jobs' = ClosedChildJobs /\ UNCHANGED <<incident, agreed>>
BillBack ==
    LET ended(e) == IF e.status = "available" /\ e.to = Forever THEN [e EXCEPT !.to = today] ELSE e
    IN  /\ project.status = "awaiting_bill" /\ ToStatus("inprogress")
        /\ IfItsBoat(BoatUnavailable([k \in DOMAIN boatLog |-> ended(boatLog[k])])) /\ UNCHANGED <<jobs, incident, agreed>>
CompleteProject ==
    /\ project.status \in {"inprogress", "awaiting_bill"} /\ ToStatus("completed")
    /\ IF project.status = "inprogress" THEN IfItsBoat(BoatReturned(boatLog)) /\ jobs' = ClosedChildJobs ELSE UNCHANGED <<boatLog, jobs>>
    /\ UNCHANGED <<incident, agreed>>

-----------------------------------------------------------------------------
WorkInit ==
    /\ today = FirstDay /\ boatLog = <<>> /\ jobs = [j \in {} |-> NoJob]
    /\ \/ project = [status |-> "planned", from |-> Always, boat |-> TRUE] /\ incident = [state |-> "none", job |-> NoJob]
       \/ project = [status |-> "none", from |-> Always, boat |-> FALSE] /\ incident = [state |-> "open", job |-> NoJob]
    /\ agreed = {} /\ asks = 0

\* A job's own steps, each made once.
WorkStep ==
    \E j \in DOMAIN jobs :
        \/ \E ranToday \in BOOLEAN : StartJob(j, ranToday)
        \/ \E outcome \in {"success", "rework", "cancelled"} : CloseJob(j, outcome)
WorkRequest ==
    \/ \E status \in PickedStatuses, from \in Days, to \in Days, ahead \in BOOLEAN :
         \/ AddStatusEntry(status, from, to, ahead)
         \/ \E k \in DOMAIN boatLog : EditStatusEntry(k, status, from, to, ahead)
    \/ \E k \in DOMAIN boatLog : DeleteStatusEntry(k)
    \/ \E status \in PickedStatuses : FormStatus(status)
    \/ \E made \in SUBSET JobIds, boat \in JobStatuses, start \in StartDays, ofIncident \in BOOLEAN, ofProject \in BOOLEAN :
         \E nos \in [made -> JobNos] : NewJobs(nos, boat, start, ofIncident, ofProject)
    \/ \E j \in DOMAIN jobs :
         \/ \E status \in JobStatuses, date \in Days : JobBoatStatus(j, status, date)
         \/ \E k \in JobIds, no \in JobNos : SplitJob(j, k, no)
         \/ \E no \in JobNos, start \in StartDays, ofProject \in BOOLEAN : PatchJob(j, no, start, ofProject)
         \/ DeleteJob(j)
    \/ \E b \in BOOLEAN : NewIncident(b) \/ PlanProject(b) \/ CancelProject(b)
    \/ DeleteIncident \/ MoveProject
    \/ StartProject \/ HoldProject \/ ResumeProject \/ ReopenProject \/ WorkDone \/ BillBack \/ CompleteProject
NextDay == today < LastDay /\ today' = today + 1 /\ UNCHANGED works

WorkNext ==
    \/ NextDay /\ UNCHANGED asks
    \/ WorkStep /\ UNCHANGED <<today, asks>>
    \/ asks < MaxAsks /\ asks' = asks + 1 /\ WorkRequest /\ UNCHANGED today
WorkSpec == WorkInit /\ [][WorkNext]_workVars

-----------------------------------------------------------------------------
(* Properties                                                              *)

\* Every variable keeps its type, and a job's boat status is one it may have.
WorkTypeOK ==
    /\ today \in Days /\ boatLog \in Seq(Entries)
    /\ DOMAIN jobs \subseteq JobIds /\ \A j \in DOMAIN jobs : jobs[j] \in JobRows
    /\ project \in [status : ProjectStatuses, from : {Always} \cup Days, boat : BOOLEAN]
    /\ incident \in [state : {"none", "open", "resolved", "closed", "deleted"}, job : JobIds \cup {NoJob}]
    /\ agreed \subseteq (JobIds \cup {ProjectNo}) \X Nos \X Days

(* A boat that work holds is not shown available on a day the work reaches *)
(* unless someone agreed to plan it, that day, over work of that number:   *)
(* through entries cut, split, edited and deleted, jobs closed beside      *)
(* others, and a project that comes and goes.                              *)
SailsOnlyWhenFree ==
    \A d \in Days : \A w \in OpenWork :
        w.from <= d /\ Availability(d) = "available" => \E id \in JobIds \cup {ProjectNo} : <<id, w.no, d>> \in agreed

(* An incident closes on the close of the last of its jobs: of several     *)
(* made per asset or split later, none is open then.                       *)
IncidentClosesLast ==
    incident.state # "closed" /\ incident'.state = "closed"
      => \A j \in DOMAIN jobs' : jobs'[j].incident => jobs'[j].status \in {"done", "deleted"}

(* An entry decides the days it is for and moves none before them, in      *)
(* whatever order and overlap jobs, the project and people left the log.   *)
EntriesDecideTheirDays ==
    \A from \in Days, to \in Days \cup {Forever} : from <= to =>
        LET log == Append(CloseOverlaps(boatLog, from, to), Entry("unavailable", from, to))
        IN  \A d \in 1..Min({to, LastDay}) :
              StoredStatus(log, d) = IF from <= d THEN "unavailable" ELSE StoredStatus(boatLog, d)

(* Jobs and the project write the log from today on: what the boat was on  *)
(* the days before stays, unless a job's boat status is dated back.        *)
WorkKeepsThePast ==
    (jobs' # jobs \/ project' # project) /\ (\A j \in DOMAIN jobs : jobs'[j].boat = jobs[j].boat)
      => \A d \in 1..(today - 1) : StoredStatus(boatLog', d) = StoredStatus(boatLog, d)
=============================================================================
