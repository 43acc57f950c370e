----------------------------- MODULE ChangeFeed -----------------------------
(***************************************************************************)
(* The change feed: a write numbers its changes just before it commits,    *)
(* PostgreSQL notifies the instances that listen, and each open stream     *)
(* reads on from its cursor and sends. A client that got a change may come *)
(* back with its number; one that got none, with where it began or with    *)
(* nothing. Whether it comes back is its own affair. Here every write      *)
(* records one change.                                                     *)
(***************************************************************************)
EXTENDS Integers, FiniteSets, FiniteSetsExt

CONSTANTS
    Writes,     \* transactions that record a change
    Streams,    \* clients of GET /v1/changes/stream
    Instances,  \* server instances of the API
    Page,       \* rows a flush asks for at once
    Breaks      \* bound: lost client connections and instance crashes in a behaviour

ASSUME FeedAssumption ==
    Page \in Nat \ {0} /\ Breaks \in Nat /\ IsFiniteSet(Writes) /\ Instances # {}

VARIABLES
    write,      \* [Writes -> where the transaction is]
    version,    \* [Writes -> its change's number, 0 before it has one]
    sequence,   \* last number drawn from changes_version_seq
    listener,   \* instances whose this.listener is set
    listening,  \* instances one of whose connections LISTENs
    notified,   \* instances with a notification under way
    home,       \* [Streams -> the instance that serves it]
    pc,         \* [Streams -> how far its handler is]
    dial,       \* [Streams -> how far the listener's connection it opens is]
    cursor,     \* [Streams -> last number its handler read]
    flush,      \* [Streams -> "idle", or sending: "asked" before the query runs, "read" after]
    again,      \* streams notified while sending
    page,       \* [Streams -> numbers the query answered]
    received,   \* [Streams -> numbers its client got]
    since,      \* [Streams -> where its client began, or began anew, -1 before]
    early,      \* history: streams that subscribed on a listener not yet listening
    breaks

writing == <<write, version, sequence>>
sending == <<cursor, flush, again, page>>
client == <<received, since>>
vars == <<writing, listener, listening, notified, home, pc, dial, sending, client, early, breaks>>

Versions == {version[w] : w \in {v \in Writes : write[v] = "committed"}}
Latest == Max(Versions \cup {0})

-----------------------------------------------------------------------------
(* Writes                                                                  *)

\* Mutant: changes are numbered without the lock.
RecordUnlocked(w) ==
    /\ write[w] = "begun"
    /\ sequence' = sequence + 1
    /\ version' = [version EXCEPT ![w] = sequence']
    /\ write' = [write EXCEPT ![w] = "recorded"]
    /\ UNCHANGED <<listener, listening, notified, home, pc, dial, sending, client, early, breaks>>

\* recordChanges: under the changes lock, which the transaction keeps until it ends.
Record(w) ==
    /\ write[w] = "begun"
    /\ \A v \in Writes : write[v] # "recorded"
    /\ sequence' = sequence + 1
    /\ version' = [version EXCEPT ![w] = sequence']
    /\ write' = [write EXCEPT ![w] = "recorded"]
    /\ UNCHANGED <<listener, listening, notified, home, pc, dial, sending, client, early, breaks>>

\* COMMIT: the change can be read, and pg_notify goes out to who listens.
Commit(w) ==
    /\ write[w] = "recorded"
    /\ write' = [write EXCEPT ![w] = "committed"]
    /\ notified' = notified \cup listening
    /\ UNCHANGED <<version, sequence, listener, listening, home, pc, dial, sending, client, early, breaks>>

\* ROLLBACK, after a refusal or a serialization failure: its number is never used.
Rollback(w) ==
    /\ write[w] = "recorded"
    /\ write' = [write EXCEPT ![w] = "failed"]
    /\ UNCHANGED <<version, sequence, listener, listening, notified, home, pc, dial, sending, client, early, breaks>>

-----------------------------------------------------------------------------
(* Opening a stream                                                        *)

\* GET /v1/changes: a client that has no change yet asks for the number to start from.
AskStart(s) ==
    /\ pc[s] = "away" /\ received[s] = {}
    /\ since' = [since EXCEPT ![s] = Latest]
    /\ UNCHANGED <<writing, listener, listening, notified, home, pc, dial, sending, received, early, breaks>>

\* Mutant: what the client names is not read.
StartsNow(s) == {Latest}
(* Where a stream starts: the Last-Event-ID of a client that got a change, *)
(* else the ?since= it keeps, else the latest number there is now.         *)
Starts(s) == IF received[s] # {} THEN {Max(received[s])}
             ELSE {Latest} \cup ({since[s]} \ {-1})

Open(s, i) ==
    /\ pc[s] = "away" /\ dial[s] = "no"
    /\ \E from \in Starts(s) :
          /\ cursor' = [cursor EXCEPT ![s] = from]
          /\ since' = IF received[s] = {} THEN [since EXCEPT ![s] = from] ELSE since
    /\ home' = [home EXCEPT ![s] = i]
    /\ pc' = [pc EXCEPT ![s] = "opened"]
    /\ UNCHANGED <<writing, listener, listening, notified, dial, flush, again, page, received, early, breaks>>

\* flush(), by each stream of these: one that is sending goes round again.
Flush(of) ==
    /\ again' = again \cup {s \in of : flush[s] # "idle"}
    /\ flush' = [s \in Streams |-> IF s \in of /\ flush[s] = "idle" THEN "asked" ELSE flush[s]]

\* subscribeChanges: the instance's first subscriber opens the connection that listens for all.
Subscribe(s) ==
    /\ pc[s] = "opened"
    /\ IF home[s] \in listener
       THEN /\ pc' = [pc EXCEPT ![s] = "live"]
            /\ early' = IF home[s] \in listening THEN early ELSE early \cup {s}
            /\ Flush({s})
            /\ UNCHANGED dial
       ELSE /\ pc' = [pc EXCEPT ![s] = "dialing"]
            /\ dial' = [dial EXCEPT ![s] = "connecting"]
            /\ UNCHANGED <<early, again, flush>>
    /\ UNCHANGED <<writing, listener, listening, notified, home, cursor, page, client, breaks>>

\* pool.connect() answered: this.listener is set, LISTEN sent.
Connected(s) ==
    /\ dial[s] = "connecting"
    /\ listener' = listener \cup {home[s]}
    /\ dial' = [dial EXCEPT ![s] = "listen"]
    /\ UNCHANGED <<writing, listening, notified, home, pc, sending, client, early, breaks>>

\* LISTEN done: the stream that waited for it reads what it missed.
Listen(s) ==
    /\ dial[s] = "listen"
    /\ listening' = listening \cup {home[s]}
    /\ dial' = [dial EXCEPT ![s] = "no"]
    /\ IF pc[s] = "dialing"
       THEN pc' = [pc EXCEPT ![s] = "live"] /\ Flush({s})
       ELSE UNCHANGED <<pc, flush, again>>
    /\ UNCHANGED <<writing, listener, notified, home, cursor, page, client, early, breaks>>

-----------------------------------------------------------------------------
(* Sending                                                                 *)

Subscribed(i) == {s \in Streams : home[s] = i /\ pc[s] \in {"dialing", "live"}}

Notify(i) ==
    /\ i \in notified
    /\ notified' = notified \ {i}
    /\ Flush(Subscribed(i))
    /\ UNCHANGED <<writing, listener, listening, home, pc, dial, cursor, page, client, early, breaks>>

\* The first Page numbers past n: changesSince, ORDER BY version LIMIT.
Since(n) == {v \in Versions : v > n /\ Cardinality({u \in Versions : n < u /\ u < v}) < Page}

Query(s) ==
    /\ flush[s] = "asked"
    /\ page' = [page EXCEPT ![s] = Since(cursor[s])]
    /\ flush' = [flush EXCEPT ![s] = "read"]
    /\ UNCHANGED <<writing, listener, listening, notified, home, pc, dial, cursor, again, client, early, breaks>>

\* Mutant: a notification that came while sending is forgotten.
SendOnce(s) ==
    /\ flush[s] = "read"
    /\ received' = [received EXCEPT ![s] = @ \cup page[s]]
    /\ cursor' = [cursor EXCEPT ![s] = Max(page[s] \cup {@})]
    /\ page' = [page EXCEPT ![s] = {}]
    /\ flush' = [flush EXCEPT ![s] = "idle"]
    /\ UNCHANGED <<writing, listener, listening, notified, home, pc, dial, again, since, early, breaks>>

\* The rows are written; a full page, or a notification since, asks for more.
Send(s) ==
    /\ flush[s] = "read"
    /\ received' = [received EXCEPT ![s] = @ \cup page[s]]
    /\ cursor' = [cursor EXCEPT ![s] = Max(page[s] \cup {@})]
    /\ page' = [page EXCEPT ![s] = {}]
    /\ LET full == Cardinality(page[s]) = Page
       IN /\ flush' = [flush EXCEPT ![s] = IF full \/ s \in again THEN "asked" ELSE "idle"]
          /\ again' = IF full THEN again ELSE again \ {s}
    /\ UNCHANGED <<writing, listener, listening, notified, home, pc, dial, since, early, breaks>>

-----------------------------------------------------------------------------
(* Failures                                                                *)

Abandon(gone) ==
    /\ pc' = [s \in Streams |-> IF s \in gone THEN "away" ELSE pc[s]]
    /\ flush' = [s \in Streams |-> IF s \in gone THEN "idle" ELSE flush[s]]
    /\ page' = [s \in Streams |-> IF s \in gone THEN {} ELSE page[s]]
    /\ again' = again \ gone
    /\ early' = early \ gone
    /\ breaks' = breaks + 1
    /\ breaks < Breaks

\* A client's connection is lost, with what was not yet written to it. A listener its handler opens goes on.
Drop(s) ==
    /\ pc[s] # "away"
    /\ Abandon({s})
    /\ UNCHANGED <<writing, listener, listening, notified, home, dial, cursor, client>>

\* An instance stops and starts again: its listener and its streams are gone.
Crash(i) ==
    /\ LET here == {s \in Streams : home[s] = i}
       IN Abandon(here) /\ dial' = [s \in Streams |-> IF s \in here THEN "no" ELSE dial[s]]
    /\ listener' = listener \ {i} /\ listening' = listening \ {i} /\ notified' = notified \ {i}
    /\ UNCHANGED <<writing, home, cursor, client>>

-----------------------------------------------------------------------------
Init ==
    /\ write = [w \in Writes |-> "begun"] /\ version = [w \in Writes |-> 0] /\ sequence = 0
    /\ listener = {} /\ listening = {} /\ notified = {}
    /\ home = [s \in Streams |-> CHOOSE i \in Instances : TRUE]  \* no matter which, before it is opened
    /\ pc = [s \in Streams |-> "away"] /\ dial = [s \in Streams |-> "no"]
    /\ cursor = [s \in Streams |-> 0] /\ flush = [s \in Streams |-> "idle"]
    /\ again = {} /\ page = [s \in Streams |-> {}]
    /\ received = [s \in Streams |-> {}] /\ since = [s \in Streams |-> -1]
    /\ early = {} /\ breaks = 0

Writing(w) == Record(w) \/ Commit(w) \/ Rollback(w)
Serving(s) == Subscribe(s) \/ Connected(s) \/ Listen(s) \/ Query(s) \/ Send(s)
Opening(s) == \E i \in Instances : Open(s, i)

Next ==
    \/ \E w \in Writes : Writing(w)
    \/ \E s \in Streams : AskStart(s) \/ Opening(s) \/ Serving(s) \/ Drop(s)
    \/ \E i \in Instances : Notify(i) \/ Crash(i)

(* A transaction that recorded ends; PostgreSQL answers and notifies; the  *)
(* handler goes on. No write need begin, nothing need break, and no client *)
(* need open a stream or come back: that is outside this code.             *)
Fairness ==
    /\ \A w \in Writes : WF_vars(Commit(w) \/ Rollback(w))
    /\ \A s \in Streams : WF_vars(Serving(s))
    /\ \A i \in Instances : WF_vars(Notify(i))

Spec == Init /\ [][Next]_vars /\ Fairness

-----------------------------------------------------------------------------
(* Properties                                                              *)

TypeOK ==
    /\ write \in [Writes -> {"begun", "recorded", "committed", "failed"}]
    /\ version \in [Writes -> 0..Cardinality(Writes)] /\ sequence \in 0..Cardinality(Writes)
    /\ listener \subseteq Instances /\ listening \subseteq listener /\ notified \subseteq listening
    /\ home \in [Streams -> Instances]
    /\ pc \in [Streams -> {"away", "opened", "dialing", "live"}]
    /\ dial \in [Streams -> {"no", "connecting", "listen"}]
    /\ flush \in [Streams -> {"idle", "asked", "read"}]
    /\ again \subseteq {s \in Streams : flush[s] # "idle"} /\ early \subseteq Streams
    /\ \A s \in Streams : page[s] \subseteq Versions /\ received[s] \subseteq Versions

(* A client that has read up to N never misses an earlier one still        *)
(* committing: whatever commits later has a higher number (recordChanges'  *)
(* lock), through lost connections and crashes.                            *)
NeverMissesEarlier ==
    \A s \in Streams : \A n \in received[s] :
        \A v \in Versions : since[s] < v /\ v < n => v \in received[s]

Owed(s, w) == pc[s] # "away" /\ write[w] = "committed" /\ since[s] < version[w]
Got(s, w) == version[w] \in received[s]
Away(s) == pc[s] = "away"

(* An open stream is sent each change past where its client began, what    *)
(* was committed while the client was away too: through notifications      *)
(* that arrive while it reads, and the crashes and lost connections of     *)
(* others, or it is lost before; unless it subscribed while the instance's *)
(* LISTEN was still under way.                                             *)
EveryChangeSent == \A s \in Streams, w \in Writes : Owed(s, w) ~> (Got(s, w) \/ Away(s) \/ s \in early)
=============================================================================
