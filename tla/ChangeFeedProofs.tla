-------------------------- MODULE ChangeFeedProofs --------------------------
(***************************************************************************)
(* What the change feed promises for any finite number of writes and any   *)
(* number of clients, instances, lost connections and crashes: its types,  *)
(* and that a client that got a change misses no earlier one.              *)
(***************************************************************************)
EXTENDS ChangeFeed, FiniteSetTheorems, WellFoundedInduction, TLAPS

Numbers == 0..Cardinality(Writes)
Numbered == {w \in Writes : write[w] # "begun"}

\* Every number drawn is one transaction's: as many as numbered, all different.
Drawn ==
    /\ sequence = Cardinality(Numbered)
    /\ \A w \in Writes : IF w \in Numbered THEN 0 < version[w] /\ version[w] <= sequence ELSE version[w] = 0

\* One transaction at a time holds the changes lock, and its number is past all that can be read.
LastRecorded ==
    \A w \in Writes : write[w] = "recorded" =>
        \A v \in Writes \ {w} : write[v] # "recorded" /\ (write[v] = "committed" => version[v] < version[w])

\* A listener being set up is its instance's.
Dialed == \A s \in Streams : dial[s] = "listen" => home[s] \in listener

\* Where a stream reads on from is a number a reader can have seen.
Cursors ==
    /\ cursor \in [Streams -> Int] /\ since \in [Streams -> Int]
    /\ page \in [Streams -> SUBSET Int] /\ received \in [Streams -> SUBSET Int]
    /\ \A s \in Streams : cursor[s] \in Versions \cup {0} /\ since[s] \in Versions \cup {0, -1}

\* The rows in hand follow the cursor with none left out, and only a read leaves rows in hand.
Pages ==
    \A s \in Streams :
        /\ flush[s] # "read" => page[s] = {}
        /\ pc[s] \in {"away", "opened"} => flush[s] = "idle"
        /\ \A n \in page[s] : cursor[s] < n /\ \A v \in Versions : cursor[s] < v /\ v < n => v \in page[s]

\* A client has all between where it began and its cursor, and nothing past it.
Caught ==
    \A s \in Streams :
        /\ \A n \in received[s] : n <= cursor[s]
        /\ \A v \in Versions : since[s] < v /\ v <= cursor[s] => v \in received[s]

FeedInv == TypeOK /\ Drawn /\ LastRecorded /\ Dialed /\ Cursors /\ Pages /\ Caught

-----------------------------------------------------------------------------
(* The largest of some numbers                                             *)

LEMMA MaxIsLargest ==
    ASSUME NEW n \in Nat, NEW S \in SUBSET (0..n), S # {}
    PROVE  Max(S) \in S /\ \A m \in S : Max(S) >= m
<1> DEFINE Gaps == {n - m : m \in S}
<1>1. \A m \in S : m \in Int /\ n - m \in Nat
  OBVIOUS
<1>2. Gaps \subseteq Nat /\ Gaps # {}
  BY <1>1
<1> HIDE DEF Gaps
<1>3. PICK g \in Gaps : \A h \in Gaps : ~(<<h, g>> \in OpToRel(<, Nat))
  BY <1>2, NatLessThanWellFounded, WFMin
<1>4. \A h \in Gaps : g <= h
  <2> TAKE h \in Gaps
  <2>1. g \in Nat /\ h \in Nat /\ <<h, g>> \in Nat \X Nat
    BY <1>2
  <2>2. h < g => <<h, g>> \in OpToRel(<, Nat)
    BY <2>1, Zenon DEF OpToRel
  <2>3. ~(h < g)
    BY <1>3, <2>2, Zenon
  <2> QED
    BY <2>1, <2>3
<1>5. PICK m \in S : g = n - m
  BY DEF Gaps
<1>6. \A k \in S : m >= k
  <2> TAKE k \in S
  <2>1. g <= n - k
    BY <1>4 DEF Gaps
  <2> QED
    BY <2>1, <1>5, <1>1
<1> QED
  BY <1>6, Zenon DEF Max

LEMMA NumberedFacts ==
    ASSUME write \in [Writes -> {"begun", "recorded", "committed", "failed"}], Drawn
    PROVE  IsFiniteSet(Numbered) /\ sequence \in Numbers
<1>1. IsFiniteSet(Writes) /\ Numbered \in SUBSET Writes
  BY FeedAssumption DEF Numbered
<1>2. IsFiniteSet(Numbered) /\ Cardinality(Numbered) <= Cardinality(Writes)
  BY <1>1, FS_Subset
<1>3. Cardinality(Numbered) \in Nat /\ Cardinality(Writes) \in Nat
  BY <1>1, <1>2, FS_CardinalityType
<1> QED
  BY <1>2, <1>3 DEF Drawn, Numbers

\* What can be read was numbered; each such number is one transaction's.
LEMMA VersionsFacts ==
    ASSUME FeedInv
    PROVE  /\ sequence \in Nat /\ Cardinality(Writes) \in Nat
           /\ Versions \subseteq 1..sequence
           /\ \A w \in Writes : version[w] \in 0..sequence
           /\ IsFiniteSet(Versions)
<1>1. IsFiniteSet(Writes) /\ Cardinality(Writes) \in Nat
  BY FeedAssumption, FS_CardinalityType
<1>2. sequence \in Nat
  BY <1>1 DEF FeedInv, TypeOK
<1>3. \A w \in Writes : version[w] \in 0..sequence /\ (w \in Numbered => version[w] \in 1..sequence)
  BY <1>1, <1>2 DEF FeedInv, TypeOK, Drawn
<1>4. Versions \subseteq 1..sequence
  BY <1>3 DEF Versions, Numbered
<1>5. IsFiniteSet(1..sequence)
  BY <1>2, FS_Interval
<1>6. IsFiniteSet(Versions)
  BY <1>4, <1>5, FS_Subset
<1> QED
  BY <1>1, <1>2, <1>3, <1>4, <1>6

\* A step that commits nothing leaves what can be read.
LEMMA SameVersions ==
    ASSUME \A w \in Writes : (write'[w] = "committed") = (write[w] = "committed"),
           \A w \in Writes : write[w] = "committed" => version'[w] = version[w]
    PROVE  Versions' = Versions
  BY DEF Versions

\* With what can be read unchanged, so are the claims about streams that stay as they are.
LEMMA StreamsStay ==
    ASSUME FeedInv, Versions' = Versions, UNCHANGED <<cursor, received, since, page>>
    PROVE  Cursors' /\ Caught'
           /\ \A s \in Streams : page'[s] \subseteq Versions' /\ received'[s] \subseteq Versions'
  BY DEF FeedInv, TypeOK, Cursors, Caught

LEMMA PagesStay ==
    ASSUME FeedInv, Versions' = Versions, UNCHANGED <<cursor, page, pc, flush>>
    PROVE  Pages'
  BY DEF FeedInv, Pages

-----------------------------------------------------------------------------
(* Writes                                                                  *)

LEMMA RecordKeeps == ASSUME FeedInv, NEW w \in Writes, Record(w) PROVE FeedInv'
<1> USE DEF Record, sending, client
<1>1. write \in [Writes -> {"begun", "recorded", "committed", "failed"}] /\ version \in [Writes -> Numbers] /\ sequence \in Numbers
  BY DEF FeedInv, TypeOK, Numbers
<1>2. Cardinality(Writes) \in Nat /\ sequence \in Nat /\ \A v \in Writes : version[v] \in 0..sequence
  BY VersionsFacts
<1>3. Versions' = Versions
  BY <1>1, SameVersions
<1>4. Numbered' = Numbered \cup {w} /\ w \notin Numbered
  BY <1>1 DEF Numbered
<1>5. IsFiniteSet(Numbered) /\ sequence = Cardinality(Numbered)
  BY <1>1, NumberedFacts DEF FeedInv, Drawn
<1>6. sequence' = Cardinality(Numbered')
  BY <1>2, <1>4, <1>5, FS_AddElement
<1>7. write' \in [Writes -> {"begun", "recorded", "committed", "failed"}]
  BY <1>1
<1>8. sequence' \in Numbers
  <2>1. IsFiniteSet(Writes) /\ Numbered' \in SUBSET Writes
    BY FeedAssumption DEF Numbered
  <2>2. Cardinality(Numbered') <= Cardinality(Writes)
    BY <2>1, FS_Subset
  <2> QED
    BY <1>2, <1>6, <2>2 DEF Numbers
<1>9. version' \in [Writes -> Numbers]
  BY <1>1, <1>8
<1>10. Drawn'
  <2>1. ASSUME NEW v \in Writes
        PROVE  IF v \in Numbered' THEN 0 < version'[v] /\ version'[v] <= sequence' ELSE version'[v] = 0
    BY <1>1, <1>2, <1>4 DEF FeedInv, Drawn
  <2> QED
    BY <1>6, <2>1 DEF Drawn
<1>11. LastRecorded'
  <2>1. \A v \in Writes \ {w} : write'[v] = write[v] /\ version'[v] = version[v] /\ write[v] # "recorded"
    BY <1>1
  <2>2. version'[w] = sequence + 1
    BY <1>1
  <2> QED
    BY <1>2, <2>1, <2>2 DEF LastRecorded
<1>12. Dialed'
  BY DEF FeedInv, Dialed
<1>13. TypeOK'
  BY <1>3, <1>7, <1>8, <1>9 DEF FeedInv, TypeOK, Numbers
<1> QED
  BY <1>3, <1>10, <1>11, <1>12, <1>13, StreamsStay, PagesStay DEF FeedInv

LEMMA CommitKeeps == ASSUME FeedInv, NEW w \in Writes, Commit(w) PROVE FeedInv'
<1> USE DEF Commit, sending, client
<1> DEFINE n == version[w]
<1>1. write \in [Writes -> {"begun", "recorded", "committed", "failed"}] /\ version \in [Writes -> Numbers]
  BY DEF FeedInv, TypeOK, Numbers
<1>2. Numbered' = Numbered
  BY <1>1 DEF Numbered
<1>3. Drawn' /\ Dialed'
  BY <1>2 DEF FeedInv, Drawn, Dialed
<1>4. LastRecorded'
  BY <1>1 DEF FeedInv, LastRecorded
<1>5. Versions' = Versions \cup {n}
  BY <1>1 DEF Versions
<1>6. n \in Nat \ {0} /\ \A v \in Versions : v \in Nat /\ v < n
  <2>1. Versions \subseteq 1..sequence /\ sequence \in Nat /\ n \in 0..sequence
    BY VersionsFacts
  <2>2. n > 0
    BY <1>1, <2>1 DEF FeedInv, Drawn, Numbered
  <2>3. ASSUME NEW v \in Versions PROVE v < n
    BY <1>1 DEF FeedInv, LastRecorded, Versions
  <2> QED
    <3>1. n \in Nat \ {0}
      BY <2>1, <2>2
    <3>2. \A v \in Versions : v \in Nat
      BY <2>1
    <3> QED
      BY <3>1, <3>2, <2>3
<1>7. TypeOK'
  BY <1>1, <1>5 DEF FeedInv, TypeOK
<1>8. \A s \in Streams : cursor[s] \in Int /\ since[s] \in Int /\ cursor[s] < n /\ since[s] < n
  BY <1>6 DEF FeedInv, Cursors
<1>9. Cursors'
  BY <1>5 DEF FeedInv, Cursors
<1>10. Caught'
  BY <1>5, <1>6, <1>8 DEF FeedInv, Caught
<1>11. Pages'
  <2>1. \A s \in Streams : page[s] \subseteq Versions
    BY DEF FeedInv, TypeOK
  <2> QED
    BY <1>5, <1>6, <2>1 DEF FeedInv, Pages
<1> QED
  BY <1>3, <1>4, <1>7, <1>9, <1>10, <1>11 DEF FeedInv

LEMMA RollbackKeeps == ASSUME FeedInv, NEW w \in Writes, Rollback(w) PROVE FeedInv'
<1> USE DEF Rollback, sending, client
<1>1. write \in [Writes -> {"begun", "recorded", "committed", "failed"}]
  BY DEF FeedInv, TypeOK
<1>2. Numbered' = Numbered /\ Versions' = Versions
  BY <1>1, SameVersions DEF Numbered
<1>3. Drawn' /\ Dialed'
  BY <1>2 DEF FeedInv, Drawn, Dialed
<1>4. LastRecorded'
  BY <1>1 DEF FeedInv, LastRecorded
<1>5. TypeOK'
  BY <1>1, <1>2 DEF FeedInv, TypeOK
<1> QED
  BY <1>2, <1>3, <1>4, <1>5, StreamsStay, PagesStay DEF FeedInv

-----------------------------------------------------------------------------
(* Opening a stream                                                        *)

\* Writes that stay as they are keep what is claimed of them.
LEMMA WritesStay ==
    ASSUME FeedInv, UNCHANGED writing
    PROVE  Versions' = Versions /\ Drawn' /\ LastRecorded'
           /\ write' \in [Writes -> {"begun", "recorded", "committed", "failed"}]
           /\ version' \in [Writes -> 0..Cardinality(Writes)] /\ sequence' \in 0..Cardinality(Writes)
<1>1. write' = write /\ version' = version /\ sequence' = sequence
  BY DEF writing
<1> QED
  BY <1>1 DEF FeedInv, TypeOK, Versions, Drawn, Numbered, LastRecorded

\* Max of numbers that can be read, or 0, is one of them and the largest.
LEMMA MaxOfVersions ==
    ASSUME FeedInv, NEW S \in SUBSET (Versions \cup {0}), S # {}
    PROVE  Max(S) \in S /\ Max(S) \in Nat /\ \A m \in S : m \in Nat /\ m <= Max(S)
<1>1. sequence \in Nat /\ Versions \subseteq 1..sequence
  BY VersionsFacts
<1>2. S \in SUBSET (0..sequence)
  BY <1>1
<1>3. Max(S) \in S /\ \A m \in S : Max(S) >= m
  BY <1>1, <1>2, MaxIsLargest
<1>4. \A m \in S : m \in Nat
  BY <1>1, <1>2
<1>5. \A m \in S : m <= Max(S)
  BY <1>3, <1>4
<1> QED
  BY <1>3, <1>4, <1>5

LEMMA AskStartKeeps == ASSUME FeedInv, NEW s \in Streams, AskStart(s) PROVE FeedInv'
<1>1. /\ pc[s] = "away" /\ received[s] = {}
      /\ since' = [since EXCEPT ![s] = Latest]
      /\ UNCHANGED <<writing, listener, listening, notified, home, pc, dial, cursor, flush, again, page, received, early, breaks>>
  BY DEF AskStart, sending
<1>2. Versions' = Versions /\ Drawn' /\ LastRecorded'
  BY <1>1, WritesStay
<1>3. Latest \in Versions \cup {0} /\ Latest \in Nat /\ \A v \in Versions : v \in Nat /\ v <= Latest
  BY MaxOfVersions DEF Latest
<1>4. since \in [Streams -> Int] /\ since' \in [Streams -> Int]
  BY <1>1, <1>3 DEF FeedInv, Cursors
<1>5. Cursors'
  BY <1>1, <1>2, <1>3, <1>4 DEF FeedInv, Cursors
<1>6. Caught'
  <2>1. ASSUME NEW r \in Streams
        PROVE  /\ \A n \in received'[r] : n <= cursor'[r]
               /\ \A v \in Versions' : since'[r] < v /\ v <= cursor'[r] => v \in received'[r]
    <3>1. CASE r = s
      <4>1. received'[r] = {} /\ since'[r] = Latest
        BY <1>1, <1>4, <3>1 DEF FeedInv, Cursors
      <4>2. \A v \in Versions' : ~(Latest < v)
        BY <1>2, <1>3
      <4> QED
        BY <4>1, <4>2
    <3>2. CASE r # s
      BY <1>1, <1>2, <1>4, <3>2 DEF FeedInv, Caught
    <3> QED
      BY <3>1, <3>2
  <2> QED
    BY <2>1 DEF Caught
<1>7. TypeOK' /\ Dialed'
  BY <1>1, <1>2, WritesStay DEF FeedInv, TypeOK, Dialed
<1>8. Pages'
  BY <1>1, <1>2, PagesStay
<1> QED
  BY <1>2, <1>5, <1>6, <1>7, <1>8 DEF FeedInv

\* A stream starts from a number a reader can have seen: the last its client got, or where it began.
LEMMA StartsFacts ==
    ASSUME FeedInv, NEW s \in Streams, NEW from \in Starts(s)
    PROVE  /\ from \in Versions \cup {0} /\ from \in Nat
           /\ received[s] # {} => from \in received[s] /\ \A m \in received[s] : m <= from
<1>1. received[s] \in SUBSET (Versions \cup {0}) /\ Versions \cup {0} \in SUBSET (Versions \cup {0})
  BY DEF FeedInv, TypeOK
<1>2. CASE received[s] # {}
  <2>1. from = Max(received[s])
    BY <1>2 DEF Starts
  <2> QED
    BY <1>1, <1>2, <2>1, MaxOfVersions
<1>3. CASE received[s] = {}
  <2>1. Latest \in Versions \cup {0} /\ Latest \in Nat
    BY <1>1, MaxOfVersions DEF Latest
  <2>2. from = Latest \/ (from = since[s] /\ since[s] # -1)
    BY <1>3 DEF Starts
  <2> QED
    BY <1>3, <2>1, <2>2, VersionsFacts DEF FeedInv, Cursors
<1> QED
  BY <1>2, <1>3

LEMMA OpenKeeps == ASSUME FeedInv, NEW s \in Streams, NEW i \in Instances, Open(s, i) PROVE FeedInv'
<1>1. PICK from \in Starts(s) :
        /\ cursor' = [cursor EXCEPT ![s] = from]
        /\ since' = IF received[s] = {} THEN [since EXCEPT ![s] = from] ELSE since
  BY DEF Open
<1>2. /\ pc[s] = "away" /\ dial[s] = "no"
      /\ home' = [home EXCEPT ![s] = i]
      /\ pc' = [pc EXCEPT ![s] = "opened"]
      /\ UNCHANGED <<writing, listener, listening, notified, dial, flush, again, page, received, early, breaks>>
  BY DEF Open
<1>3. received \in [Streams -> SUBSET Int] /\ since \in [Streams -> Int] /\ cursor \in [Streams -> Int]
  BY DEF FeedInv, Cursors
<1>4. Versions' = Versions /\ \A v \in Versions : v \in Nat
  BY <1>2, WritesStay, VersionsFacts
<1>5. /\ from \in Versions \cup {0} /\ from \in Nat
      /\ received[s] # {} => from \in received[s] /\ \A m \in received[s] : m <= from
  BY StartsFacts
<1>6. Cursors'
  BY <1>1, <1>2, <1>3, <1>4, <1>5 DEF FeedInv, Cursors
<1>7. Caught'
  <2>1. ASSUME NEW r \in Streams
        PROVE  /\ \A n \in received'[r] : n <= cursor'[r]
               /\ \A v \in Versions' : since'[r] < v /\ v <= cursor'[r] => v \in received'[r]
    <3>1. CASE r = s /\ received[s] # {}
      <4>1. from <= cursor[s]
        BY <1>5, <3>1 DEF FeedInv, Caught
      <4>2. cursor'[s] = from /\ since'[s] = since[s] /\ received'[s] = received[s]
        BY <1>1, <1>2, <1>3, <3>1
      <4> QED
        BY <1>3, <1>4, <1>5, <3>1, <4>1, <4>2 DEF FeedInv, Caught
    <3>2. CASE r = s /\ received[s] = {}
      BY <1>1, <1>2, <1>3, <1>4, <1>5, <3>2
    <3>3. CASE r # s
      BY <1>1, <1>2, <1>3, <1>4, <3>3 DEF FeedInv, Caught
    <3> QED
      BY <3>1, <3>2, <3>3
  <2> QED
    BY <2>1 DEF Caught
<1>8. Pages'
  <2>1. page[s] = {} /\ flush[s] = "idle"
    BY <1>2 DEF FeedInv, Pages
  <2> QED
    BY <1>1, <1>2, <1>3, <1>4, <2>1 DEF FeedInv, TypeOK, Pages, Cursors
<1>9. TypeOK' /\ Dialed'
  BY <1>1, <1>2, <1>4, WritesStay DEF FeedInv, TypeOK, Dialed
<1> QED
  BY <1>2, <1>6, <1>7, <1>8, <1>9, WritesStay DEF FeedInv

\* A stream that flushes either goes round again or asks; nobody's rows change.
LEMMA FlushFacts ==
    ASSUME FeedInv, NEW of, of \subseteq Streams, Flush(of)
    PROVE  /\ flush' \in [Streams -> {"idle", "asked", "read"}]
           /\ again' \subseteq {s \in Streams : flush'[s] # "idle"}
           /\ \A s \in Streams : (flush'[s] = "read") = (flush[s] = "read") /\ (s \notin of => flush'[s] = flush[s])
  BY DEF FeedInv, TypeOK, Flush

LEMMA SubscribeKeeps == ASSUME FeedInv, NEW s \in Streams, Subscribe(s) PROVE FeedInv'
<1>1. /\ pc[s] = "opened"
      /\ UNCHANGED <<writing, listener, listening, notified, home, cursor, page, client, breaks>>
  BY DEF Subscribe
<1>2. Versions' = Versions /\ Drawn' /\ LastRecorded'
  BY <1>1, WritesStay
<1>3. Cursors' /\ Caught' /\ \A r \in Streams : page'[r] \subseteq Versions' /\ received'[r] \subseteq Versions'
  BY <1>1, <1>2, StreamsStay DEF client
<1>4. CASE home[s] \in listener
  <2>1. /\ pc' = [pc EXCEPT ![s] = "live"]
        /\ early' = IF home[s] \in listening THEN early ELSE early \cup {s}
        /\ Flush({s})
        /\ dial' = dial
    BY <1>4 DEF Subscribe
  <2>2. /\ flush' \in [Streams -> {"idle", "asked", "read"}]
        /\ again' \subseteq {r \in Streams : flush'[r] # "idle"}
        /\ \A r \in Streams : (flush'[r] = "read") = (flush[r] = "read") /\ (r # s => flush'[r] = flush[r])
    BY <2>1, FlushFacts
  <2>3. TypeOK' /\ Dialed'
    BY <1>1, <1>3, <2>1, <2>2, WritesStay DEF FeedInv, TypeOK, Dialed
  <2>4. Pages'
    BY <1>1, <1>2, <2>1, <2>2 DEF FeedInv, TypeOK, Pages
  <2> QED
    BY <1>2, <1>3, <2>3, <2>4 DEF FeedInv
<1>5. CASE home[s] \notin listener
  <2>1. /\ pc' = [pc EXCEPT ![s] = "dialing"]
        /\ dial' = [dial EXCEPT ![s] = "connecting"]
        /\ UNCHANGED <<early, again, flush>>
    BY <1>5 DEF Subscribe
  <2>2. TypeOK' /\ Dialed'
    BY <1>1, <1>3, <2>1, WritesStay DEF FeedInv, TypeOK, Dialed
  <2>3. Pages'
    BY <1>1, <1>2, <2>1 DEF FeedInv, TypeOK, Pages
  <2> QED
    BY <1>2, <1>3, <2>2, <2>3 DEF FeedInv
<1> QED
  BY <1>4, <1>5

LEMMA ConnectedKeeps == ASSUME FeedInv, NEW s \in Streams, Connected(s) PROVE FeedInv'
<1>1. /\ dial[s] = "connecting"
      /\ listener' = listener \cup {home[s]}
      /\ dial' = [dial EXCEPT ![s] = "listen"]
      /\ UNCHANGED <<writing, listening, notified, home, pc, cursor, flush, again, page, received, since, early, breaks>>
  BY DEF Connected, sending, client
<1>2. Versions' = Versions /\ Drawn' /\ LastRecorded'
  BY <1>1, WritesStay
<1>3. Cursors' /\ Caught' /\ \A r \in Streams : page'[r] \subseteq Versions' /\ received'[r] \subseteq Versions'
  BY <1>1, <1>2, StreamsStay
<1>4. Pages'
  BY <1>1, <1>2, PagesStay
<1>5. TypeOK' /\ Dialed'
  BY <1>1, <1>3, WritesStay DEF FeedInv, TypeOK, Dialed
<1> QED
  BY <1>2, <1>3, <1>4, <1>5 DEF FeedInv

LEMMA ListenKeeps == ASSUME FeedInv, NEW s \in Streams, Listen(s) PROVE FeedInv'
<1>1. /\ dial[s] = "listen"
      /\ listening' = listening \cup {home[s]}
      /\ dial' = [dial EXCEPT ![s] = "no"]
      /\ UNCHANGED <<writing, listener, notified, home, cursor, page, received, since, early, breaks>>
  BY DEF Listen, client
<1>2. Versions' = Versions /\ Drawn' /\ LastRecorded'
  BY <1>1, WritesStay
<1>3. Cursors' /\ Caught' /\ \A r \in Streams : page'[r] \subseteq Versions' /\ received'[r] \subseteq Versions'
  BY <1>1, <1>2, StreamsStay
<1>4. CASE pc[s] = "dialing"
  <2>1. pc' = [pc EXCEPT ![s] = "live"] /\ Flush({s})
    BY <1>4 DEF Listen
  <2>2. /\ flush' \in [Streams -> {"idle", "asked", "read"}]
        /\ again' \subseteq {r \in Streams : flush'[r] # "idle"}
        /\ \A r \in Streams : (flush'[r] = "read") = (flush[r] = "read") /\ (r # s => flush'[r] = flush[r])
    BY <2>1, FlushFacts
  <2>3. TypeOK' /\ Dialed'
    BY <1>1, <1>3, <2>1, <2>2, WritesStay DEF FeedInv, TypeOK, Dialed
  <2>4. Pages'
    BY <1>1, <1>2, <2>1, <2>2 DEF FeedInv, TypeOK, Pages
  <2> QED
    BY <1>2, <1>3, <2>3, <2>4 DEF FeedInv
<1>5. CASE pc[s] # "dialing"
  <2>1. UNCHANGED <<pc, flush, again>>
    BY <1>5 DEF Listen
  <2>2. TypeOK' /\ Dialed'
    BY <1>1, <1>3, <2>1, WritesStay DEF FeedInv, TypeOK, Dialed
  <2>3. Pages'
    BY <1>1, <1>2, <2>1, PagesStay
  <2> QED
    BY <1>2, <1>3, <2>2, <2>3 DEF FeedInv
<1> QED
  BY <1>4, <1>5

-----------------------------------------------------------------------------
(* Sending                                                                 *)

LEMMA NotifyKeeps == ASSUME FeedInv, NEW i \in Instances, Notify(i) PROVE FeedInv'
<1>1. /\ notified' = notified \ {i}
      /\ Flush(Subscribed(i))
      /\ UNCHANGED <<writing, listener, listening, home, pc, dial, cursor, page, received, since, early, breaks>>
  BY DEF Notify, client
<1>2. Versions' = Versions /\ Drawn' /\ LastRecorded'
  BY <1>1, WritesStay
<1>3. Cursors' /\ Caught' /\ \A r \in Streams : page'[r] \subseteq Versions' /\ received'[r] \subseteq Versions'
  BY <1>1, <1>2, StreamsStay
<1>4. /\ flush' \in [Streams -> {"idle", "asked", "read"}]
      /\ again' \subseteq {r \in Streams : flush'[r] # "idle"}
      /\ \A r \in Streams : (flush'[r] = "read") = (flush[r] = "read")
      /\ \A r \in Streams : pc[r] \in {"away", "opened"} => flush'[r] = flush[r]
  <2>1. Subscribed(i) \subseteq Streams /\ \A r \in Streams : pc[r] \in {"away", "opened"} => r \notin Subscribed(i)
    BY DEF Subscribed
  <2> QED
    BY <1>1, <2>1, FlushFacts
<1>5. TypeOK' /\ Dialed'
  BY <1>1, <1>3, <1>4, WritesStay DEF FeedInv, TypeOK, Dialed
<1>6. Pages'
  BY <1>1, <1>2, <1>4 DEF FeedInv, TypeOK, Pages
<1> QED
  BY <1>2, <1>3, <1>5, <1>6 DEF FeedInv

\* A page leaves out none below the last it holds: those between are fewer still.
LEMMA SinceLeavesNoneOut ==
    ASSUME FeedInv, NEW c \in Int
    PROVE  /\ Since(c) \subseteq Versions
           /\ \A n \in Since(c) : c < n /\ \A v \in Versions : c < v /\ v < n => v \in Since(c)
<1>1. Versions \subseteq Nat /\ IsFiniteSet(Versions)
  BY VersionsFacts
<1>2. ASSUME NEW n \in Since(c), NEW v \in Versions, c < v, v < n PROVE v \in Since(c)
  <2> DEFINE Between(m) == {u \in Versions : c < u /\ u < m}
  <2>1. n \in Versions /\ Cardinality(Between(n)) < Page
    BY <1>2 DEF Since
  <2>2. Between(v) \in SUBSET Between(n) /\ Between(n) \in SUBSET Versions
    <3>1. n \in Int /\ v \in Int /\ \A u \in Versions : u \in Int
      BY <1>1, <1>2, <2>1
    <3>2. \A u \in Versions : u < v => u < n
      BY <1>2, <3>1
    <3> QED
      BY <3>2
  <2>3. IsFiniteSet(Between(n)) /\ IsFiniteSet(Between(v))
    BY <1>1, <2>2, FS_Subset
  <2>4. Cardinality(Between(v)) <= Cardinality(Between(n)) /\ Cardinality(Between(v)) \in Nat /\ Cardinality(Between(n)) \in Nat
    BY <2>2, <2>3, FS_Subset, FS_CardinalityType
  <2>5. Cardinality(Between(v)) < Page
    BY <2>1, <2>4, FeedAssumption
  <2> QED
    BY <1>2, <2>5 DEF Since
<1> QED
  BY <1>2 DEF Since

LEMMA QueryKeeps == ASSUME FeedInv, NEW s \in Streams, Query(s) PROVE FeedInv'
<1>1. /\ flush[s] = "asked"
      /\ page' = [page EXCEPT ![s] = Since(cursor[s])]
      /\ flush' = [flush EXCEPT ![s] = "read"]
      /\ UNCHANGED <<writing, listener, listening, notified, home, pc, dial, cursor, again, received, since, early, breaks>>
  BY DEF Query, client
<1>2. Versions' = Versions /\ Drawn' /\ LastRecorded' /\ Versions \subseteq Int
  BY <1>1, WritesStay, VersionsFacts
<1>3. cursor[s] \in Int /\ page \in [Streams -> SUBSET Int]
  BY DEF FeedInv, Cursors
<1> DEFINE rows == Since(cursor[s])
<1>4. /\ rows \subseteq Versions
      /\ \A n \in rows : cursor[s] < n /\ \A v \in Versions : cursor[s] < v /\ v < n => v \in rows
  BY <1>3, SinceLeavesNoneOut
<1> HIDE DEF rows
<1>5. page' = [page EXCEPT ![s] = rows]
  BY <1>1 DEF rows
<1>6. TypeOK'
  BY <1>1, <1>2, <1>3, <1>4, <1>5, WritesStay DEF FeedInv, TypeOK
<1>7. Cursors'
  BY <1>1, <1>2, <1>3, <1>4, <1>5 DEF FeedInv, Cursors
<1>8. Pages'
  BY <1>1, <1>2, <1>3, <1>4, <1>5 DEF FeedInv, TypeOK, Pages
<1>9. Caught' /\ Dialed'
  BY <1>1, <1>2 DEF FeedInv, Caught, Dialed
<1> QED
  BY <1>2, <1>6, <1>7, <1>8, <1>9 DEF FeedInv

LEMMA SendKeeps == ASSUME FeedInv, NEW s \in Streams, Send(s) PROVE FeedInv'
<1> DEFINE to == Max(page[s] \cup {cursor[s]})
<1>1. /\ flush[s] = "read"
      /\ received' = [received EXCEPT ![s] = @ \cup page[s]]
      /\ cursor' = [cursor EXCEPT ![s] = to]
      /\ page' = [page EXCEPT ![s] = {}]
      /\ UNCHANGED <<writing, listener, listening, notified, home, pc, dial, since, early, breaks>>
  BY DEF Send
<1>2. /\ flush' \in [Streams -> {"idle", "asked", "read"}]
      /\ flush'[s] # "read" /\ \A r \in Streams \ {s} : flush'[r] = flush[r]
      /\ again' \subseteq {r \in Streams : flush'[r] # "idle"}
  BY DEF Send, FeedInv, TypeOK
<1>3. Versions' = Versions /\ Drawn' /\ LastRecorded' /\ \A v \in Versions : v \in Nat
  BY <1>1, WritesStay, VersionsFacts
<1>4. /\ cursor \in [Streams -> Int] /\ since \in [Streams -> Int]
      /\ page \in [Streams -> SUBSET Int] /\ received \in [Streams -> SUBSET Int]
      /\ cursor[s] \in Versions \cup {0}
  BY DEF FeedInv, Cursors
<1>5. page[s] \subseteq Versions /\ received[s] \subseteq Versions
  BY DEF FeedInv, TypeOK
<1>6. /\ to \in page[s] \cup {cursor[s]} /\ to \in Nat
      /\ \A m \in page[s] \cup {cursor[s]} : m \in Nat /\ m <= to
  BY <1>4, <1>5, MaxOfVersions
<1> HIDE DEF to
<1>7. TypeOK' /\ Dialed'
  BY <1>1, <1>2, <1>3, <1>4, <1>5, WritesStay DEF FeedInv, TypeOK, Dialed
<1>8. Cursors'
  BY <1>1, <1>3, <1>4, <1>5, <1>6 DEF FeedInv, Cursors
<1>9. Pages'
  <2>1. pc[s] \notin {"away", "opened"}
    BY <1>1 DEF FeedInv, Pages
  <2> QED
    BY <1>1, <1>2, <1>3, <1>4, <2>1 DEF FeedInv, TypeOK, Pages
<1>10. Caught'
  <2>1. ASSUME NEW v \in Versions, cursor[s] < v, v <= to PROVE v \in page[s]
    <3>1. to \in page[s]
      BY <1>3, <1>4, <1>6, <2>1
    <3>2. v = to \/ v < to
      BY <1>3, <1>6, <2>1
    <3> QED
      BY <2>1, <3>1, <3>2 DEF FeedInv, Pages
  <2>2. ASSUME NEW r \in Streams
        PROVE  /\ \A n \in received'[r] : n <= cursor'[r]
               /\ \A v \in Versions' : since'[r] < v /\ v <= cursor'[r] => v \in received'[r]
    <3>1. CASE r = s
      <4>1. received'[s] = received[s] \cup page[s] /\ cursor'[s] = to /\ since'[s] = since[s]
        BY <1>1, <1>4
      <4>2. \A n \in received[s] : n \in Nat /\ n <= cursor[s]
        BY <1>3, <1>5 DEF FeedInv, Caught
      <4>3. \A v \in Versions : since[s] < v /\ v <= cursor[s] => v \in received[s]
        BY DEF FeedInv, Caught
      <4>4. \A n \in received[s] \cup page[s] : n <= to
        BY <1>4, <1>6, <4>2
      <4>5. \A v \in Versions : since[s] < v /\ v <= to => v \in received[s] \cup page[s]
        BY <1>3, <1>4, <1>6, <2>1, <4>3
      <4> QED
        BY <1>3, <3>1, <4>1, <4>4, <4>5
    <3>2. CASE r # s
      BY <1>1, <1>3, <1>4, <3>2 DEF FeedInv, Caught
    <3> QED
      BY <3>1, <3>2
  <2> QED
    BY <2>2 DEF Caught
<1> QED
  BY <1>3, <1>7, <1>8, <1>9, <1>10 DEF FeedInv

-----------------------------------------------------------------------------
(* Failures                                                                *)

\* Streams that are gone ask for nothing and hold no rows; the others are as they were.
LEMMA AbandonFacts ==
    ASSUME FeedInv, NEW gone, gone \subseteq Streams, Abandon(gone), Versions' = Versions,
           UNCHANGED <<cursor, received, since>>
    PROVE  /\ Cursors' /\ Pages' /\ Caught'
           /\ pc' \in [Streams -> {"away", "opened", "dialing", "live"}]
           /\ flush' \in [Streams -> {"idle", "asked", "read"}]
           /\ again' \subseteq {s \in Streams : flush'[s] # "idle"} /\ early' \subseteq Streams
           /\ \A s \in Streams : page'[s] \subseteq Versions' /\ received'[s] \subseteq Versions'
<1>1. /\ pc' = [s \in Streams |-> IF s \in gone THEN "away" ELSE pc[s]]
      /\ flush' = [s \in Streams |-> IF s \in gone THEN "idle" ELSE flush[s]]
      /\ page' = [s \in Streams |-> IF s \in gone THEN {} ELSE page[s]]
      /\ again' = again \ gone /\ early' = early \ gone
  BY DEF Abandon
<1>2. \A s \in Streams : page'[s] \subseteq Versions' /\ received'[s] \subseteq Versions'
  BY <1>1 DEF FeedInv, TypeOK
<1>3. Cursors' /\ Caught'
  BY <1>1 DEF FeedInv, Cursors, Caught
<1>4. Pages'
  BY <1>1 DEF FeedInv, Pages
<1>5. /\ pc' \in [Streams -> {"away", "opened", "dialing", "live"}]
      /\ flush' \in [Streams -> {"idle", "asked", "read"}]
      /\ again' \subseteq {s \in Streams : flush'[s] # "idle"} /\ early' \subseteq Streams
  BY <1>1 DEF FeedInv, TypeOK
<1> QED
  BY <1>2, <1>3, <1>4, <1>5

LEMMA DropKeeps == ASSUME FeedInv, NEW s \in Streams, Drop(s) PROVE FeedInv'
<1>1. Abandon({s}) /\ UNCHANGED <<writing, listener, listening, notified, home, dial, cursor, received, since>>
  BY DEF Drop, client
<1>2. Versions' = Versions /\ Drawn' /\ LastRecorded'
  BY <1>1, WritesStay
<1>3. /\ Cursors' /\ Pages' /\ Caught'
      /\ pc' \in [Streams -> {"away", "opened", "dialing", "live"}]
      /\ flush' \in [Streams -> {"idle", "asked", "read"}]
      /\ again' \subseteq {r \in Streams : flush'[r] # "idle"} /\ early' \subseteq Streams
      /\ \A r \in Streams : page'[r] \subseteq Versions' /\ received'[r] \subseteq Versions'
  BY <1>1, <1>2, AbandonFacts
<1>4. TypeOK' /\ Dialed'
  BY <1>1, <1>3, WritesStay DEF FeedInv, TypeOK, Dialed
<1> QED
  BY <1>2, <1>3, <1>4 DEF FeedInv

LEMMA CrashKeeps == ASSUME FeedInv, NEW i \in Instances, Crash(i) PROVE FeedInv'
<1> DEFINE here == {s \in Streams : home[s] = i}
<1>1. /\ Abandon(here) /\ dial' = [s \in Streams |-> IF s \in here THEN "no" ELSE dial[s]]
      /\ listener' = listener \ {i} /\ listening' = listening \ {i} /\ notified' = notified \ {i}
      /\ UNCHANGED <<writing, home, cursor, received, since>>
  BY DEF Crash, client
<1>2. Versions' = Versions /\ Drawn' /\ LastRecorded'
  BY <1>1, WritesStay
<1>3. /\ Cursors' /\ Pages' /\ Caught'
      /\ pc' \in [Streams -> {"away", "opened", "dialing", "live"}]
      /\ flush' \in [Streams -> {"idle", "asked", "read"}]
      /\ again' \subseteq {r \in Streams : flush'[r] # "idle"} /\ early' \subseteq Streams
      /\ \A r \in Streams : page'[r] \subseteq Versions' /\ received'[r] \subseteq Versions'
  BY <1>1, <1>2, AbandonFacts
<1>4. TypeOK' /\ Dialed'
  BY <1>1, <1>3, WritesStay DEF FeedInv, TypeOK, Dialed
<1> QED
  BY <1>2, <1>3, <1>4 DEF FeedInv

-----------------------------------------------------------------------------
(* Theorems                                                                *)

LEMMA FeedInit == Init => FeedInv
<1> SUFFICES ASSUME Init PROVE FeedInv
  OBVIOUS
<1>1. Versions = {} /\ Numbered = {}
  BY DEF Init, Versions, Numbered
<1>2. IsFiniteSet(Writes) /\ Cardinality(Writes) \in Nat /\ Cardinality({}) = 0
  BY FeedAssumption, FS_CardinalityType, FS_EmptySet
<1>3. TypeOK
  <2>1. (CHOOSE i \in Instances : TRUE) \in Instances
    BY FeedAssumption
  <2> QED
    BY <1>1, <1>2, <2>1 DEF Init, TypeOK
<1>4. Drawn /\ LastRecorded
  BY <1>1, <1>2 DEF Init, Drawn, LastRecorded
<1>5. Dialed /\ Cursors /\ Pages /\ Caught
  BY <1>1 DEF Init, Dialed, Cursors, Pages, Caught
<1> QED
  BY <1>3, <1>4, <1>5 DEF FeedInv

LEMMA FeedStutters == FeedInv /\ UNCHANGED vars => FeedInv'
<1> SUFFICES ASSUME FeedInv, UNCHANGED vars PROVE FeedInv'
  OBVIOUS
<1>1. UNCHANGED <<writing, listener, listening, notified, home, pc, dial, cursor, flush, again, page, received, since, early>>
  BY DEF vars, sending, client
<1>2. Versions' = Versions /\ Drawn' /\ LastRecorded'
  BY <1>1, WritesStay
<1>3. Cursors' /\ Caught' /\ \A r \in Streams : page'[r] \subseteq Versions' /\ received'[r] \subseteq Versions'
  BY <1>1, <1>2, StreamsStay
<1>4. Pages'
  BY <1>1, <1>2, PagesStay
<1>5. TypeOK' /\ Dialed'
  BY <1>1, <1>3, WritesStay DEF FeedInv, TypeOK, Dialed
<1> QED
  BY <1>2, <1>3, <1>4, <1>5 DEF FeedInv

LEMMA FeedStep == FeedInv /\ [Next]_vars => FeedInv'
<1> SUFFICES ASSUME FeedInv, [Next]_vars PROVE FeedInv'
  OBVIOUS
<1>1. ASSUME NEW w \in Writes, Writing(w) PROVE FeedInv'
  BY <1>1, RecordKeeps, CommitKeeps, RollbackKeeps DEF Writing
<1>2. ASSUME NEW s \in Streams, AskStart(s) \/ Opening(s) PROVE FeedInv'
  BY <1>2, AskStartKeeps, OpenKeeps DEF Opening
<1>3. ASSUME NEW s \in Streams, Serving(s) PROVE FeedInv'
  BY <1>3, SubscribeKeeps, ConnectedKeeps, ListenKeeps, QueryKeeps, SendKeeps DEF Serving
<1>4. ASSUME NEW s \in Streams, Drop(s) PROVE FeedInv'
  BY <1>4, DropKeeps
<1>5. ASSUME NEW i \in Instances, Notify(i) \/ Crash(i) PROVE FeedInv'
  BY <1>5, NotifyKeeps, CrashKeeps
<1>6. CASE UNCHANGED vars
  BY <1>6, FeedStutters
<1> QED
  BY <1>1, <1>2, <1>3, <1>4, <1>5, <1>6 DEF Next

\* However many write, read, lose their connections or crash, numbers, pages and cursors keep their
\* bounds: the lock recordChanges takes orders the numbers as the transactions commit.
THEOREM FeedHolds == Spec => []FeedInv
<1> QED
  BY FeedInit, FeedStep, PTL DEF Spec

\* The types of the change feed, for any finite number of writes (recordChanges, changesSince).
THEOREM FeedTypes == Spec => []TypeOK
<1>1. FeedInv => TypeOK
  BY DEF FeedInv
<1> QED
  BY <1>1, FeedHolds, PTL

\* A client that got change N has every earlier one since it began: what commits later has a higher
\* number (recordChanges' lock), a page leaves no gap, and a client that got one reads on from the last.
THEOREM NoneMissedEarlier == Spec => []NeverMissesEarlier
<1>1. FeedInv => NeverMissesEarlier
  <2> SUFFICES ASSUME FeedInv, NEW s \in Streams, NEW n \in received[s], NEW v \in Versions, since[s] < v, v < n
               PROVE  v \in received[s]
    BY DEF NeverMissesEarlier
  <2>1. cursor[s] \in Int /\ n \in Int /\ v \in Int
    BY VersionsFacts DEF FeedInv, Cursors
  <2>2. n <= cursor[s]
    BY DEF FeedInv, Caught
  <2>3. v <= cursor[s]
    BY <2>1, <2>2
  <2> QED
    BY <2>3 DEF FeedInv, Caught
<1> QED
  BY <1>1, FeedHolds, PTL
=============================================================================
