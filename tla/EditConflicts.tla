---------------------------- MODULE EditConflicts ----------------------------
(***************************************************************************)
(* Saves made from a copy: bookings, seat locks and bulk locks carry a     *)
(* version that every write moves on, a caller reads a record with its     *)
(* version and saves later, and a save made from a stale copy is refused.  *)
(*                                                                         *)
(* What a record holds is the set of writes its content reflects: a save   *)
(* puts back what its copy held, a command changes the stored record. The  *)
(* version is checked inside the write's transaction, so each request is   *)
(* one step. A bulk lock's departures are records of their own.            *)
(***************************************************************************)
EXTENDS Naturals, FiniteSets

CONSTANTS
    Copied,      \* bookings and seat locks, departures among them
    BulkIds,     \* bulk locks
    DeparturesOf, \* bulk lock |-> its departures
    Callers,
    NoCopy,      \* a record a caller has not read
    MaxSaves     \* bound: the writes of a history

Versioned == Copied \cup BulkIds

ASSUME EditAssumption ==
    /\ MaxSaves \in Nat /\ NoCopy \notin Nat
    /\ DeparturesOf \in [BulkIds -> SUBSET Copied]

VARIABLES
    savedRows,   \* record |-> [version, holds]: the writes its content reflects
    copies,      \* caller, record |-> the copy it read last
    login,       \* whether authentication is on
    overwritten, \* history: <<record, write>> a login's save put out of a record unseen
    saves        \* history: how many writes there were, which also numbers them

editVars == <<savedRows, copies, login, overwritten, saves>>

-----------------------------------------------------------------------------
(* Whether a save goes on                                                    *)

\* expectedVersion: the If-Match (a "*" or an empty one is none), else the body's version: that of the
\* caller's copy when it sends one, 0 when it sends none.
Expected(copy, sent) == IF sent THEN copy.version ELSE 0

MayWriteUnversioned(r, expected) == expected = 0 \/ expected = savedRows[r].version
\* sentVersion, requireVersion and assertFresh: a login must send one, and one sent must be the record's.
MayWrite(r, expected) == IF expected = 0 THEN ~login ELSE expected = savedRows[r].version

\* What r holds once write n puts back what the copy held, or adds to what is stored.
PutBack(copy, n) == copy.holds \cup {n}
Unseen(r, copy) == IF login THEN {r} \X (savedRows[r].holds \ copy.holds) ELSE {}

\* touch, bumpBooking, stamp: every write moves the version on.
Stamped(r, holds) == [version |-> savedRows[r].version + 1, holds |-> holds]

-----------------------------------------------------------------------------
Count == saves < MaxSaves /\ saves' = saves + 1

\* GET a booking, a lock or a bulk lock: the copy has its version, in the body and as the ETag.
Read(c, r) ==
    /\ copies' = [copies EXCEPT ![c][r] = savedRows[r]]
    /\ UNCHANGED <<savedRows, login, overwritten, saves>>

\* PATCH of a booking or a lock from a whole form; the answer is the caller's next copy.
SaveForm(c, r, sent) ==
    LET copy == copies[c][r] IN
    /\ r \in Copied /\ copy # NoCopy /\ MayWrite(r, Expected(copy, sent))
    /\ Count
    /\ savedRows' = [savedRows EXCEPT ![r] = Stamped(r, PutBack(copy, saves + 1))]
    /\ copies' = [copies EXCEPT ![c][r] = savedRows'[r]]
    /\ overwritten' = overwritten \cup Unseen(r, copy)
    /\ UNCHANGED login

CommandUnstamped(c, r, sent) ==
    /\ r \in Copied /\ copies[c][r] # NoCopy /\ MayWrite(r, Expected(copies[c][r], sent))
    /\ Count
    /\ savedRows' = [savedRows EXCEPT ![r].holds = @ \cup {saves + 1}]
    /\ UNCHANGED <<copies, login, overwritten>>
\* A command on it (cancel, confirm, a payment, release, add ...): what is stored, changed in one place.
Command(c, r, sent) ==
    /\ r \in Copied /\ copies[c][r] # NoCopy /\ MayWrite(r, Expected(copies[c][r], sent))
    /\ Count
    /\ savedRows' = [savedRows EXCEPT ![r] = Stamped(r, @.holds \cup {saves + 1})]
    /\ UNCHANGED <<copies, login, overwritten>>

\* amendGroup, addGroup, releaseGroup, groupSubGroups: the bulk lock is stamped, and each departure written.
BulkStamped(g, written, n) ==
    [r \in Versioned |-> IF r \in {g} \cup written THEN Stamped(r, savedRows[r].holds \cup {n}) ELSE savedRows[r]]

\* PATCH of a bulk lock: its version is checked, and its departures take its seats whatever they hold.
SaveBulk(c, g, written, sent) ==
    LET copy == copies[c][g] IN
    /\ copy # NoCopy /\ MayWrite(g, Expected(copy, sent))
    /\ Count
    /\ savedRows' = [BulkStamped(g, written, saves + 1) EXCEPT ![g].holds = PutBack(copy, saves + 1)]
    /\ overwritten' = overwritten \cup Unseen(g, copy)
    /\ UNCHANGED <<copies, login>>

\* POST .../add, /release, /sub-groups of a bulk lock.
BulkCommand(c, g, written, sent) ==
    /\ copies[c][g] # NoCopy /\ MayWrite(g, Expected(copies[c][g], sent))
    /\ Count
    /\ savedRows' = BulkStamped(g, written, saves + 1)
    /\ UNCHANGED <<copies, login, overwritten>>

EditInit ==
    /\ savedRows = [r \in Versioned |-> [version |-> 1, holds |-> {}]]
    /\ copies = [c \in Callers |-> [r \in Versioned |-> NoCopy]]
    /\ login \in BOOLEAN /\ overwritten = {} /\ saves = 0

EditNext ==
    \E c \in Callers :
        \/ \E r \in Versioned : Read(c, r)
        \/ \E sent \in BOOLEAN :
               \/ \E r \in Copied : SaveForm(c, r, sent) \/ Command(c, r, sent)
               \/ \E g \in BulkIds, written \in SUBSET Copied :
                      /\ written \subseteq DeparturesOf[g]
                      /\ SaveBulk(c, g, written, sent) \/ BulkCommand(c, g, written, sent)

EditSpec == EditInit /\ [][EditNext]_editVars

-----------------------------------------------------------------------------
Versions == [version : Nat \ {0}, holds : SUBSET (1..MaxSaves)]
EditTypeOK ==
    /\ savedRows \in [Versioned -> Versions]
    /\ \A c \in Callers : \A r \in Versioned : copies[c][r] = NoCopy \/ copies[c][r] \in Versions
    /\ login \in BOOLEAN /\ saves \in 0..MaxSaves

(* assertBookingFresh, assertLockFresh and assertGroupFresh with touch and *)
(* stamp: whatever others saved or commanded since a login read a booking, *)
(* a lock or a bulk lock, its save puts none of it out of that record.     *)
NothingOverwritten == overwritten = {}
=============================================================================
