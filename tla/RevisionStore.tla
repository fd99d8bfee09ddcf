---------------------------- MODULE RevisionStore ----------------------------
(***************************************************************************)
(* The Hub's SQLite store (labprobe_storage.py) and the incremental sync   *)
(* built on it (hub.py, /api/sync/...): every save of a document writes,   *)
(* in the same transaction, one row of the revision log per changed entity *)
(* and now and then prunes the log by age and by number of rows.  An APP   *)
(* keeps a replica: it takes a snapshot, then asks for the changes since   *)
(* the revision it has, page by page, and takes a new snapshot when it is  *)
(* told that a full synchronisation is required.                           *)
(*                                                                         *)
(* save, changes_since and the snapshot are atomic: every request that     *)
(* reaches them holds DATA_LOCK, and save is one transaction.  `docs' is   *)
(* what the log describes of the documents: the stable part of devices,    *)
(* events, the status and every other revisioned document, by entity key.  *)
(* Documents and fields kept out of the log appear only as saves without   *)
(* rows.                                                                   *)
(***************************************************************************)
EXTENDS Integers, Sequences, FiniteSets

CONSTANTS
    Keys,          \* entity keys
    StatusKey,     \* the key of the status entity
    NoKey,         \* the key of the baseline row, which is no entity
    Values,        \* what a document can say of an entity
    Absent,        \* the entity is not in its document, or marked deleted
    RowCap,        \* REVISION_MAX_ROWS
    MaxAge,        \* REVISION_MAX_AGE_DAYS
    PageLimit,     \* the limit of one /api/sync/changes request
    MaxBatch,      \* bound: rows written by one save
    MaxRevision,   \* bound: revisions ever written
    MaxDay,        \* bound: the clock
    ClockMaySlip   \* the local clock may be set back (DST, NTP)

ASSUME RowCapAssumption == RowCap \in Nat \ {0}
ASSUME MaxAgeAssumption == MaxAge \in Nat \ {0}
ASSUME PageLimitAssumption == PageLimit \in Nat \ {0}
ASSUME BoundsAssumption ==
    MaxBatch \in Nat /\ MaxRevision \in Nat \ {0} /\ MaxDay \in Nat
ASSUME SlipAssumption == ClockMaySlip \in BOOLEAN
ASSUME KeysAssumption == NoKey \notin Keys /\ Absent \notin Values

VARIABLES
    docs,      \* the documents, by entity key
    log,       \* the revisions table: a function from revision numbers to rows
    seq,       \* the AUTOINCREMENT counter: the last revision ever written
    now,       \* the wall clock, in days
    cursor,    \* the revision the APP has
    replica,   \* what the APP shows
    full       \* the APP was told that a full synchronisation is required

storeVars == <<docs, log, seq, now>>
vars == <<docs, log, seq, now, cursor, replica, full>>

State == [Keys -> Values \cup {Absent}]
Row == [key : Keys \cup {NoKey}, val : Values \cup {Absent}, at : 0 .. MaxDay]
Change == [key : Keys, val : Values \cup {Absent}]
Changes == UNION {[1 .. n -> Change] : n \in 0 .. MaxBatch}

(* The state keeps its types; in particular no APP ever has a revision that *)
(* changes_since or the snapshot made up.                                   *)
TypeOK ==
    /\ docs \in State
    /\ seq \in 0 .. MaxRevision
    /\ DOMAIN log \subseteq 1 .. seq
    /\ log \in [DOMAIN log -> Row]
    /\ now \in 0 .. MaxDay
    /\ cursor \in 0 .. seq
    /\ replica \in State
    /\ full \in BOOLEAN
-----------------------------------------------------------------------------
(* The largest of a set of revisions; MAX of an empty set reads as `none'. *)
Last(S, none) == IF S = {} THEN none ELSE CHOOSE r \in S : \A s \in S : s <= r

current_revision == Last(DOMAIN log, 0)

Keep(l, S) == [r \in S |-> l[r]]

(* _prune_revisions: rows older than MaxAge go first, then all but the newest. *)
WithinAge(l, t) == {r \in DOMAIN l : l[r].at >= t - MaxAge}
Newest(S) == {r \in S : Cardinality({s \in S : s > r}) < RowCap}
prune_revisions(l, t) == Keep(l, Newest(WithinAge(l, t)))

BaselineRow(t) == [key |-> NoKey, val |-> Absent, at |-> t]

(* initialize: a log without rows gets a baseline row, then it is pruned. *)
WithBaseline(l) == IF DOMAIN l = {} THEN [r \in {seq + 1} |-> BaselineRow(now)] ELSE l

(* A new database, filled from the JSON files of an older Hub, which leave *)
(* no rows, and an APP that has just taken its first snapshot.             *)
Init ==
    /\ docs \in State
    /\ log = [r \in {1} |-> BaselineRow(0)]
    /\ seq = 1
    /\ now = 0
    /\ cursor = 1 /\ replica = docs /\ full = FALSE
-----------------------------------------------------------------------------
(* The rows one save can write, in order: at most one for an entity.  A row *)
(* says something new, except that an event already marked deleted is       *)
(* deleted once more when it leaves the document.                           *)
IsSave(ch) ==
    /\ \A i, j \in DOMAIN ch : ch[i].key = ch[j].key => i = j
    /\ \A i \in DOMAIN ch : ch[i].val # docs[ch[i].key] \/ ch[i].val = Absent

(* The log with the rows of ch appended. *)
Appended(ch) ==
    [r \in DOMAIN log \cup (seq + 1 .. seq + Len(ch)) |->
        IF r <= seq THEN log[r]
        ELSE [key |-> ch[r - seq].key, val |-> ch[r - seq].val, at |-> now]]

Updated(ch) ==
    [k \in Keys |-> IF \E i \in DOMAIN ch : ch[i].key = k
                      THEN ch[CHOOSE i \in DOMAIN ch : ch[i].key = k].val
                      ELSE docs[k]]

(* save: the document, its rows and, when `prune', the pruning that runs at *)
(* most once in REVISION_PRUNE_INTERVAL_SEC.  Without rows: a document that *)
(* is not in the log, or a change of volatile fields only.                  *)
Save(ch, prune) ==
    /\ seq + Len(ch) <= MaxRevision
    /\ IsSave(ch)
    /\ docs' = Updated(ch)
    /\ seq' = seq + Len(ch)
    /\ log' = IF prune THEN prune_revisions(Appended(ch), now) ELSE Appended(ch)
    /\ UNCHANGED <<now, cursor, replica, full>>

(* The Hub restarts. *)
Restart ==
    /\ DOMAIN log = {} => seq < MaxRevision
    /\ seq' = IF DOMAIN log = {} THEN seq + 1 ELSE seq
    /\ log' = prune_revisions(WithBaseline(log), now)
    /\ UNCHANGED <<docs, now, cursor, replica, full>>

(* Time passes, or the local clock is set back. *)
Tick ==
    /\ now' \in 0 .. MaxDay
    /\ now' = now + 1 \/ (ClockMaySlip /\ now' = now - 1)
    /\ UNCHANGED <<docs, log, seq, cursor, replica, full>>
-----------------------------------------------------------------------------
(* changes_since *)

(* Mutant: one row too many may be missing. *)
FullRequiredLate(since) ==
    \/ DOMAIN log # {} /\ \A oldest \in DOMAIN log : since < oldest - 2
    \/ since > current_revision

(* The oldest row is not the next one, or the log ends before `since'. *)
FullRequired(since) ==
    \/ DOMAIN log # {} /\ \A oldest \in DOMAIN log : since < oldest - 1
    \/ since > current_revision

Since(since) == {r \in DOMAIN log : r > since}

(* The first PageLimit rows after `since'. *)
Page(since) ==
    {r \in Since(since) : Cardinality({s \in Since(since) : s <= r}) <= PageLimit}

HasMore(since) == Page(since) # Since(since)

(* Mutant: a client that got every row is told one revision too many. *)
NextRevisionPast(since) == IF HasMore(since) THEN Last(Page(since), since) ELSE seq + 1

NextRevision(since) == Last(Page(since), since)

(* api_sync_changes replaces the payload of a status row by today's status. *)
Payload(r) == IF log[r].key = StatusKey THEN docs[StatusKey] ELSE log[r].val

(* The rows of a page applied in order: the last one of an entity wins. *)
Patched(rep, S) ==
    [k \in Keys |->
        LET mine == {r \in S : log[r].key = k}
        IN IF mine = {} THEN rep[k]
           ELSE Payload(Last(mine, 0))]

(* Mutant: a page is applied but the revision of the client stays. *)
FetchChangesStaying ==
    /\ ~ full
    /\ ~ FullRequired(cursor)
    /\ replica' = Patched(replica, Page(cursor))
    /\ UNCHANGED <<docs, log, seq, now, cursor, full>>

(* The APP asks for changes: a page, or the order to synchronise in full. *)
FetchChanges ==
    /\ ~ full
    /\ ~ FullRequired(cursor)
    /\ replica' = Patched(replica, Page(cursor))
    /\ cursor' = NextRevision(cursor)
    /\ UNCHANGED <<docs, log, seq, now, full>>

FetchRefused ==
    /\ ~ full
    /\ FullRequired(cursor)
    /\ full' = TRUE
    /\ UNCHANGED <<docs, log, seq, now, cursor, replica>>

(* build_sync_snapshot: the documents and the current revision. *)
TakeSnapshot ==
    /\ replica' = docs
    /\ cursor' = current_revision
    /\ full' = FALSE
    /\ UNCHANGED <<docs, log, seq, now>>
-----------------------------------------------------------------------------
Next ==
    \/ \E ch \in Changes, prune \in BOOLEAN : Save(ch, prune)
    \/ Restart
    \/ Tick
    \/ FetchChanges
    \/ FetchRefused
    \/ TakeSnapshot

(* The APP keeps asking, and takes a snapshot when it is told to. *)
Fairness ==
    /\ WF_vars(FetchChanges) /\ WF_vars(FetchRefused)
    /\ WF_vars(full /\ TakeSnapshot)

Spec == Init /\ [][Next]_vars /\ Fairness
-----------------------------------------------------------------------------
(* An APP that has a revision and is told, by a page that is neither a     *)
(* refusal nor followed by another, that it has everything, shows exactly  *)
(* what the documents say: no save, batch of rows, page boundary, prune or *)
(* restart makes changes_since skip a change silently.  (An APP whose      *)
(* snapshot came from an empty log has revision 0: see PrunedMeansFull.)   *)
ReplicaIsComplete ==
    [][FetchChanges /\ cursor > 0 /\ ~ HasMore(cursor) => replica' = docs]_vars

(* Once the writers rest, an APP that has a revision and only asks for     *)
(* changes catches up: the pages end and a refusal leads to a snapshot.    *)
CatchUp == <>[](replica = docs \/ cursor = 0)

(* README.md says that when revisions are pruned the APP synchronises in   *)
(* full by itself: an APP that shows something else than the documents is  *)
(* told so by its next request, by rows or by fullRequired.                *)
PrunedMeansFull ==
    ~ full /\ replica # docs => FullRequired(cursor) \/ Since(cursor) # {}
=============================================================================
