------------------------------ MODULE Timechain ------------------------------
(***************************************************************************)
(* The signed, append-only record chain (chain.py) over its SQLite tables. *)
(*                                                                         *)
(* Several connections may have the database open: the REPL or the web     *)
(* server, apply_proposal.py's command line, the batching daemon           *)
(* ARCHITECTURE.md:125 foresees.  append checks the lock and reads the     *)
(* head, computes hash and signature (and mines a proof of work), then     *)
(* inserts: two steps, with only the table's PRIMARY KEY between two       *)
(* appends.  Python's sqlite3 opens a transaction before an INSERT and     *)
(* chain.py never rolls one back, so a failed INSERT leaves the connection *)
(* inside it; in WAL mode such a transaction keeps the write lock, or the  *)
(* snapshot its first read took.  A commit is atomic, so a process that    *)
(* dies leaves nothing half-written.                                       *)
(*                                                                         *)
(* A hash is the tuple it is computed from, a signature the hash it signs. *)
(* Of a record's content the model keeps what other tables index.          *)
(***************************************************************************)
EXTENDS Naturals, Sequences, FiniteSets, Merkle

CONSTANTS
    Connections, \* connections to the database
    Sealers,     \* those that seal batches
    Targets,     \* what revisions, blobs and recurrences point at
    NoTarget,    \* a record that points at nothing
    BatchSizes,  \* batch_size arguments of seal_batch
    LegacyRows,  \* bound on records that predate the index tables
    MaxIdx,      \* bound on record indices
    MaxBatches,  \* bound on the batches sealed
    MaxEdits     \* bound on edits of the table behind the program's back

ASSUME ConstantsAssumption ==
    /\ Sealers \subseteq Connections
    /\ NoTarget \notin Targets
    /\ BatchSizes \subseteq Nat \ {0}
    /\ LegacyRows \in Nat /\ MaxIdx \in Nat /\ MaxBatches \in Nat
    /\ MaxEdits \in Nat

VARIABLES
    db,          \* the committed database: the records, the index tables, and
                 \* merkle_batches
    upgraded,    \* the program with the index tables has opened the chain
    older,       \* how many records it found
    locked,      \* the LOCKED flag file exists
    conn,        \* the append or seal_batch in progress on each connection
    txn,         \* its open transaction: "none"; "begun", nothing read yet;
                 \* "reads" from a snapshot; or "writes": holds the write lock
    seen,        \* the snapshot of a connection that "reads"
    edits        \* edits of the table so far

vars == <<db, upgraded, older, locked, conn, txn, seen, edits>>

\* The indexed record types go by the name of the table that indexes them.
Tables == {"supersedes_index", "blob_index", "proposal_recurrence_index"}
Types == Tables \cup {"plain", "recovery"}

Genesis == <<>>                                     \* GENESIS_PRIOR_HASH

Record(idx, prior, type, target) ==
    LET h == <<idx, prior, type, target>> IN
    [idx |-> idx, prior |-> prior, type |-> type, target |-> target,
     hash |-> h, sig |-> h]

\* The head as append reads it: the next index and the prior hash.
IsNext(rows, idx, prior) ==
    \/ rows = {} /\ idx = 0 /\ prior = Genesis
    \/ \E r \in rows : /\ \A s \in rows : s.idx <= r.idx
                       /\ idx = r.idx + 1 /\ prior = r.hash

Heads(rows) ==
    {h \in (0..MaxIdx) \X ({Genesis} \cup {r.hash : r \in rows}) :
        IsNext(rows, h[1], h[2])}

(* An index row names its record and what that record points at.  blob_index*)
(* is keyed by the target, the others by the record (INSERT OR REPLACE).    *)

Entry(r) == [idx |-> r.idx, target |-> r.target]

Upsert(t, entries, e) ==
    {x \in entries : IF t = "blob_index" THEN x.target # e.target
                                         ELSE x.idx # e.idx} \cup {e}

Empty == [rows |-> {}, index |-> [t \in Tables |-> {}], batches |-> <<>>]
Idle == [at |-> "idle", rec |-> Record(0, Genesis, "plain", NoTarget),
         first |-> 0, last |-> 0, leaves |-> <<>>]

Init ==
    /\ db = Empty
    /\ upgraded = (LegacyRows = 0) /\ older = 0
    /\ locked = FALSE
    /\ conn = [c \in Connections |-> Idle]
    /\ txn = [c \in Connections |-> "none"]
    /\ seen = [c \in Connections |-> Empty]
    /\ edits = 0

-----------------------------------------------------------------------------
(* SQLite: what a connection reads, and the outcomes of a write.            *)

View(c) == IF txn[c] = "reads" THEN seen[c] ELSE db

\* The first read inside a transaction takes its snapshot.
Reads(c) ==
    IF txn[c] = "begun"
      THEN /\ txn' = [txn EXCEPT ![c] = "reads"]
           /\ seen' = [seen EXCEPT ![c] = db]
      ELSE UNCHANGED <<txn, seen>>

\* No other connection is in a write, and no snapshot is out of date.
CanWrite(c) ==
    /\ \A o \in Connections \ {c} : txn[o] # "writes"
    /\ txn[c] = "reads" => seen[c] = db

Ends(c) == /\ txn' = [txn EXCEPT ![c] = "none"]
           /\ seen' = [seen EXCEPT ![c] = Empty]

Commits(c, d) == db' = d /\ Ends(c)

\* "database is locked": the transaction opened for the INSERT stays open.
LockedOut(c) ==
    /\ txn' = [txn EXCEPT ![c] = IF @ = "none" THEN "begun" ELSE @]
    /\ UNCHANGED <<db, seen>>

Returns(c) == conn' = [conn EXCEPT ![c] = Idle]

-----------------------------------------------------------------------------
(* Chain.append.                                                            *)

\* The lock gate, the head, the hash and the signature.
Prepare(c, type, target) ==
    /\ upgraded /\ conn[c].at = "idle"
    /\ locked => type = "recovery"
    /\ \E h \in Heads(View(c).rows) :
        conn' = [conn EXCEPT ![c] =
            [Idle EXCEPT !.at = "insert", !.rec = Record(h[1], h[2], type, target)]]
    /\ Reads(c)
    /\ UNCHANGED <<db, upgraded, older, locked, edits>>

\* The database with the record, its index row in the same transaction.
WithRecord(d, r) ==
    [d EXCEPT !.rows = @ \cup {r},
              !.index = IF r.type \in Tables
                          THEN [d.index EXCEPT ![r.type] =
                                    Upsert(r.type, @, Entry(r))]
                          ELSE @]

Inserting(c) == /\ conn[c].at = "insert" /\ Returns(c)
                /\ UNCHANGED <<upgraded, older, locked, edits>>

Taken(r) == \E s \in db.rows : s.idx = r.idx

\* Mutants: the index is not a key; the index table is left to the backfill.
InsertNoKey(c) ==
    /\ Inserting(c) /\ CanWrite(c)
    /\ Commits(c, WithRecord(db, conn[c].rec))

InsertUnindexed(c) ==
    LET r == conn[c].rec IN
    /\ Inserting(c) /\ CanWrite(c) /\ ~Taken(r)
    /\ Commits(c, [db EXCEPT !.rows = @ \cup {r}])

\* INSERT and commit.
Insert(c) ==
    /\ Inserting(c) /\ CanWrite(c) /\ ~Taken(conn[c].rec)
    /\ Commits(c, WithRecord(db, conn[c].rec))

\* IntegrityError: append raises, the write lock stays with the connection.
InsertConflict(c) ==
    /\ Inserting(c) /\ CanWrite(c) /\ Taken(conn[c].rec)
    /\ txn' = [txn EXCEPT ![c] = "writes"]
    /\ seen' = [seen EXCEPT ![c] = Empty]
    /\ UNCHANGED db

\* OperationalError, after the busy timeout.
InsertLockedOut(c) ==
    /\ Inserting(c) /\ ~CanWrite(c)
    /\ LockedOut(c)

\* The process dies, or is restarted: SQLite drops an open transaction.
Die(c) ==
    /\ conn[c] # Idle \/ txn[c] # "none"
    /\ Returns(c) /\ Ends(c)
    /\ UNCHANGED <<db, upgraded, older, locked, edits>>

\* An append by the program as it was before the index tables.
LegacyAppend(type, target) ==
    /\ ~upgraded /\ Cardinality(db.rows) < LegacyRows
    /\ \E h \in Heads(db.rows) :
        db' = [db EXCEPT !.rows = @ \cup {Record(h[1], h[2], type, target)}]
    /\ UNCHANGED <<upgraded, older, locked, conn, txn, seen, edits>>

\* The program with the index tables opens the chain: empty tables.
Upgrade ==
    /\ ~upgraded /\ upgraded' = TRUE
    /\ \E h \in Heads(db.rows) : older' = h[1]
    /\ UNCHANGED <<db, locked, conn, txn, seen, edits>>

-----------------------------------------------------------------------------
(* The lazy backfill that every read of an index table does first.          *)

\* Every record of the type; for blobs the latest one of each target.
Backfill(rows, t) ==
    {Entry(r) : r \in {s \in rows :
        /\ s.type = t
        /\ t = "blob_index" => \A u \in rows :
              u.type = t /\ u.target = s.target => u.idx <= s.idx}}

\* The backfill is skipped as soon as the table has any row; it commits even
\* when it finds nothing.
ReadIndex(c, t) ==
    LET found == Backfill(View(c).rows, t) IN
    /\ upgraded /\ conn[c].at = "idle"
    /\ IF View(c).index[t] # {}
         THEN Reads(c) /\ UNCHANGED db
         ELSE CASE found = {}   -> Commits(c, db)
                [] found # {} /\ CanWrite(c) ->
                                   Commits(c, [db EXCEPT !.index[t] = found])
                [] OTHER        -> IF txn[c] = "begun"
                                     THEN Reads(c) /\ UNCHANGED db
                                     ELSE LockedOut(c)
    /\ UNCHANGED <<upgraded, older, locked, conn, edits>>

\* What a read returns: after the backfill, if it does one.
Answer(d, t) == IF d.index[t] = {} THEN Backfill(d.rows, t) ELSE d.index[t]

-----------------------------------------------------------------------------
(* seal_batch: the next run of records that no batch covers.                *)

NextFirst(batches) ==
    IF batches = <<>> THEN 0 ELSE batches[Len(batches)].last + 1

\* The hashes of rows, in the order of their indices.
Leaves(rows) ==
    [i \in 1..Cardinality(rows) |->
        (CHOOSE r \in rows : Cardinality({s \in rows : s.idx < r.idx}) = i - 1).hash]

Batched(rows, first, last) == {r \in rows : r.idx \in first..last}

SealRead(c, size) ==
    LET first == NextFirst(View(c).batches)
        run == Batched(View(c).rows, first, first + size - 1)
    IN
    /\ upgraded /\ conn[c].at = "idle" /\ Len(db.batches) < MaxBatches
    /\ run # {}
    /\ \E last \in {r.idx : r \in run} :
        /\ \A r \in run : r.idx <= last
        /\ conn' = [conn EXCEPT ![c] = [Idle EXCEPT !.at = "seal",
                !.first = first, !.last = last, !.leaves = Leaves(run)]]
    /\ Reads(c)
    /\ UNCHANGED <<db, upgraded, older, locked, edits>>

SealInsert(c) ==
    LET s == conn[c] IN
    /\ conn[c].at = "seal" /\ Returns(c)
    /\ IF CanWrite(c)
         THEN Commits(c, [db EXCEPT !.batches = Append(@,
                [first |-> s.first, last |-> s.last,
                 root |-> MerkleRoot(s.leaves)])])
         ELSE LockedOut(c)
    /\ UNCHANGED <<upgraded, older, locked, edits>>

-----------------------------------------------------------------------------
(* The flag file, and edits of the table by something without the key: a    *)
(* field is changed (with the hash recomputed or not; the signature cannot  *)
(* be made), or a record that is not the last is removed.  No append is in  *)
(* progress then: with no timestamp in the model, a record made before a    *)
(* removal might equal the removed one and take its place.                  *)

Lockdown == /\ ~locked /\ locked' = TRUE
            /\ UNCHANGED <<db, upgraded, older, conn, txn, seen, edits>>

Unlock == /\ locked /\ locked' = FALSE
          /\ UNCHANGED <<db, upgraded, older, conn, txn, seen, edits>>

EditRow(r) ==
    /\ edits < MaxEdits /\ edits' = edits + 1
    /\ \A c \in Connections : conn[c].at = "idle" /\ txn[c] # "writes"
    /\ \/ /\ \E s \in db.rows : s.idx > r.idx
          /\ db' = [db EXCEPT !.rows = @ \ {r}]
       \/ \E type \in Types \ {r.type}, rehash \in BOOLEAN :
            LET e == Record(r.idx, r.prior, type, r.target) IN
            db' = [db EXCEPT !.rows = (@ \ {r}) \cup
                {[e EXCEPT !.sig = r.sig, !.hash = IF rehash THEN @ ELSE r.hash]}]
    /\ UNCHANGED <<upgraded, older, locked, conn, txn, seen>>

-----------------------------------------------------------------------------
Points(type, target) ==
    IF type \in Tables THEN target \in Targets ELSE target = NoTarget

Step(c) == Insert(c) \/ InsertConflict(c) \/ InsertLockedOut(c) \/ SealInsert(c)

Next ==
    \/ \E type \in Types, target \in Targets \cup {NoTarget} :
        /\ Points(type, target)
        /\ \/ LegacyAppend(type, target)
           \/ \E c \in Connections : Prepare(c, type, target)
    \/ \E c \in Connections : Step(c) \/ Die(c)
    \/ \E c \in Connections, t \in Tables : ReadIndex(c, t)
    \/ \E c \in Sealers, size \in BatchSizes : SealRead(c, size)
    \/ Upgrade \/ Lockdown \/ Unlock
    \/ \E r \in db.rows : EditRow(r)

Spec == Init /\ [][Next]_vars

-----------------------------------------------------------------------------
(* verify() and the properties.                                             *)

\* Records follow each other without a gap, each naming its predecessor's
\* hash.
Linked(rows) ==
    /\ \A r, s \in rows : r.idx = s.idx => r = s
    /\ \A r \in rows :
        \/ r.idx = 0 /\ r.prior = Genesis
        \/ \E s \in rows : s.idx + 1 = r.idx /\ s.hash = r.prior

\* Mutant: the signature is not verified.
AuthenticUnsigned(r) == r.hash = <<r.idx, r.prior, r.type, r.target>>

\* The hash is that of the fields, the signature that of the hash.
Authentic(r) == /\ r.hash = <<r.idx, r.prior, r.type, r.target>>
                /\ r.sig = r.hash
Verify(rows) == Linked(rows) /\ \A r \in rows : Authentic(r)

\* Every variable has the values the code can give it.
TypeOK ==
    /\ \A r \in db.rows : r.idx \in Nat /\ r.type \in Types
                          /\ r.target \in Targets \cup {NoTarget}
    /\ edits = 0 => \A t \in Tables : \A e \in db.index[t] :
        e.idx \in Nat /\ e.target \in Targets
    /\ upgraded \in BOOLEAN /\ older \in Nat /\ locked \in BOOLEAN
    /\ \A c \in Connections :
        /\ conn[c].at \in {"idle", "insert", "seal"}
        /\ txn[c] \in {"none", "begun", "reads", "writes"}
    /\ edits \in Nat

\* verify() says "chain ok" of every table the program can build, however its
\* connections interleave, whichever INSERT fails and whenever a process dies.
ChainVerifies == edits = 0 => Verify(db.rows)

\* ... and goes on failing after an edit, whatever is appended afterwards.
EditsAreDetected == edits > 0 => ~Verify(db.rows)

\* The chain is append-only: no step of the program changes or removes a row.
AppendOnly == [][db.rows \subseteq db'.rows \/ edits' > edits]_vars

\* What inclusion_proof returns for the record at index i: the proof is made
\* from the records as the table has them now.
InclusionProof(rows, b, i) ==
    MerkleProof(Leaves(Batched(rows, b.first, b.last)), i - b.first)

\* seal_batch takes "the next un-batched run of records": batches cover the
\* chain's prefix without gap or overlap, and the proof that inclusion_proof
\* makes of a record later on leads from its hash to the root sealed then.
BatchesPartition ==
    /\ \A b \in DOMAIN db.batches :
        db.batches[b].first = IF b = 1 THEN 0 ELSE db.batches[b - 1].last + 1
    /\ edits = 0 =>
        \A k \in DOMAIN db.batches :
            LET batch == db.batches[k] IN
            \A i \in batch.first..batch.last :
                \E r \in db.rows :
                    /\ r.idx = i
                    /\ VerifyMerkleProof(r.hash, InclusionProof(db.rows, batch, i), batch.root)

\* The index tables miss no record that was appended since they exist, and
\* name none that is not on the chain, whichever connection appends, reads or
\* fails first: an answer is what a scan of the chain would give, or of the
\* chain above some height within the records that are older.
From(rows, h) == {r \in rows : r.idx >= h}

IndexTellsNew ==
    edits = 0 /\ upgraded =>
        \A c \in Connections, t \in Tables : \E h \in 0..older :
            Answer(View(c), t) = Backfill(From(View(c).rows, h), t)

\* "This is what makes the upgrade transparent": a read of an index table
\* returns what a scan of all the records would.
IndexMatchesScan ==
    edits = 0 /\ upgraded =>
        \A c \in Connections, t \in Tables :
            Answer(View(c), t) = Backfill(View(c).rows, t)

\* "can run without `database is locked` errors": no connection is left in a
\* transaction whose snapshot is out of date, in which it reads an old chain
\* and cannot append until its process is restarted.
NeverWedged == \A c \in Connections : txn[c] = "reads" => seen[c] = db
=============================================================================
