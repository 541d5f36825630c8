------------------------------ MODULE TaskChain ------------------------------
(***************************************************************************)
(* One long-horizon task: its entry in the registry (task_registry.py), its*)
(* chain of data-height blocks (continuum.py), its embedding store         *)
(* (retrieval.py) and the tools that work on it (tools.py): task_open,     *)
(* task_ingest_path, task_ingest_file, ingest_blob, task_reembed and the   *)
(* retrieval.  The artifacts task, to which uploads go, is such a task too.*)
(*                                                                         *)
(* Four copies of what is known live apart: the registry's file and the map*)
(* in memory, the rolling state in the chain's last record and the one     *)
(* cached by Continuum, the rows of the store and the matrix searched, and *)
(* the tree of files.  A tool writes them one after the other; an append,  *)
(* an embedding or a save may raise, which ends the call but not the       *)
(* process, and the process may die between any two writes.                *)
(*                                                                         *)
(* One process works on the data directory.  A file's text stands for the  *)
(* version it is of, a record for what the state and the walk read in it.  *)
(***************************************************************************)
EXTENDS Chunker, FiniteSets

CONSTANTS
    Files,      \* the files of the source tree, in the order of the walk
    NoFile,     \* what a task_open record is about
    Versions,   \* contents a file may have, as numbers from 1
    Text,       \* Text[v]: the text of version v, by the lengths of its lines
    Pieces,     \* embedding chunks of a record
    BatchSize,  \* embedding chunks per commit of a re-embedding
    MaxRings,   \* bound on the records of the chain
    MaxEdits,   \* bound on edits of the tree
    MaxFaults   \* bound on exceptions and crashes

ASSUME ConstantsAssumption ==
    /\ \A i \in DOMAIN Files : Files[i] # NoFile
    /\ Versions \subseteq Nat \ {0}
    /\ Text \in [Versions -> Seq(Nat \ {0})]
    /\ Pieces \in Nat \ {0} /\ BatchSize \in Nat \ {0}
    /\ MaxRings \in Nat /\ MaxEdits \in Nat /\ MaxFaults \in Nat

VARIABLES
    content,  \* the version each file of the tree has
    reg,      \* the task's entry in tasks.json
    ring,     \* the task's chain: task_open and continuum records
    store,    \* embeddings.sqlite as committed: whose vectors, of what
    known,    \* the registry's map in memory
    cached,   \* Continuum._state
    index,    \* the open EmbeddingIndex, its uncommitted rows, its matrix
    session,  \* the embedding model of the session answers
    op,       \* the tool call in progress
    faults, edits,
    raised,   \* an append raised when some chunks of its file were sealed
    cut,      \* files whose last ingest was cut short, or sealed a file that
              \* was edited between two readings of it
    torn      \* records whose embedding was cut short

durable == <<reg, ring, store>>
vars == <<content, reg, ring, store, known, cached, index, session, op,
          faults, edits, raised, cut, torn>>

\* The data-height chunks of a version.
Chunks == [v \in Versions |-> Len(ChunkLines(Text[v]))]

FileSet == {Files[i] : i \in DOMAIN Files}

NoEntry == [exists |-> FALSE, embedder |-> "hash", items |-> 0]
Entry   == [NoEntry EXCEPT !.exists = TRUE]

\* The metrics of the rolling state; a task that was never opened has none.
Unopened == [open |-> FALSE, blocks |-> 0, items |-> 0]
Opened   == [Unopened EXCEPT !.open = TRUE]

NoStore == [id |-> "none", rows |-> {}]
Closed  == [open |-> FALSE, pending |-> {}, built |-> FALSE, matrix |-> {}]

\* What a call has read of the file it seals: the version the text is of, and
\* the hash and the number of chunks that go into the blocks.  `edited`: the
\* file changed between two readings of it.
Unread == [ver |-> 0, hash |-> 0, of |-> 0, streamed |-> FALSE, edited |-> FALSE]
OneReading(v) == [Unread EXCEPT !.ver = v, !.hash = v, !.of = Chunks[v]]

Idle == [kind |-> "none", at |-> "idle", then |-> "idle", todo |-> <<>>, chunk |-> 1,
         read |-> Unread, st |-> Unopened, left |-> {}, failed |-> {}]

Init ==
    /\ content \in [FileSet -> Versions]
    /\ reg = NoEntry /\ ring = <<>> /\ store = NoStore
    /\ known = NoEntry /\ cached = Unopened /\ index = Closed
    /\ session \in BOOLEAN /\ op = Idle
    /\ faults = 0 /\ edits = 0 /\ raised = FALSE /\ cut = {} /\ torn = {}

-----------------------------------------------------------------------------
Fault == faults < MaxFaults /\ faults' = faults + 1
Fine  == UNCHANGED faults

\* The state the next block refreshes: the cached one, or the head's.
HeadState == IF ring = <<>> THEN Unopened ELSE ring[Len(ring)].st
Current   == IF cached.open THEN cached ELSE HeadState

\* The embedder of the task's store.
Wanted == IF known.embedder = "session" /\ session THEN "session" ELSE "hash"

Whole(i) == {i} \X (1..Pieces)
RowsOf(i, rows) == {r \in rows : r[1] = i}

\* What the index's own connection sees.
Visible == store.rows \cup index.pending
Missing == {i \in 1..Len(ring) : RowsOf(i, Visible) = {}}

First(S) == CHOOSE i \in S : \A j \in S : i <= j

-----------------------------------------------------------------------------
(* Registry.                                                                *)

\* A change of the map in memory, then the save of all of it; when the save
\* raises, memory keeps the change.
Saves(entry) ==
    /\ known' = entry
    /\ \/ reg' = entry /\ Fine
       \/ reg' = reg /\ Fault

\* create, by task_open or by the first upload.
Create(kind, todo, read) ==
    /\ op.at = "idle" /\ ~known.exists
    /\ Saves(Entry)
    /\ op' = IF reg' = reg THEN Idle
             ELSE [Idle EXCEPT !.kind = kind, !.todo = todo, !.read = read,
                               !.at = "open", !.then = "index"]
    /\ UNCHANGED <<content, ring, store, cached, index, session, edits, raised,
                   cut, torn>>

\* update_state and set_embedder, the last write of a call.
Record ==
    /\ op.at = "record"
    /\ Saves(IF op.kind = "reembed" THEN [known EXCEPT !.embedder = "session"]
             ELSE [known EXCEPT !.items = op.st.items])
    /\ op' = Idle
    /\ UNCHANGED <<content, ring, store, cached, index, session, edits, raised,
                   cut, torn>>

\* The operator moves tasks.json aside, restarts, and repair() registers the
\* directory it finds.
Repair ==
    /\ op.at = "idle" /\ reg.exists /\ ring # <<>> /\ Fault
    /\ reg' = Entry /\ known' = Entry
    /\ cached' = Unopened /\ index' = Closed /\ session' \in BOOLEAN
    /\ UNCHANGED <<content, ring, store, op, edits, raised, cut, torn>>

-----------------------------------------------------------------------------
(* The beginning of a call, up to its first write.                          *)

Begin(kind) ==
    /\ op.at = "idle" /\ known.exists
    /\ UNCHANGED <<content, reg, ring, store, known, cached, index, session,
                   faults, edits, raised, cut, torn>>
    /\ op' = [Idle EXCEPT !.kind = kind, !.at = "index"]

IngestPath(changedOnly) ==
    Begin(IF changedOnly THEN "walk_changed" ELSE "walk")

\* task_ingest reads the text of the file and then hashes the file; the call
\* of an approved write brings the hash, and the text is read after it.
IngestFile(f) ==
    /\ op.at = "idle" /\ known.exists
    /\ \E read \in {[OneReading(content[f]) EXCEPT !.hash = 0],
                    [Unread EXCEPT !.hash = content[f]]} :
        op' = [Idle EXCEPT !.kind = "file", !.todo = <<f>>, !.then = "index",
                           !.read = read, !.at = "read"]
    /\ UNCHANGED <<content, reg, ring, store, known, cached, index, session,
                   faults, edits, raised, cut, torn>>

\* The second reading; then a task that has no state yet is opened.
ReadAgain ==
    LET v == content[Head(op.todo)] IN
    /\ op.at = "read"
    /\ op' = [op EXCEPT
            !.read = IF op.read.ver # 0 THEN [@ EXCEPT !.hash = v]
                     ELSE [@ EXCEPT !.ver = v, !.of = Chunks[v]],
            !.at = IF HeadState.open THEN "index" ELSE "open"]
    /\ UNCHANGED <<content, reg, ring, store, known, cached, index, session,
                   faults, edits, raised, cut, torn>>

\* ingest_blob does not open it; its text comes with the call.
Upload(f, ver) ==
    /\ op.at = "idle" /\ known.exists
    /\ op' = [Idle EXCEPT !.kind = "upload", !.todo = <<f>>,
                          !.read = OneReading(ver), !.at = "index"]
    /\ UNCHANGED <<content, reg, ring, store, known, cached, index, session,
                   faults, edits, raised, cut, torn>>

-----------------------------------------------------------------------------
(* Continuum.                                                               *)

Append1(r) == ring' = Append(ring, r)

\* open_task.
SealOpen ==
    /\ op.at = "open" /\ Len(ring) < MaxRings
    /\ \/ /\ Append1([kind |-> "task_open", file |-> NoFile, hash |-> 0, body |-> 0,
                      chunk |-> 0, of |-> 0, st |-> Opened])
          /\ cached' = Opened
          /\ op' = [op EXCEPT !.at = op.then, !.st = Opened]
          /\ Fine
       \/ op' = Idle /\ Fault /\ UNCHANGED <<ring, cached>>
    /\ UNCHANGED <<content, reg, store, known, index, session, edits, raised,
                   cut, torn>>

\* latest_file_hashes: the hash in the last block of each file.
Blocks(f) == {i \in 1..Len(ring) : ring[i].kind = "continuum" /\ ring[i].file = f}
Latest(f) == IF Blocks(f) = {} THEN 0
             ELSE ring[CHOOSE i \in Blocks(f) : \A j \in Blocks(f) : j <= i].hash

\* walk: the files to ingest; the state is copied into the cache.
Plan ==
    /\ op.at = "plan"
    /\ op' = [op EXCEPT
            !.at = IF Current.open THEN "seal" ELSE "open", !.then = "seal",
            !.st = Current,
            !.todo = SelectSeq(Files, LAMBDA f :
                op.kind = "walk_changed" => Latest(f) # content[f])]
    /\ cached' = Current
    /\ UNCHANGED <<content, reg, ring, store, known, index, session, faults,
                   edits, raised, cut, torn>>

\* What is embedded after an ingest: index_chain takes whatever is missing.
ToEmbed(o, sealed) ==
    IF o.kind \in {"file", "upload"} THEN o.left \cup sealed ELSE {}

\* A walk comes to a file.  It reads it at once or, if it is large (the size is
\* left open here), streams it a first time for its hash and its chunks.
ReadFile ==
    LET v == content[Head(op.todo)] IN
    /\ op.at = "seal" /\ op.todo # <<>> /\ op.read.hash = 0
    /\ \E read \in {OneReading(v),
                    [OneReading(v) EXCEPT !.ver = 0, !.streamed = TRUE]} :
        op' = [op EXCEPT !.read = read]
    /\ UNCHANGED <<content, reg, ring, store, known, cached, index, session,
                   faults, edits, raised, cut, torn>>

\* The next chunk is of version ver, and the last one or not.  A large file is
\* streamed a second time while it is sealed: if it was edited, what comes is
\* of the old or of the new version, and may break off where the new one ends.
NextChunk(ver, end) ==
    LET now == content[Head(op.todo)] IN
    IF op.read.streamed
      THEN /\ ver \in {op.read.ver, now} /\ op.chunk <= Chunks[ver]
           /\ op.chunk = Chunks[ver] => end
           /\ end => \/ op.chunk = Chunks[ver]
                     \/ ver # now /\ op.chunk >= Chunks[now]
      ELSE ver = op.read.ver /\ (end <=> op.chunk = Chunks[ver])

\* Mutant: each block has the hash of the file as it is when it is sealed.
BlockRehashes(f, ver, st) ==
    [kind |-> "continuum", file |-> f, hash |-> content[f], body |-> ver,
     chunk |-> op.chunk, of |-> op.read.of, st |-> st]

\* One block of _seal_chunks.
Block(f, ver, st) ==
    [kind |-> "continuum", file |-> f, hash |-> op.read.hash, body |-> ver,
     chunk |-> op.chunk, of |-> op.read.of, st |-> st]

Advance(st, last) == [st EXCEPT !.blocks = @ + 1,
                                !.items = IF last THEN @ + 1 ELSE @]

AfterChunk(st, ver, end) ==
    LET o == [op EXCEPT !.st = st, !.left = ToEmbed(op, {Len(ring) + 1})] IN
    IF end THEN [o EXCEPT !.read = Unread, !.chunk = 1, !.todo = Tail(@)]
    ELSE [o EXCEPT !.read = [@ EXCEPT !.ver = ver], !.chunk = @ + 1]

\* Mutant: the cache is not refreshed.
SealChunkUncached ==
    LET f    == Head(op.todo)
        base == IF op.chunk = 1 THEN Current ELSE op.st
        st   == Advance(base, op.chunk = op.read.of)
    IN
    /\ op.at = "seal" /\ op.todo # <<>> /\ op.read.hash # 0
    /\ base.open /\ Len(ring) < MaxRings
    /\ \E ver \in Versions, end \in BOOLEAN :
        /\ NextChunk(ver, end)
        /\ Append1(Block(f, ver, st))
        /\ op' = AfterChunk(st, ver, end)
    /\ UNCHANGED <<content, reg, store, known, cached, index, session, faults,
                   edits, raised, cut, torn>>

\* The cache follows once the last chunk of the file is sealed.
SealChunk ==
    LET f    == Head(op.todo)
        base == IF op.chunk = 1 THEN Current ELSE op.st
        st   == Advance(base, op.chunk = op.read.of)
    IN
    /\ op.at = "seal" /\ op.todo # <<>> /\ op.read.hash # 0
    /\ base.open /\ Len(ring) < MaxRings
    /\ \E ver \in Versions, end \in BOOLEAN :
        /\ NextChunk(ver, end)
        /\ Append1(Block(f, ver, st))
        /\ cached' = IF end THEN st ELSE cached
        /\ op' = AfterChunk(st, ver, end)
        /\ cut' = IF ~end THEN cut
                  ELSE IF op.read.edited THEN cut \cup {f} ELSE cut \ {f}
    /\ UNCHANGED <<content, reg, store, known, index, session, faults, edits,
                   raised, torn>>

\* The append raises, or the task was never opened: the call ends, the cache
\* stays as it was before the file.
CutShort == cut' = IF op.at = "seal" /\ op.chunk > 1 THEN cut \cup {Head(op.todo)}
                   ELSE cut

SealRaises ==
    /\ op.at = "seal" /\ op.todo # <<>>
    /\ IF Current.open \/ op.chunk > 1 THEN Fault ELSE Fine
    /\ op' = Idle /\ CutShort
    /\ raised' = (raised \/ op.chunk > 1)
    /\ UNCHANGED <<content, reg, ring, store, known, cached, index, session,
                   edits, torn>>

Sealed ==
    /\ op.at = "seal" /\ op.todo = <<>>
    /\ op' = [op EXCEPT !.at = "embed",
            !.left = IF op.kind \in {"file", "upload"} THEN @ ELSE Missing]
    /\ UNCHANGED <<content, reg, ring, store, known, cached, index, session,
                   faults, edits, raised, cut, torn>>

-----------------------------------------------------------------------------
(* The embedding store.                                                     *)

\* What follows the opening of the index.
AfterIndex(kind) ==
    CASE kind \in {"walk", "walk_changed"} -> "plan"
      [] kind \in {"file", "upload"}       -> "seal"
      [] OTHER                             -> "search"

\* Mutant: a store of another embedder is always rebuilt.
RebuildableAny(id) == TRUE

Rebuildable(id) == id \in {"none", "hash"}

\* get_task_index over open_or_rebuild_index: an index that is not open yet is
\* opened, rebuilt if the store is the cheap embedder's, refused if it is not;
\* then filled with what the chain has and it has not.
OpenIndex ==
    /\ op.at = "index"
    /\ IF index.open
         THEN /\ op' = [op EXCEPT !.at = AfterIndex(op.kind)]
              /\ UNCHANGED <<store, index, torn>>
       ELSE IF store.id = Wanted \/ Rebuildable(store.id)
         THEN LET kept == IF store.id = Wanted THEN store.rows ELSE {} IN
              /\ store' = [id |-> Wanted, rows |-> kept]
              /\ index' = [Closed EXCEPT !.open = TRUE]
              /\ op' = [op EXCEPT !.at = "fill", !.left =
                    {i \in 1..Len(ring) : RowsOf(i, kept) = {}}]
              /\ torn' = IF store.id = Wanted THEN torn ELSE {}
         ELSE op' = Idle /\ UNCHANGED <<store, index, torn>>
    /\ UNCHANGED <<content, reg, ring, known, cached, session, faults, edits,
                   raised, cut>>

\* What follows when nothing is left to embed.
AfterEmbedding ==
    IF op.at = "fill" THEN [op EXCEPT !.at = AfterIndex(op.kind)]
    ELSE IF op.kind = "upload" THEN Idle ELSE [op EXCEPT !.at = "record"]

Embedded ==
    /\ op.at \in {"fill", "embed"} /\ op.left = {}
    /\ op' = AfterEmbedding
    /\ UNCHANGED <<content, reg, ring, store, known, cached, index, session,
                   faults, edits, raised, cut, torn>>

\* index_record: the rows of the record are replaced and committed, with
\* whatever the connection had not committed; the matrix, when it is built,
\* grows by the new rows, or is dropped when the record had rows before.
IndexRecord ==
    LET i   == First(op.left)
        old == RowsOf(i, Visible)
    IN
    /\ op.at \in {"fill", "embed"} /\ op.left # {}
    /\ op' = [op EXCEPT !.left = @ \ {i}]
    /\ store' = [store EXCEPT !.rows = (Visible \ old) \cup Whole(i)]
    /\ index' = [index EXCEPT
            !.pending = {},
            !.built = @ /\ old = {},
            !.matrix = IF index.built /\ old = {} THEN @ \cup Whole(i) ELSE {}]
    /\ torn' = torn \ {i}
    /\ UNCHANGED <<content, reg, ring, known, cached, session, faults, edits,
                   raised, cut>>

\* The embedder raises at some chunk: the caller goes on with the next record,
\* the rows inserted so far wait in the transaction.
IndexRecordRaises ==
    LET i == First(op.left) IN
    /\ op.at \in {"fill", "embed"} /\ op.left # {} /\ Fault
    /\ \E n \in 0..(Pieces - 1) :
        index' = [index EXCEPT !.pending = @ \cup ({i} \X (1..n))]
    /\ op' = [op EXCEPT !.left = @ \ {i}]
    /\ torn' = torn \cup {i}
    /\ UNCHANGED <<content, reg, ring, store, known, cached, session, edits,
                   raised, cut>>

\* search builds the matrix from what its connection sees.
Search ==
    /\ op.at = "search"
    /\ op' = Idle
    /\ index' = IF index.built THEN index
                ELSE [index EXCEPT !.built = Visible # {}, !.matrix = Visible]
    /\ UNCHANGED <<content, reg, ring, store, known, cached, session, faults,
                   edits, raised, cut, torn>>

\* task_reembed: a new store of the session's embedder, whatever was there.
Reembed ==
    /\ op.at = "idle" /\ known.exists /\ session
    /\ store' = [id |-> "session", rows |-> {}]
    /\ index' = [Closed EXCEPT !.open = TRUE]
    /\ op' = [Idle EXCEPT !.kind = "reembed", !.at = "batch",
                          !.left = (1..Len(ring)) \X (1..Pieces)]
    /\ torn' = {}
    /\ UNCHANGED <<content, reg, ring, known, cached, session, faults, edits,
                   raised, cut>>

\* The next BatchSize chunks, in the order of the records.
Before(p, q) == p[1] < q[1] \/ (p[1] = q[1] /\ p[2] < q[2])
Batch(left) ==
    {p \in left : Cardinality({q \in left : Before(q, p)}) < BatchSize}

\* One commit of index_records_batched.  A record one of whose chunks cannot
\* be embedded gets no further rows.
EmbedBatch ==
    /\ op.at = "batch" /\ op.left # {}
    /\ \E bad \in {{}} \cup {{i} : i \in {p[1] : p \in Batch(op.left)}} :
       \E n \in 1..Pieces :
        LET failed == op.failed \cup bad
            done   == {p \in Batch(op.left) :
                        \/ p[1] \notin failed
                        \/ (p[1] \in bad \ op.failed /\ p[2] < n)}
        IN
        /\ IF bad = {} THEN Fine /\ n = 1 ELSE Fault
        /\ store' = [store EXCEPT !.rows = @ \cup done]
        /\ op' = [op EXCEPT !.left = @ \ Batch(op.left), !.failed = failed]
    /\ UNCHANGED <<content, reg, ring, known, cached, index, session, edits,
                   raised, cut, torn>>

\* Mutant: what a failed record got stays.
ReembeddedKeepsPartial ==
    /\ op.at = "batch" /\ op.left = {}
    /\ op' = [op EXCEPT !.at = "record"]
    /\ UNCHANGED <<content, reg, ring, store, known, cached, index, session,
                   faults, edits, raised, cut, torn>>

\* The rows of the records that failed are deleted.
Reembedded ==
    /\ op.at = "batch" /\ op.left = {}
    /\ store' = [store EXCEPT !.rows = {r \in @ : r[1] \notin op.failed}]
    /\ op' = [op EXCEPT !.at = "record"]
    /\ UNCHANGED <<content, reg, ring, known, cached, index, session, faults,
                   edits, raised, cut, torn>>

-----------------------------------------------------------------------------
\* The process dies and is started again, with or without its model.
Crash ==
    /\ Fault
    /\ known' = reg /\ cached' = Unopened /\ index' = Closed /\ op' = Idle
    /\ session' \in BOOLEAN
    /\ CutShort
    /\ torn' = IF op.at = "batch"
                 THEN {i \in 1..Len(ring) : RowsOf(i, store.rows) # Whole(i)} ELSE torn
    /\ UNCHANGED <<content, durable, edits, raised>>

\* Somebody edits a file, perhaps one that a call reads a second time.
ReadsAgain(f) == /\ op.todo # <<>> /\ Head(op.todo) = f
                 /\ op.at = "read" \/ op.read.streamed

Edit(f) ==
    /\ edits < MaxEdits /\ edits' = edits + 1
    /\ \E v \in Versions \ {content[f]} : content' = [content EXCEPT ![f] = v]
    /\ op' = IF ReadsAgain(f) THEN [op EXCEPT !.read = [@ EXCEPT !.edited = TRUE]]
             ELSE op
    /\ UNCHANGED <<reg, ring, store, known, cached, index, session, faults,
                   raised, cut, torn>>

Next ==
    \/ Create("walk", <<>>, Unread)
    \/ \E f \in FileSet : \E v \in Versions :
            Create("upload", <<f>>, OneReading(v)) \/ Upload(f, v)
    \/ SealOpen \/ Record \/ Repair
    \/ \E changedOnly \in BOOLEAN : IngestPath(changedOnly)
    \/ \E f \in FileSet : IngestFile(f) \/ Edit(f)
    \/ ReadAgain \/ Plan \/ ReadFile \/ SealChunk \/ SealRaises \/ Sealed
    \/ OpenIndex \/ Embedded \/ IndexRecord \/ IndexRecordRaises
    \/ Begin("search") \/ Search
    \/ Reembed \/ EmbedBatch \/ Reembedded
    \/ Crash

Spec == Init /\ [][Next]_vars

-----------------------------------------------------------------------------
(* Properties.                                                              *)

\* "each block carries the COMPLETE task state": the metrics of every record
\* are what a count over the chain since the task was opened gives, so that
\* validate() finds the chain coherent and a session resumes with the truth,
\* whatever crashed; only an append that raised in the middle of a file breaks
\* it.
Opens(k) == {i \in 1..k : ring[i].kind = "task_open"}

HeadTellsAll ==
    ~raised => \A k \in 1..Len(ring) :
        LET done == {i \in 1..k : ring[i].kind = "continuum"
                                    /\ \A j \in Opens(k) : j < i} IN
        /\ ring[k].st.open
        /\ ring[k].st.blocks = Cardinality(done)
        /\ ring[k].st.items =
                Cardinality({i \in done : ring[i].chunk = ring[i].of})

\* What walk(changed_only) skips is in the chain in full: the last blocks of
\* the file are all its chunks, in order, of the version their hash names;
\* unless its last ingest was cut short, or the file was edited between the
\* two readings of it.
LastIsWhole(f) ==
    LET n    == Chunks[Latest(f)]
        last == CHOOSE i \in Blocks(f) : \A j \in Blocks(f) : j <= i
    IN  /\ last >= n
        /\ \A k \in 1..n :
            LET b == ring[(last - n) + k] IN
            b.file = f /\ b.chunk = k /\ b.of = n /\ b.body = Latest(f)

SkippedIsWhole ==
    \A f \in FileSet \ cut :
        Latest(f) # 0 /\ ~(op.at = "seal" /\ op.chunk > 1) => LastIsWhole(f)

\* "The sealed blocks are identical to `ingest(name, full_text)`": the same of
\* every file while nothing fails, edited in the wrong moment or not.
SealedAsRead ==
    faults = 0 /\ op.at = "idle" =>
        \A f \in FileSet : Latest(f) # 0 => LastIsWhole(f)

\* index_chain's promise, "a skipped record ... is simply not searchable until
\* a later index_chain call succeeds on it": the index_chain of a walk embeds
\* every record that is not in the store with all its chunks.
SkippedIsRetried ==
    [][op.at = "seal" /\ op'.at = "embed" /\ op.kind \in {"walk", "walk_changed"} =>
        \A i \in 1..Len(ring) : RowsOf(i, Visible) = Whole(i) \/ i \in op'.left]_vars

\* "no partial chunk sets": a record is in the store with all its chunks or
\* not at all, unless its embedding was cut short; and the matrix that is
\* searched is what a rebuild from the store would give.
EmbeddedWhole ==
    /\ \A i \in (1..Len(ring)) \ torn :
        op.at # "batch" => RowsOf(i, store.rows) \in {{}, Whole(i)}
    /\ index.built /\ torn = {} => index.matrix = Visible

\* Hours of semantic embedding are only given up by a further task_reembed:
\* restarts, other embedders, failed saves and a repaired registry keep them.
SemanticStoreKept ==
    [][store.id = "session" /\ op'.kind # "reembed" =>
        store'.id = "session" /\ store.rows \subseteq store'.rows]_vars

\* Every text is cut (iter_chunks_with_lines) into chunks that are the text
\* again, none above the ceiling, with the right line numbers.  TLC looks at
\* the short texts before anything has happened.
TextsAreWellCut ==
    ~known.exists /\ edits + faults = 0 => \A text \in ShortTexts : WellCut(text)
=============================================================================
