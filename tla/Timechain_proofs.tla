--------------------------- MODULE Timechain_proofs ---------------------------
(***************************************************************************)
(* Theorems about the record chain.                                        *)
(*                                                                         *)
(* ChainVerifies is not inductive: an append inserts a record it prepared  *)
(* against an earlier head, perhaps read from the snapshot of a            *)
(* transaction a failed INSERT left open.  IInv adds that every snapshot   *)
(* is of a part of the chain, and that every record about to be inserted   *)
(* follows a record that is on it: that, and the PRIMARY KEY, is all an    *)
(* append relies on.                                                       *)
(*                                                                         *)
(* DenseInv (the indices have no gap) makes a free index the largest, from *)
(* which IndexInv follows for the index tables and, with BatchInv and      *)
(* SealInv, the batches' cover of the chain.  That an inclusion proof      *)
(* leads to the root is proved of every list of leaves, by induction on    *)
(* the layers.  EditInv is what remains of an edit.                        *)
(*                                                                         *)
(* What a quorum adds is proved of any configuration and any file          *)
(* (QuorumTells) and of any two chains (HashTellsHistory); then of the     *)
(* chains that Timechain builds, which have a head (TopInv).               *)
(***************************************************************************)
EXTENDS AttestedChain, WellFoundedInduction, FiniteSetTheorems, TLAPS

Follows(r, rows) ==
    \/ r.idx = 0 /\ r.prior = Genesis
    \/ \E s \in rows : s.idx + 1 = r.idx /\ s.hash = r.prior

Typed(r) == r.idx \in Nat /\ r.type \in Types /\ r.target \in Targets \cup {NoTarget}

Sound(r) == Authentic(r) /\ Points(r.type, r.target)

Shape ==
    /\ db = [rows |-> db.rows, index |-> db.index, batches |-> db.batches]
    /\ db.index = [t \in Tables |-> db.index[t]]
    /\ conn = [c \in Connections |-> conn[c]]
    /\ txn = [c \in Connections |-> txn[c]]
    /\ seen = [c \in Connections |-> seen[c]]

ConnInv ==
    \A c \in Connections :
        /\ Typed(conn[c].rec)
        /\ edits = 0 =>
            /\ seen[c].rows \subseteq db.rows
            /\ conn[c].at = "insert" =>
                Sound(conn[c].rec) /\ Follows(conn[c].rec, db.rows)

RowsInv == edits = 0 => Linked(db.rows) /\ \A r \in db.rows : Sound(r)

IInv == Shape /\ TypeOK /\ ConnInv /\ RowsInv

-----------------------------------------------------------------------------
(* Records, heads and links.                                                *)

LEMMA RecordFields ==
    ASSUME NEW i, NEW p, NEW t, NEW g
    PROVE  /\ Record(i, p, t, g).idx = i /\ Record(i, p, t, g).prior = p
           /\ Record(i, p, t, g).type = t /\ Record(i, p, t, g).target = g
           /\ Authentic(Record(i, p, t, g))
BY DEF Record, Authentic

LEMMA HeadFollows ==
    ASSUME NEW rows, NEW h \in Heads(rows), NEW t, NEW g
    PROVE  /\ h[1] \in Nat
           /\ Follows(Record(h[1], h[2], t, g), rows)
<1>1. h[1] \in 0..MaxIdx /\ IsNext(rows, h[1], h[2])
  BY DEF Heads
<1>2. h[1] \in Nat
  BY <1>1, ConstantsAssumption
<1>3. \/ h[1] = 0 /\ h[2] = Genesis
      \/ \E s \in rows : h[1] = s.idx + 1 /\ h[2] = s.hash
  BY <1>1 DEF IsNext
<1> QED BY <1>2, <1>3, RecordFields DEF Follows

LEMMA HeadIsFree ==
    ASSUME NEW rows, \A r \in rows : r.idx \in Nat,
           NEW h \in Heads(rows), NEW r \in rows
    PROVE  r.idx # h[1]
<1>1. IsNext(rows, h[1], h[2])
  BY DEF Heads
<1>2. PICK s \in rows : (\A u \in rows : u.idx <= s.idx) /\ h[1] = s.idx + 1
  BY <1>1 DEF IsNext
<1>3. r.idx <= s.idx /\ r.idx \in Nat /\ s.idx \in Nat
  BY <1>2
<1> QED BY <1>2, <1>3

LEMMA FollowsMore ==
    ASSUME NEW r, NEW small, NEW large, small \subseteq large, Follows(r, small)
    PROVE  Follows(r, large)
BY DEF Follows

\* A record that follows the chain at a free index leaves it linked.
LEMMA LinkedAdd ==
    ASSUME NEW rows, Linked(rows), NEW r, Follows(r, rows),
           \A s \in rows : s.idx # r.idx
    PROVE  Linked(rows \cup {r})
BY DEF Linked, Follows

-----------------------------------------------------------------------------
(* What the building blocks of the actions do.                              *)

LEMMA ReadsShape ==
    ASSUME Shape, NEW c \in Connections, Reads(c)
    PROVE  /\ txn' = [o \in Connections |-> txn'[o]]
           /\ seen' = [o \in Connections |-> seen'[o]]
           /\ \A o \in Connections : txn'[o] = txn[o] \/ txn'[o] = "reads"
           /\ \A o \in Connections : seen'[o] = seen[o] \/ seen'[o] = db
BY DEF Shape, Reads

LEMMA EndsShape ==
    ASSUME Shape, NEW c \in Connections, Ends(c)
    PROVE  /\ txn' = [o \in Connections |-> txn'[o]]
           /\ seen' = [o \in Connections |-> seen'[o]]
           /\ \A o \in Connections : txn'[o] = txn[o] \/ txn'[o] = "none"
           /\ \A o \in Connections : seen'[o] = seen[o] \/ seen'[o].rows = {}
BY DEF Shape, Ends, Empty

LEMMA LockedOutShape ==
    ASSUME Shape, NEW c \in Connections, LockedOut(c)
    PROVE  /\ txn' = [o \in Connections |-> txn'[o]]
           /\ \A o \in Connections : txn'[o] = txn[o] \/ txn'[o] = "begun"
           /\ db' = db /\ seen' = seen
BY DEF Shape, LockedOut

LEMMA IdleTyped == Typed(Idle.rec) /\ Idle.at = "idle"
BY ConstantsAssumption DEF Typed, Idle, Record, Types

LEMMA ReturnsShape ==
    ASSUME Shape, NEW c \in Connections, Returns(c)
    PROVE  /\ conn' = [o \in Connections |-> conn'[o]]
           /\ \A o \in Connections : conn'[o] = conn[o] \/ conn'[o] = Idle
BY DEF Shape, Returns

-----------------------------------------------------------------------------
(* The connections' part of the invariant when the table stands or grows.   *)

LEMMA ConnKept ==
    ASSUME ConnInv, edits' = edits,
           db.rows \subseteq db'.rows,
           \A o \in Connections :
                conn'[o] = conn[o] \/ (conn'[o].at # "insert" /\ Typed(conn'[o].rec)),
           \A o \in Connections :
                seen'[o] = seen[o] \/ seen'[o] = db \/ seen'[o].rows = {}
    PROVE  ConnInv'
<1> SUFFICES ASSUME NEW c \in Connections
             PROVE  /\ Typed(conn'[c].rec)
                    /\ edits = 0 =>
                        /\ seen'[c].rows \subseteq db'.rows
                        /\ conn'[c].at = "insert" =>
                            Sound(conn'[c].rec) /\ Follows(conn'[c].rec, db'.rows)
  BY DEF ConnInv, Typed, Sound, Follows, Authentic, Points
<1>1. Typed(conn'[c].rec)
  BY DEF ConnInv
<1>2. ASSUME edits = 0 PROVE seen'[c].rows \subseteq db'.rows
  BY <1>2 DEF ConnInv
<1>3. ASSUME edits = 0, conn'[c].at = "insert"
      PROVE  Sound(conn'[c].rec) /\ Follows(conn'[c].rec, db'.rows)
  <2>1. conn'[c] = conn[c]
    BY <1>3
  <2>2. Sound(conn[c].rec) /\ Follows(conn[c].rec, db.rows)
    BY <1>3, <2>1 DEF ConnInv
  <2> QED BY <2>1, <2>2, FollowsMore
<1> QED BY <1>1, <1>2, <1>3
-----------------------------------------------------------------------------
(* The actions.                                                             *)

LEMMA ShapeKept ==
    ASSUME db' = [rows |-> db'.rows, index |-> db'.index, batches |-> db'.batches],
           db'.index = [t \in Tables |-> db'.index[t]],
           conn' = [c \in Connections |-> conn'[c]],
           txn' = [c \in Connections |-> txn'[c]],
           seen' = [c \in Connections |-> seen'[c]]
    PROVE  Shape'
BY DEF Shape

\* Actions that leave the database alone.
LEMMA TableStands ==
    ASSUME IInv, db' = db, edits' = edits,
           conn' = [c \in Connections |-> conn'[c]],
           txn' = [c \in Connections |-> txn'[c]],
           seen' = [c \in Connections |-> seen'[c]],
           upgraded' \in BOOLEAN, older' \in Nat, locked' \in BOOLEAN,
           \A c \in Connections : conn'[c].at \in {"idle", "insert", "seal"},
           \A c \in Connections : txn'[c] \in {"none", "begun", "reads", "writes"}
    PROVE  Shape' /\ TypeOK' /\ RowsInv'
<1>1. Shape'
  BY ShapeKept DEF IInv, Shape
<1>2. TypeOK'
  BY DEF IInv, TypeOK
<1>3. RowsInv'
  BY DEF IInv, RowsInv, Linked, Sound, Authentic
<1> QED BY <1>1, <1>2, <1>3

LEMMA PrepareKeeps ==
    ASSUME IInv, NEW c \in Connections, NEW type \in Types,
           NEW target \in Targets \cup {NoTarget}, Points(type, target),
           Prepare(c, type, target)
    PROVE  IInv'
<1> DEFINE Frame(h) == [Idle EXCEPT !.at = "insert",
                                    !.rec = Record(h[1], h[2], type, target)]
<1>1. PICK h \in Heads(View(c).rows) : conn' = [conn EXCEPT ![c] = Frame(h)]
  BY DEF Prepare
<1>2. db' = db /\ edits' = edits /\ upgraded' = upgraded /\ older' = older /\ locked' = locked
      /\ Reads(c)
  BY DEF Prepare
<1>3. Frame(h).at = "insert" /\ Frame(h).rec = Record(h[1], h[2], type, target)
  BY DEF Idle
<1> HIDE DEF Frame
<1>4. /\ conn' = [o \in Connections |-> conn'[o]]
      /\ conn'[c] = Frame(h)
      /\ \A o \in Connections \ {c} : conn'[o] = conn[o]
  BY <1>1 DEF IInv, Shape
<1>5. /\ txn' = [o \in Connections |-> txn'[o]]
      /\ seen' = [o \in Connections |-> seen'[o]]
      /\ \A o \in Connections : txn'[o] = txn[o] \/ txn'[o] = "reads"
      /\ \A o \in Connections : seen'[o] = seen[o] \/ seen'[o] = db
  BY <1>2, ReadsShape DEF IInv
<1>6. Shape' /\ TypeOK' /\ RowsInv'
  <2>1. \A o \in Connections : conn'[o].at \in {"idle", "insert", "seal"}
    BY <1>3, <1>4 DEF IInv, TypeOK
  <2>2. \A o \in Connections : txn'[o] \in {"none", "begun", "reads", "writes"}
    BY <1>5 DEF IInv, TypeOK
  <2>3. upgraded' \in BOOLEAN /\ older' \in Nat /\ locked' \in BOOLEAN
    BY <1>2 DEF IInv, TypeOK
  <2> QED BY <1>2, <1>4, <1>5, <2>1, <2>2, <2>3, TableStands
<1>7. Typed(Frame(h).rec)
  BY <1>3, HeadFollows, RecordFields DEF Typed
<1>8. edits = 0 => View(c).rows \subseteq db.rows
  BY DEF IInv, ConnInv, View
<1>9. edits = 0 => Sound(Frame(h).rec) /\ Follows(Frame(h).rec, db.rows)
  <2>1. Sound(Frame(h).rec)
    BY <1>3, RecordFields DEF Sound
  <2>2. Follows(Frame(h).rec, View(c).rows)
    BY <1>3, HeadFollows
  <2> QED BY <1>8, <2>1, <2>2, FollowsMore
<1>10. ConnInv'
  <2> SUFFICES ASSUME NEW o \in Connections
               PROVE  /\ Typed(conn'[o].rec)
                      /\ edits = 0 =>
                          /\ seen'[o].rows \subseteq db.rows
                          /\ conn'[o].at = "insert" =>
                              Sound(conn'[o].rec) /\ Follows(conn'[o].rec, db.rows)
    BY <1>2 DEF ConnInv, Typed, Sound, Follows, Authentic, Points
  <2>1. edits = 0 => seen'[o].rows \subseteq db.rows
    BY <1>5 DEF IInv, ConnInv
  <2>2. CASE o = c
    BY <1>4, <1>7, <1>9, <2>1, <2>2
  <2>3. CASE o # c
    BY <1>4, <2>1, <2>3 DEF IInv, ConnInv
  <2> QED BY <2>2, <2>3
<1> QED BY <1>6, <1>10 DEF IInv

\* The table gains a record that follows it at a free index.
LEMMA TableGrows ==
    ASSUME IInv, NEW r, edits' = edits,
           db'.rows = db.rows \cup {r}, Typed(r),
           edits = 0 => Sound(r) /\ Follows(r, db.rows),
           \A s \in db.rows : s.idx # r.idx
    PROVE  /\ RowsInv'
           /\ \A s \in db'.rows : Typed(s)
<1>1. \A s \in db'.rows : Typed(s)
  BY DEF IInv, TypeOK, Typed
<1>2. ASSUME edits = 0 PROVE Linked(db'.rows) /\ \A s \in db'.rows : Sound(s)
  <2>1. Linked(db.rows) /\ \A s \in db.rows : Sound(s)
    BY <1>2 DEF IInv, RowsInv
  <2>2. Linked(db.rows \cup {r})
    BY <1>2, <2>1, LinkedAdd
  <2> QED BY <1>2, <2>1, <2>2
<1> QED BY <1>1, <1>2 DEF RowsInv, Linked, Sound, Authentic, Points

\* An index row points at what its record points at.
LEMMA UpsertTyped ==
    ASSUME NEW entries, NEW t, NEW r, Typed(r), r.target \in Targets,
           \A e \in entries : e.idx \in Nat /\ e.target \in Targets
    PROVE  \A e \in Upsert(t, entries, Entry(r)) :
                e.idx \in Nat /\ e.target \in Targets
BY DEF Upsert, Entry, Typed

LEMMA BackfillTyped ==
    ASSUME NEW rows, NEW t \in Tables,
           \A r \in rows : Typed(r) /\ Sound(r)
    PROVE  \A e \in Backfill(rows, t) : e.idx \in Nat /\ e.target \in Targets
BY DEF Backfill, Entry, Typed, Sound, Points

LEMMA WithRecordShape ==
    ASSUME Shape, NEW r
    PROVE  LET d == WithRecord(db, r) IN
           /\ d = [rows |-> d.rows, index |-> d.index, batches |-> d.batches]
           /\ d.rows = db.rows \cup {r}
           /\ d.index = [t \in Tables |-> d.index[t]]
           /\ \A t \in Tables :
                d.index[t] = IF t = r.type THEN Upsert(t, db.index[t], Entry(r))
                                           ELSE db.index[t]
           /\ d.batches = db.batches
<1> DEFINE new == IF r.type \in Tables
                    THEN [db.index EXCEPT ![r.type] = Upsert(r.type, @, Entry(r))]
                    ELSE db.index
<1>1. WithRecord(db, r) = [db EXCEPT !.rows = @ \cup {r}, !.index = new]
  BY DEF WithRecord
<1>2. new = [t \in Tables |-> IF t = r.type THEN Upsert(t, db.index[t], Entry(r))
                                            ELSE db.index[t]]
  BY DEF Shape
<1> HIDE DEF new
<1>3. WithRecord(db, r) =
        [rows |-> db.rows \cup {r}, index |-> new, batches |-> db.batches]
  BY <1>1 DEF Shape
<1> QED BY <1>2, <1>3

LEMMA InsertKeeps ==
    ASSUME IInv, NEW c \in Connections, Insert(c)
    PROVE  IInv'
<1> DEFINE r == conn[c].rec
<1>1. /\ conn[c].at = "insert" /\ Returns(c)
      /\ edits' = edits /\ upgraded' = upgraded /\ older' = older /\ locked' = locked
      /\ \A s \in db.rows : s.idx # r.idx
      /\ db' = WithRecord(db, r) /\ Ends(c)
  BY DEF Insert, Inserting, Taken, Commits
<1>2. Typed(r) /\ (edits = 0 => Sound(r) /\ Follows(r, db.rows))
  BY <1>1 DEF IInv, ConnInv
<1> HIDE DEF r
<1>3. /\ db' = [rows |-> db'.rows, index |-> db'.index, batches |-> db'.batches]
      /\ db'.rows = db.rows \cup {r}
      /\ db'.index = [t \in Tables |-> db'.index[t]]
      /\ \A t \in Tables :
            db'.index[t] = IF t = r.type THEN Upsert(t, db.index[t], Entry(r))
                                         ELSE db.index[t]
  BY <1>1, WithRecordShape DEF IInv
<1>4. /\ conn' = [o \in Connections |-> conn'[o]]
      /\ \A o \in Connections : conn'[o] = conn[o] \/ conn'[o] = Idle
  BY <1>1, ReturnsShape DEF IInv
<1>5. /\ txn' = [o \in Connections |-> txn'[o]]
      /\ seen' = [o \in Connections |-> seen'[o]]
      /\ \A o \in Connections : txn'[o] = txn[o] \/ txn'[o] = "none"
      /\ \A o \in Connections : seen'[o] = seen[o] \/ seen'[o].rows = {}
  BY <1>1, EndsShape DEF IInv
<1>6. Shape'
  BY <1>3, <1>4, <1>5, ShapeKept
<1>7. RowsInv' /\ \A s \in db'.rows : Typed(s)
  BY <1>1, <1>2, <1>3, TableGrows
<1>8. TypeOK'
  <2>1. ASSUME edits = 0, NEW t \in Tables, NEW e \in db'.index[t]
        PROVE  e.idx \in Nat /\ e.target \in Targets
    <3>1. \A x \in db.index[t] : x.idx \in Nat /\ x.target \in Targets
      BY <2>1 DEF IInv, TypeOK
    <3>2. CASE t = r.type
      <4>1. r.target \in Targets
        BY <1>2, <2>1, <3>2 DEF Sound, Points
      <4>2. db'.index[t] = Upsert(t, db.index[t], Entry(r))
        BY <1>3, <3>2
      <4> QED BY <1>2, <2>1, <3>1, <4>1, <4>2, UpsertTyped
    <3>3. CASE t # r.type
      BY <1>3, <2>1, <3>1, <3>3
    <3> QED BY <3>2, <3>3
  <2>2. \A o \in Connections :
            /\ conn'[o].at \in {"idle", "insert", "seal"}
            /\ txn'[o] \in {"none", "begun", "reads", "writes"}
    BY <1>4, <1>5, IdleTyped DEF IInv, TypeOK
  <2>3. upgraded' \in BOOLEAN /\ older' \in Nat /\ locked' \in BOOLEAN /\ edits' \in Nat
    BY <1>1 DEF IInv, TypeOK
  <2> QED BY <1>1, <1>7, <2>1, <2>2, <2>3 DEF TypeOK, Typed
<1>9. ConnInv'
  BY <1>1, <1>3, <1>4, <1>5, IdleTyped, ConnKept DEF IInv
<1> QED BY <1>6, <1>7, <1>8, <1>9 DEF IInv

\* The connections end or fail their work while the table stands.
LEMMA QuietKeeps ==
    ASSUME IInv, NEW c \in Connections, db' = db, edits' = edits, Returns(c),
           upgraded' = upgraded, older' = older, locked' = locked,
           txn' = [o \in Connections |-> txn'[o]],
           seen' = [o \in Connections |-> seen'[o]],
           \A o \in Connections : txn'[o] \in {"none", "begun", "reads", "writes"},
           \A o \in Connections :
                seen'[o] = seen[o] \/ seen'[o] = db \/ seen'[o].rows = {}
    PROVE  IInv'
<1>1. /\ conn' = [o \in Connections |-> conn'[o]]
      /\ \A o \in Connections : conn'[o] = conn[o] \/ conn'[o] = Idle
  BY ReturnsShape DEF IInv
<1>2. \A o \in Connections : conn'[o].at \in {"idle", "insert", "seal"}
  BY <1>1, IdleTyped DEF IInv, TypeOK
<1>3. upgraded' \in BOOLEAN /\ older' \in Nat /\ locked' \in BOOLEAN
  BY DEF IInv, TypeOK
<1>4. Shape' /\ TypeOK' /\ RowsInv'
  BY <1>1, <1>2, <1>3, TableStands
<1>5. ConnInv'
  BY <1>1, IdleTyped, ConnKept DEF IInv
<1> QED BY <1>4, <1>5 DEF IInv

LEMMA InsertConflictKeeps ==
    ASSUME IInv, NEW c \in Connections, InsertConflict(c)
    PROVE  IInv'
<1>1. /\ Returns(c) /\ db' = db /\ edits' = edits
      /\ upgraded' = upgraded /\ older' = older /\ locked' = locked
      /\ txn' = [txn EXCEPT ![c] = "writes"]
      /\ seen' = [seen EXCEPT ![c] = Empty]
  BY DEF InsertConflict, Inserting
<1>2. /\ txn' = [o \in Connections |-> txn'[o]]
      /\ seen' = [o \in Connections |-> seen'[o]]
      /\ \A o \in Connections : txn'[o] = txn[o] \/ txn'[o] = "writes"
      /\ \A o \in Connections : seen'[o] = seen[o] \/ seen'[o].rows = {}
  BY <1>1 DEF IInv, Shape, Empty
<1>3. \A o \in Connections : txn'[o] \in {"none", "begun", "reads", "writes"}
  BY <1>2 DEF IInv, TypeOK
<1> QED BY <1>1, <1>2, <1>3, QuietKeeps

LEMMA LockedOutKeeps ==
    ASSUME IInv, NEW c \in Connections, LockedOut(c), Returns(c),
           edits' = edits, upgraded' = upgraded, older' = older, locked' = locked
    PROVE  IInv'
<1>1. /\ txn' = [o \in Connections |-> txn'[o]]
      /\ \A o \in Connections : txn'[o] = txn[o] \/ txn'[o] = "begun"
      /\ db' = db /\ seen' = seen
  BY LockedOutShape DEF IInv
<1>2. \A o \in Connections : txn'[o] \in {"none", "begun", "reads", "writes"}
  BY <1>1 DEF IInv, TypeOK
<1>3. seen' = [o \in Connections |-> seen'[o]]
  BY <1>1 DEF IInv, Shape
<1> QED BY <1>1, <1>2, <1>3, QuietKeeps

LEMMA DieKeeps ==
    ASSUME IInv, NEW c \in Connections, Die(c)
    PROVE  IInv'
<1>1. /\ Returns(c) /\ Ends(c) /\ db' = db /\ edits' = edits
      /\ upgraded' = upgraded /\ older' = older /\ locked' = locked
  BY DEF Die
<1>2. /\ txn' = [o \in Connections |-> txn'[o]]
      /\ seen' = [o \in Connections |-> seen'[o]]
      /\ \A o \in Connections : txn'[o] = txn[o] \/ txn'[o] = "none"
      /\ \A o \in Connections : seen'[o] = seen[o] \/ seen'[o].rows = {}
  BY <1>1, EndsShape DEF IInv
<1>3. \A o \in Connections : txn'[o] \in {"none", "begun", "reads", "writes"}
  BY <1>2 DEF IInv, TypeOK
<1> QED BY <1>1, <1>2, <1>3, QuietKeeps

LEMMA LegacyAppendKeeps ==
    ASSUME IInv, NEW type \in Types, NEW target \in Targets \cup {NoTarget},
           Points(type, target), LegacyAppend(type, target)
    PROVE  IInv'
<1>1. PICK h \in Heads(db.rows) :
        db' = [db EXCEPT !.rows = @ \cup {Record(h[1], h[2], type, target)}]
  BY DEF LegacyAppend
<1> DEFINE r == Record(h[1], h[2], type, target)
<1>2. UNCHANGED <<upgraded, older, locked, conn, txn, seen, edits>>
  BY DEF LegacyAppend
<1>3. Typed(r) /\ Sound(r) /\ Follows(r, db.rows) /\ r.idx = h[1]
  BY HeadFollows, RecordFields DEF Typed, Sound
<1>4. \A s \in db.rows : s.idx # h[1]
  BY HeadIsFree DEF IInv, TypeOK
<1> HIDE DEF r
<1>5. /\ db' = [rows |-> db.rows \cup {r}, index |-> db.index,
                batches |-> db.batches]
      /\ db'.rows = db.rows \cup {r} /\ db'.index = db.index
  BY <1>1 DEF IInv, Shape, r
<1>6. Shape'
  BY <1>2, <1>5 DEF IInv, Shape
<1>7. RowsInv' /\ \A s \in db'.rows : Typed(s)
  BY <1>2, <1>3, <1>4, <1>5, TableGrows
<1>8. TypeOK'
  BY <1>2, <1>5, <1>7 DEF IInv, TypeOK, Typed
<1>9. ConnInv'
  BY <1>2, <1>5, ConnKept DEF IInv
<1> QED BY <1>6, <1>7, <1>8, <1>9 DEF IInv

\* Another row of an index table: what ReadIndex writes.
LEMMA IndexShape ==
    ASSUME Shape, NEW t \in Tables, NEW found
    PROVE  LET d == [db EXCEPT !.index[t] = found] IN
           /\ d = [rows |-> d.rows, index |-> d.index, batches |-> d.batches]
           /\ d.rows = db.rows
           /\ d.index = [u \in Tables |-> d.index[u]]
           /\ \A u \in Tables : d.index[u] = IF u = t THEN found ELSE db.index[u]
<1> DEFINE new == [db.index EXCEPT ![t] = found]
<1>1. [db EXCEPT !.index[t] = found] = [db EXCEPT !.index = new]
  BY DEF Shape
<1>2. new = [u \in Tables |-> IF u = t THEN found ELSE db.index[u]]
  BY DEF Shape
<1> HIDE DEF new
<1>3. [db EXCEPT !.index = new] =
        [rows |-> db.rows, index |-> new, batches |-> db.batches]
  BY DEF Shape
<1> QED BY <1>1, <1>2, <1>3

LEMMA ReadIndexKeeps ==
    ASSUME IInv, NEW c \in Connections, NEW t \in Tables, ReadIndex(c, t)
    PROVE  IInv'
<1> DEFINE found == Backfill(View(c).rows, t)
<1>1. UNCHANGED <<upgraded, older, locked, conn, edits>>
  BY DEF ReadIndex
<1>2. \/ Reads(c) /\ db' = db
      \/ Commits(c, db)
      \/ Commits(c, [db EXCEPT !.index[t] = found])
      \/ LockedOut(c)
  BY DEF ReadIndex
<1>3. edits = 0 => \A e \in found : e.idx \in Nat /\ e.target \in Targets
  <2>1. ASSUME edits = 0, NEW r \in View(c).rows PROVE Typed(r) /\ Sound(r)
    <3>1. r \in db.rows
      BY <2>1 DEF View, IInv, ConnInv
    <3> QED BY <2>1, <3>1 DEF IInv, TypeOK, RowsInv, Typed
  <2> QED BY <2>1, BackfillTyped
<1> HIDE DEF found
<1>4. /\ txn' = [o \in Connections |-> txn'[o]]
      /\ seen' = [o \in Connections |-> seen'[o]]
      /\ \A o \in Connections :
            txn'[o] = txn[o] \/ txn'[o] \in {"none", "begun", "reads"}
      /\ \A o \in Connections :
            seen'[o] = seen[o] \/ seen'[o] = db \/ seen'[o].rows = {}
  <2>1. CASE Reads(c)
    BY <2>1, ReadsShape DEF IInv
  <2>2. CASE Ends(c)
    BY <2>2, EndsShape DEF IInv
  <2>3. CASE LockedOut(c)
    BY <2>3, LockedOutShape DEF IInv, Shape
  <2> QED BY <1>2, <2>1, <2>2, <2>3 DEF Commits
<1>5. /\ db' = [rows |-> db'.rows, index |-> db'.index, batches |-> db'.batches]
      /\ db'.rows = db.rows
      /\ db'.index = [u \in Tables |-> db'.index[u]]
      /\ \A u \in Tables : db'.index[u] = db.index[u] \/ db'.index[u] = found
  <2>1. CASE db' = db
    BY <2>1 DEF IInv, Shape
  <2>2. CASE db' = [db EXCEPT !.index[t] = found]
    BY <2>2, IndexShape DEF IInv
  <2> QED BY <1>2, <2>1, <2>2 DEF Commits, LockedOut
<1>6. conn' = [o \in Connections |-> conn'[o]]
  BY <1>1 DEF IInv, Shape
<1>7. Shape'
  BY <1>4, <1>5, <1>6, ShapeKept
<1>8. RowsInv'
  BY <1>1, <1>5 DEF IInv, RowsInv, Linked, Sound, Authentic
<1>9. TypeOK'
  <2>1. \A o \in Connections :
            /\ conn'[o].at \in {"idle", "insert", "seal"}
            /\ txn'[o] \in {"none", "begun", "reads", "writes"}
    BY <1>1, <1>4 DEF IInv, TypeOK
  <2>2. edits = 0 => \A u \in Tables : \A e \in db'.index[u] :
            e.idx \in Nat /\ e.target \in Targets
    BY <1>3, <1>5 DEF IInv, TypeOK
  <2>3. \A r \in db'.rows : Typed(r)
    BY <1>5 DEF IInv, TypeOK, Typed
  <2>4. upgraded' \in BOOLEAN /\ older' \in Nat /\ locked' \in BOOLEAN /\ edits' \in Nat
    BY <1>1 DEF IInv, TypeOK
  <2> QED BY <1>1, <2>1, <2>2, <2>3, <2>4 DEF TypeOK, Typed
<1>10. ConnInv'
  BY <1>1, <1>4, <1>5, ConnKept DEF IInv
<1> QED BY <1>7, <1>8, <1>9, <1>10 DEF IInv

LEMMA SealReadKeeps ==
    ASSUME IInv, NEW c \in Connections, NEW size, SealRead(c, size)
    PROVE  IInv'
<1> DEFINE first == NextFirst(View(c).batches)
           run == Batched(View(c).rows, first, first + size - 1)
           leaves == Leaves(run)
<1>0. PICK last : conn' = [conn EXCEPT ![c] = [Idle EXCEPT !.at = "seal",
                    !.first = first, !.last = last, !.leaves = leaves]]
  BY DEF SealRead
<1> DEFINE frame == [Idle EXCEPT !.at = "seal", !.first = first,
                                 !.last = last, !.leaves = leaves]
<1>1. /\ UNCHANGED <<db, upgraded, older, locked, edits>> /\ Reads(c)
      /\ conn' = [conn EXCEPT ![c] = frame]
  BY <1>0 DEF SealRead
<1>2. frame.at = "seal" /\ frame.rec = Idle.rec
  BY DEF Idle
<1> HIDE DEF frame
<1>3. /\ conn' = [o \in Connections |-> conn'[o]]
      /\ \A o \in Connections : conn'[o] = conn[o] \/ conn'[o] = frame
  BY <1>1 DEF IInv, Shape
<1>4. /\ txn' = [o \in Connections |-> txn'[o]]
      /\ seen' = [o \in Connections |-> seen'[o]]
      /\ \A o \in Connections : txn'[o] = txn[o] \/ txn'[o] = "reads"
      /\ \A o \in Connections : seen'[o] = seen[o] \/ seen'[o] = db
  BY <1>1, ReadsShape DEF IInv
<1>5. Typed(frame.rec) /\ frame.at # "insert"
  BY <1>2, IdleTyped
<1>6. Shape' /\ TypeOK' /\ RowsInv'
  <2>1. \A o \in Connections :
            /\ conn'[o].at \in {"idle", "insert", "seal"}
            /\ txn'[o] \in {"none", "begun", "reads", "writes"}
    BY <1>2, <1>3, <1>4 DEF IInv, TypeOK
  <2>2. upgraded' \in BOOLEAN /\ older' \in Nat /\ locked' \in BOOLEAN
    BY <1>1 DEF IInv, TypeOK
  <2> QED BY <1>1, <1>3, <1>4, <2>1, <2>2, TableStands
<1>7. ConnInv'
  BY <1>1, <1>3, <1>4, <1>5, ConnKept DEF IInv
<1> QED BY <1>6, <1>7 DEF IInv

LEMMA SealInsertKeeps ==
    ASSUME IInv, NEW c \in Connections, SealInsert(c)
    PROVE  IInv'
<1> DEFINE batch == [first |-> conn[c].first,
                     last |-> conn[c].last,
                     root |-> MerkleRoot(conn[c].leaves)]
<1>1. UNCHANGED <<upgraded, older, locked, edits>> /\ Returns(c)
  BY DEF SealInsert
<1>2. CASE LockedOut(c)
  BY <1>1, <1>2, LockedOutKeeps
<1>3. CASE Commits(c, [db EXCEPT !.batches = Append(@, batch)])
  <2>1. /\ conn' = [o \in Connections |-> conn'[o]]
        /\ \A o \in Connections : conn'[o] = conn[o] \/ conn'[o] = Idle
    BY <1>1, ReturnsShape DEF IInv
  <2>2. /\ txn' = [o \in Connections |-> txn'[o]]
        /\ seen' = [o \in Connections |-> seen'[o]]
        /\ \A o \in Connections : txn'[o] = txn[o] \/ txn'[o] = "none"
        /\ \A o \in Connections : seen'[o] = seen[o] \/ seen'[o].rows = {}
    BY <1>3, EndsShape DEF IInv, Commits
  <2>3. /\ db' = [rows |-> db.rows, index |-> db.index,
                  batches |-> Append(db.batches, batch)]
    BY <1>3 DEF IInv, Shape, Commits
  <2>4. /\ db' = [rows |-> db'.rows, index |-> db'.index, batches |-> db'.batches]
        /\ db'.rows = db.rows /\ db'.index = db.index
    BY <2>3
  <2>5. Shape'
    BY <2>1, <2>2, <2>4 DEF IInv, Shape
  <2>6. TypeOK'
    <3>1. \A o \in Connections :
            /\ conn'[o].at \in {"idle", "insert", "seal"}
            /\ txn'[o] \in {"none", "begun", "reads", "writes"}
      BY <2>1, <2>2, IdleTyped DEF IInv, TypeOK
    <3> QED BY <1>1, <2>4, <3>1 DEF IInv, TypeOK
  <2>7. RowsInv'
    BY <1>1, <2>4 DEF IInv, RowsInv, Linked, Sound, Authentic
  <2>8. ConnInv'
    BY <1>1, <2>1, <2>2, <2>4, IdleTyped, ConnKept DEF IInv
  <2> QED BY <2>5, <2>6, <2>7, <2>8 DEF IInv
<1> QED BY <1>2, <1>3 DEF SealInsert

LEMMA FlagKeeps ==
    ASSUME IInv, UNCHANGED <<db, conn, txn, seen, edits>>,
           upgraded' \in BOOLEAN, older' \in Nat, locked' \in BOOLEAN
    PROVE  IInv'
<1>1. Shape' /\ TypeOK' /\ RowsInv'
  <2>1. \A c \in Connections :
            /\ conn'[c].at \in {"idle", "insert", "seal"}
            /\ txn'[c] \in {"none", "begun", "reads", "writes"}
    BY DEF IInv, TypeOK
  <2>2. /\ conn' = [c \in Connections |-> conn'[c]]
        /\ txn' = [c \in Connections |-> txn'[c]]
        /\ seen' = [c \in Connections |-> seen'[c]]
    BY DEF IInv, Shape
  <2> QED BY <2>1, <2>2, TableStands
<1>2. ConnInv'
  BY ConnKept DEF IInv
<1> QED BY <1>1, <1>2 DEF IInv

LEMMA EditRowKeeps ==
    ASSUME IInv, NEW r \in db.rows, EditRow(r)
    PROVE  IInv'
<1>1. UNCHANGED <<upgraded, older, locked, conn, txn, seen>> /\ edits' = edits + 1
  BY DEF EditRow
<1>2. edits' \in Nat /\ edits' # 0
  BY <1>1 DEF IInv, TypeOK
<1>3. PICK new : /\ db' = [db EXCEPT !.rows = new]
                 /\ \A s \in new : Typed(s)
  <2>1. Typed(r) /\ \A s \in db.rows : Typed(s)
    BY DEF IInv, TypeOK, Typed
  <2>2. CASE db' = [db EXCEPT !.rows = @ \ {r}]
    <3>1. db' = [db EXCEPT !.rows = db.rows \ {r}]
      BY <2>2
    <3> QED BY <2>1, <3>1
  <2>3. ASSUME NEW type \in Types \ {r.type}, NEW rehash \in BOOLEAN,
               NEW e, e = Record(r.idx, r.prior, type, r.target),
               db' = [db EXCEPT !.rows = (@ \ {r}) \cup
                {[e EXCEPT !.sig = r.sig, !.hash = IF rehash THEN @ ELSE r.hash]}]
        PROVE  \E new : /\ db' = [db EXCEPT !.rows = new]
                        /\ \A s \in new : Typed(s)
    <3> DEFINE n == [e EXCEPT !.sig = r.sig, !.hash = IF rehash THEN @ ELSE r.hash]
    <3>1. Typed(n)
      <4>1. n.idx = e.idx /\ n.type = e.type /\ n.target = e.target
        BY <2>3 DEF Record
      <4> QED BY <2>1, <2>3, <4>1, RecordFields DEF Typed
    <3> HIDE DEF n
    <3>2. \A s \in (db.rows \ {r}) \cup {n} : Typed(s)
      BY <2>1, <3>1
    <3>3. db' = [db EXCEPT !.rows = (db.rows \ {r}) \cup {n}]
      BY <2>3 DEF n
    <3> QED BY <3>2, <3>3
  <2> QED BY <2>2, <2>3 DEF EditRow
<1>4. /\ db' = [rows |-> new, index |-> db.index, batches |-> db.batches]
      /\ db'.rows = new /\ db'.index = db.index
  BY <1>3 DEF IInv, Shape
<1>5. Shape'
  BY <1>1, <1>4 DEF IInv, Shape
<1>6. TypeOK'
  BY <1>1, <1>2, <1>3, <1>4 DEF IInv, TypeOK, Typed
<1>7. RowsInv'
  BY <1>2 DEF RowsInv
<1>8. ConnInv'
  BY <1>1, <1>2 DEF IInv, ConnInv, Typed
<1> QED BY <1>5, <1>6, <1>7, <1>8 DEF IInv

-----------------------------------------------------------------------------
(* Theorems.                                                                *)

LEMMA InitHolds == Init => IInv
<1> SUFFICES ASSUME Init PROVE IInv
  OBVIOUS
<1>1. db.rows = {} /\ db.batches = <<>> /\ \A t \in Tables : db.index[t] = {}
  BY DEF Init, Empty
<1>2. Shape
  BY DEF Init, Shape, Empty
<1>3. \A c \in Connections : conn[c] = Idle /\ txn[c] = "none" /\ seen[c].rows = {}
  BY DEF Init, Empty
<1>4. TypeOK
  BY <1>1, <1>3, IdleTyped DEF Init, TypeOK
<1>5. ConnInv
  BY <1>3, IdleTyped DEF ConnInv
<1>6. RowsInv
  BY <1>1 DEF RowsInv, Linked
<1> QED BY <1>2, <1>4, <1>5, <1>6 DEF IInv

LEMMA NextKeeps == IInv /\ [Next]_vars => IInv'
<1> SUFFICES ASSUME IInv, [Next]_vars PROVE IInv'
  OBVIOUS
<1>1. ASSUME NEW type \in Types, NEW target \in Targets \cup {NoTarget},
             Points(type, target), LegacyAppend(type, target)
      PROVE  IInv'
  BY <1>1, LegacyAppendKeeps
<1>2. ASSUME NEW type \in Types, NEW target \in Targets \cup {NoTarget},
             Points(type, target), NEW c \in Connections, Prepare(c, type, target)
      PROVE  IInv'
  BY <1>2, PrepareKeeps
<1>3. ASSUME NEW c \in Connections, Step(c) \/ Die(c) PROVE IInv'
  <2>1. CASE Insert(c)
    BY <2>1, InsertKeeps
  <2>2. CASE InsertConflict(c)
    BY <2>2, InsertConflictKeeps
  <2>3. CASE InsertLockedOut(c)
    BY <2>3, LockedOutKeeps DEF InsertLockedOut, Inserting
  <2>4. CASE SealInsert(c)
    BY <2>4, SealInsertKeeps
  <2>5. CASE Die(c)
    BY <2>5, DieKeeps
  <2> QED BY <1>3, <2>1, <2>2, <2>3, <2>4, <2>5 DEF Step
<1>4. ASSUME NEW c \in Connections, NEW t \in Tables, ReadIndex(c, t) PROVE IInv'
  BY <1>4, ReadIndexKeeps
<1>5. ASSUME NEW c \in Sealers, NEW size \in BatchSizes, SealRead(c, size)
      PROVE  IInv'
  <2>1. c \in Connections
    BY ConstantsAssumption
  <2> QED BY <1>5, <2>1, SealReadKeeps
<1>6. CASE Upgrade \/ Lockdown \/ Unlock
  <2>1. UNCHANGED <<db, conn, txn, seen, edits>>
    BY <1>6 DEF Upgrade, Lockdown, Unlock
  <2>2. upgraded' \in BOOLEAN /\ older' \in Nat /\ locked' \in BOOLEAN
    <3>1. CASE Upgrade
      <4>1. PICK h \in Heads(db.rows) : older' = h[1]
        BY <3>1 DEF Upgrade
      <4>2. h[1] \in 0..MaxIdx /\ MaxIdx \in Nat
        BY ConstantsAssumption DEF Heads
      <4> QED BY <3>1, <4>1, <4>2 DEF IInv, TypeOK, Upgrade
    <3>2. CASE Lockdown \/ Unlock
      BY <3>2 DEF IInv, TypeOK, Lockdown, Unlock
    <3> QED BY <1>6, <3>1, <3>2
  <2> QED BY <2>1, <2>2, FlagKeeps
<1>7. ASSUME NEW r \in db.rows, EditRow(r) PROVE IInv'
  BY <1>7, EditRowKeeps
<1>8. CASE UNCHANGED vars
  <2>1. UNCHANGED <<db, conn, txn, seen, edits>>
    BY <1>8 DEF vars
  <2>2. upgraded' \in BOOLEAN /\ older' \in Nat /\ locked' \in BOOLEAN
    BY <1>8 DEF IInv, TypeOK, vars
  <2> QED BY <2>1, <2>2, FlagKeeps
<1> QED BY <1>1, <1>2, <1>3, <1>4, <1>5, <1>6, <1>7, <1>8 DEF Next

LEMMA InvAlways == Spec => []IInv
<1>1. Init => IInv
  BY InitHolds
<1>2. IInv /\ [Next]_vars => IInv'
  BY NextKeeps
<1> QED BY <1>1, <1>2, PTL DEF Spec

\* The state has the values chain.py and SQLite can give it.
THEOREM TypeCorrect == Spec => []TypeOK
<1>1. IInv => TypeOK
  BY DEF IInv
<1> QED BY <1>1, InvAlways, PTL

\* verify() succeeds on every chain that any number of connections can build,
\* whatever fails or dies between their reads and their commits.
THEOREM AlwaysVerifies == Spec => []ChainVerifies
<1>1. IInv => ChainVerifies
  BY DEF IInv, RowsInv, ChainVerifies, Verify, Sound
<1> QED BY <1>1, InvAlways, PTL

\* The table grows, or it is edited.
LEMMA RowsKept ==
    ASSUME IInv, [Next]_vars
    PROVE  db.rows \subseteq db'.rows \/ edits' > edits
<1>1. Shape /\ edits \in Nat
  BY DEF IInv, TypeOK
<1>2. ASSUME NEW type, NEW target, LegacyAppend(type, target)
      PROVE  db.rows \subseteq db'.rows
  BY <1>1, <1>2 DEF LegacyAppend, Shape
<1>3. ASSUME NEW c \in Connections, Step(c) PROVE db.rows \subseteq db'.rows
  <2>1. CASE Insert(c)
    BY <1>1, <2>1, WithRecordShape DEF Insert, Commits
  <2>2. CASE SealInsert(c)
    BY <1>1, <2>2 DEF SealInsert, Commits, LockedOut, Shape
  <2> QED BY <1>3, <2>1, <2>2
          DEF Step, InsertConflict, InsertLockedOut, LockedOut
<1>4. ASSUME NEW c \in Connections, NEW t \in Tables, ReadIndex(c, t)
      PROVE  db.rows \subseteq db'.rows
  BY <1>1, <1>4, IndexShape, ZenonT(40) DEF ReadIndex, Commits, LockedOut
<1>5. ASSUME NEW r, EditRow(r) PROVE edits' > edits
  <2>1. edits' = edits + 1
    BY <1>5 DEF EditRow
  <2> QED BY <1>1, <2>1
<1>6. CASE UNCHANGED db
  BY <1>6
<1> QED BY <1>2, <1>3, <1>4, <1>5, <1>6
        DEF Next, vars, Prepare, Die, SealRead, Upgrade, Lockdown, Unlock

\* No step of the program changes or removes a record.
THEOREM OnlyAppends == Spec => AppendOnly
<1> DEFINE A == db.rows \subseteq db'.rows \/ edits' > edits
<1>1. IInv /\ [Next]_vars => [A]_vars
  BY RowsKept
<1> HIDE DEF A
<1>2. Spec => [][A]_vars
  BY <1>1, InvAlways, PTL DEF Spec
<1> QED BY <1>2 DEF AppendOnly, A

-----------------------------------------------------------------------------
(* Induction on the natural numbers, from the library's theorem that < is   *)
(* well-founded on them.  A set takes the place of a predicate.             *)

LEMMA LeastNumber ==
    ASSUME NEW T \in SUBSET Nat, T # {}
    PROVE  \E m \in T : \A k \in T : m <= k
<1>1. PICK R : R = OpToRel(<, Nat)
  OBVIOUS
<1>2. IsWellFoundedOn(R, Nat)
  BY <1>1, NatLessThanWellFounded
<1>3. \A x, y \in Nat : x < y => <<x, y>> \in R
  BY <1>1 DEF OpToRel
<1>4. PICK m \in T : \A k \in T : ~ (<<k, m>> \in R)
  BY <1>2, WFMin
<1>5. \A k \in T : ~(k < m)
  BY <1>3, <1>4
<1> QED BY <1>4, <1>5

LEMMA Induction ==
    ASSUME NEW T \in SUBSET Nat, 0 \in T, \A n \in T : n + 1 \in T
    PROVE  T = Nat
<1> SUFFICES ASSUME Nat \ T # {} PROVE FALSE
  OBVIOUS
<1>1. PICK m \in Nat \ T : \A k \in Nat \ T : m <= k
  BY LeastNumber
<1>2. m # 0 /\ m - 1 \in Nat
  BY <1>1
<1>3. m - 1 \in T
  BY <1>1, <1>2
<1> QED BY <1>1, <1>2, <1>3

LEMMA LayersStep ==
    ASSUME NEW leaves, Len(leaves) \in Nat
    PROVE  Layers(leaves) =
             [k \in 0..Len(leaves) |->
                IF k = 0 THEN leaves ELSE Up(Layers(leaves)[k - 1])]
<1> DEFINE Ok(f, n) == f = [k \in 0..n |-> IF k = 0 THEN leaves ELSE Up(f[k - 1])]
           T == {n \in Nat : \E f : Ok(f, n)}
<1>1. 0 \in T
  <2>1. PICK f : f = [k \in 0..0 |-> leaves]
    OBVIOUS
  <2>2. Ok(f, 0)
    BY <2>1
  <2> QED BY <2>2
<1>2. ASSUME NEW n \in T PROVE n + 1 \in T
  <2>1. PICK f : Ok(f, n)
    OBVIOUS
  <2>2. PICK g : g = [k \in 0..(n + 1) |-> IF k = n + 1 THEN Up(f[n]) ELSE f[k]]
    OBVIOUS
  <2>3. \A k \in 0..(n + 1) : g[k] = IF k = 0 THEN leaves ELSE Up(g[k - 1])
    <3>1. ASSUME NEW k \in 0..n PROVE g[k] = IF k = 0 THEN leaves ELSE Up(g[k - 1])
      <4>1. g[k] = f[k] /\ (k # 0 => g[k - 1] = f[k - 1])
        BY <2>2
      <4> QED BY <2>1, <4>1
    <3>2. g[n + 1] = Up(g[n]) /\ n + 1 # 0 /\ (n + 1) - 1 = n
      BY <2>2
    <3>3. \A k \in 0..(n + 1) : k \in 0..n \/ k = n + 1
      OBVIOUS
    <3> QED BY <3>1, <3>2, <3>3
  <2>4. g = [k \in 0..(n + 1) |-> g[k]]
    BY <2>2
  <2>5. [k \in 0..(n + 1) |-> g[k]]
          = [k \in 0..(n + 1) |-> IF k = 0 THEN leaves ELSE Up(g[k - 1])]
    BY <2>3
  <2>6. Ok(g, n + 1)
    BY <2>4, <2>5
  <2> HIDE DEF Ok
  <2> QED BY <2>6
<1>3. \E f : Ok(f, Len(leaves))
  <2>1. T = Nat
    <3> HIDE DEF T
    <3>1. T \in SUBSET Nat
      BY DEF T
    <3> QED BY <1>1, <1>2, <3>1, Induction
  <2> QED BY <2>1
<1> QED BY <1>3 DEF Layers

LEMMA PositionsStep ==
    ASSUME NEW target, NEW height \in Nat
    PROVE  Positions(target, height) =
             [k \in 0..height |->
                IF k = 0 THEN target ELSE Positions(target, height)[k - 1] \div 2]
<1> DEFINE Ok(f, n) == f = [k \in 0..n |-> IF k = 0 THEN target ELSE f[k - 1] \div 2]
           T == {n \in Nat : \E f : Ok(f, n)}
<1>1. 0 \in T
  <2>1. PICK f : f = [k \in 0..0 |-> target]
    OBVIOUS
  <2>2. Ok(f, 0)
    BY <2>1
  <2> QED BY <2>2
<1>2. ASSUME NEW n \in T PROVE n + 1 \in T
  <2>1. PICK f : Ok(f, n)
    OBVIOUS
  <2>2. PICK g : g = [k \in 0..(n + 1) |-> IF k = n + 1 THEN f[n] \div 2 ELSE f[k]]
    OBVIOUS
  <2>3. \A k \in 0..(n + 1) : g[k] = IF k = 0 THEN target ELSE g[k - 1] \div 2
    <3>1. ASSUME NEW k \in 0..n PROVE g[k] = IF k = 0 THEN target ELSE g[k - 1] \div 2
      <4>1. g[k] = f[k] /\ (k # 0 => g[k - 1] = f[k - 1])
        BY <2>2
      <4> QED BY <2>1, <4>1
    <3>2. g[n + 1] = g[n] \div 2 /\ n + 1 # 0 /\ (n + 1) - 1 = n
      BY <2>2
    <3>3. \A k \in 0..(n + 1) : k \in 0..n \/ k = n + 1
      OBVIOUS
    <3> QED BY <3>1, <3>2, <3>3
  <2>4. g = [k \in 0..(n + 1) |-> g[k]]
    BY <2>2
  <2>5. [k \in 0..(n + 1) |-> g[k]]
          = [k \in 0..(n + 1) |-> IF k = 0 THEN target ELSE g[k - 1] \div 2]
    BY <2>3
  <2>6. Ok(g, n + 1)
    BY <2>4, <2>5
  <2> HIDE DEF Ok
  <2> QED BY <2>6
<1>3. \E f : Ok(f, height)
  <2>1. T = Nat
    <3> HIDE DEF T
    <3>1. T \in SUBSET Nat
      BY DEF T
    <3> QED BY <1>1, <1>2, <3>1, Induction
  <2> QED BY <2>1
<1> QED BY <1>3 DEF Positions

\* What VerifyMerkleProof has hashed after k steps.
Climb(leaf, proof) ==
    LET h[k \in 0..Len(proof)] ==
            IF k = 0 THEN leaf
            ELSE IF proof[k][1] = "L" THEN <<proof[k][2], h[k - 1]>>
                                      ELSE <<h[k - 1], proof[k][2]>>
    IN  h

LEMMA ClimbStep ==
    ASSUME NEW leaf, NEW proof, Len(proof) \in Nat
    PROVE  /\ Climb(leaf, proof)[0] = leaf
           /\ \A k \in 1..Len(proof) :
                Climb(leaf, proof)[k] =
                  IF proof[k][1] = "L"
                    THEN <<proof[k][2], Climb(leaf, proof)[k - 1]>>
                    ELSE <<Climb(leaf, proof)[k - 1], proof[k][2]>>
<1> DEFINE Fold(h, k) == IF proof[k][1] = "L" THEN <<proof[k][2], h>>
                                              ELSE <<h, proof[k][2]>>
           Ok(f, n) == f = [k \in 0..n |-> IF k = 0 THEN leaf ELSE Fold(f[k - 1], k)]
           T == {n \in Nat : \E f : Ok(f, n)}
<1> HIDE DEF Fold
<1>1. 0 \in T
  <2>1. PICK f : f = [k \in 0..0 |-> leaf]
    OBVIOUS
  <2>2. Ok(f, 0)
    BY <2>1
  <2> QED BY <2>2
<1>2. ASSUME NEW n \in T PROVE n + 1 \in T
  <2>1. PICK f : Ok(f, n)
    OBVIOUS
  <2>2. PICK g : g = [k \in 0..(n + 1) |-> IF k = n + 1 THEN Fold(f[n], n + 1) ELSE f[k]]
    OBVIOUS
  <2>3. \A k \in 0..(n + 1) : g[k] = IF k = 0 THEN leaf ELSE Fold(g[k - 1], k)
    <3>1. ASSUME NEW k \in 0..n PROVE g[k] = IF k = 0 THEN leaf ELSE Fold(g[k - 1], k)
      <4>1. g[k] = f[k] /\ (k # 0 => g[k - 1] = f[k - 1])
        BY <2>2
      <4> QED BY <2>1, <4>1
    <3>2. g[n + 1] = Fold(g[n], n + 1) /\ n + 1 # 0 /\ (n + 1) - 1 = n
      BY <2>2
    <3>3. \A k \in 0..(n + 1) : k \in 0..n \/ k = n + 1
      OBVIOUS
    <3> QED BY <3>1, <3>2, <3>3
  <2>4. g = [k \in 0..(n + 1) |-> g[k]]
    BY <2>2
  <2>5. [k \in 0..(n + 1) |-> g[k]]
          = [k \in 0..(n + 1) |-> IF k = 0 THEN leaf ELSE Fold(g[k - 1], k)]
    BY <2>3
  <2>6. Ok(g, n + 1)
    BY <2>4, <2>5
  <2> HIDE DEF Ok
  <2> QED BY <2>6
<1>3. \E f : Ok(f, Len(proof))
  <2>1. T = Nat
    <3> HIDE DEF T
    <3>1. T \in SUBSET Nat
      BY DEF T
    <3> QED BY <1>1, <1>2, <3>1, Induction
  <2> QED BY <2>1
<1>4. Climb(leaf, proof) =
        [k \in 0..Len(proof) |->
           IF k = 0 THEN leaf ELSE Fold(Climb(leaf, proof)[k - 1], k)]
  BY <1>3 DEF Climb, Fold
<1>5. 0 \in 0..Len(proof) /\ \A k \in 1..Len(proof) : k \in 0..Len(proof) /\ k # 0
  OBVIOUS
<1>6. /\ Climb(leaf, proof)[0] = leaf
      /\ \A k \in 1..Len(proof) : Climb(leaf, proof)[k] = Fold(Climb(leaf, proof)[k - 1], k)
  BY <1>4, <1>5
<1> QED BY <1>6 DEF Fold

-----------------------------------------------------------------------------
(* Layers: sequences of any nodes.                                          *)

IsLayer(l, n) == n \in Nat /\ l = [i \in 1..n |-> l[i]]

LEMMA LayerLen ==
    ASSUME NEW l, NEW n, IsLayer(l, n)
    PROVE  Len(l) = n /\ DOMAIN l = 1..n /\ n \in Nat
<1> DEFINE S == {l[i] : i \in 1..n}
<1>1. l \in [1..n -> S] /\ n \in Nat
  BY DEF IsLayer
<1>2. l \in Seq(S) /\ DOMAIN l = 1..n
  <2> HIDE DEF S
  <2> QED BY <1>1
<1>3. DOMAIN l = 1..Len(l) /\ Len(l) \in Nat
  <2> HIDE DEF S
  <2> QED BY <1>2
<1> QED BY <1>1, <1>2, <1>3

LEMMA AppendLayer ==
    ASSUME NEW l, NEW n, IsLayer(l, n), NEW x
    PROVE  /\ IsLayer(Append(l, x), n + 1) /\ Append(l, x)[n + 1] = x
           /\ \A i \in 1..n : Append(l, x)[i] = l[i]
<1> DEFINE S == {l[i] : i \in 1..n} \cup {x}
<1>1. Len(l) = n /\ n \in Nat /\ n + 1 \in Nat
  BY LayerLen
<1>2. l \in Seq(S) /\ x \in S
  <2>1. l \in [1..n -> S]
    BY DEF IsLayer
  <2> HIDE DEF S
  <2>2. x \in S
    BY DEF S
  <2> QED BY <1>1, <2>1, <2>2
<1> HIDE DEF S
<1>3. /\ Append(l, x) \in Seq(S) /\ Len(Append(l, x)) = n + 1
      /\ Append(l, x)[n + 1] = x /\ \A i \in 1..n : Append(l, x)[i] = l[i]
  BY <1>1, <1>2
<1>4. Append(l, x) = [i \in 1..(n + 1) |-> Append(l, x)[i]]
  <2>1. PICK m : m = Append(l, x)
    OBVIOUS
  <2>2. m \in Seq(S) /\ Len(m) = n + 1
    BY <1>3, <2>1
  <2>3. m = [i \in 1..(n + 1) |-> m[i]]
    BY <2>2
  <2> QED BY <2>1, <2>3
<1> QED BY <1>1, <1>3, <1>4 DEF IsLayer

LEMMA EvenFacts ==
    ASSUME NEW l, NEW n, IsLayer(l, n), n > 1
    PROVE  /\ IsLayer(Even(l), 2 * ((n + 1) \div 2))
           /\ \A i \in 1..n : Even(l)[i] = l[i]
<1>1. Len(l) = n /\ n \in Nat
  BY LayerLen
<1>2. CASE n % 2 = 0
  <2>1. Even(l) = l
    BY <1>1, <1>2 DEF Even
  <2>2. 2 * ((n + 1) \div 2) = n
    BY <1>1, <1>2
  <2> QED BY <2>1, <2>2
<1>3. CASE n % 2 = 1
  <2>1. 2 * ((n + 1) \div 2) = n + 1
    BY <1>1, <1>3
  <2>2. Even(l) = Append(l, l[n])
    BY <1>1, <1>3 DEF Even
  <2>3. /\ IsLayer(Append(l, l[n]), n + 1)
        /\ \A i \in 1..n : Append(l, l[n])[i] = l[i]
    BY <1>1, AppendLayer
  <2> QED BY <2>1, <2>2, <2>3
<1>4. n % 2 = 0 \/ n % 2 = 1
  BY <1>1
<1> QED BY <1>2, <1>3, <1>4

LEMMA UpFacts ==
    ASSUME NEW l, NEW n, IsLayer(l, n)
    PROVE  /\ n > 1 => /\ IsLayer(Up(l), (n + 1) \div 2)
                       /\ \A i \in 1..((n + 1) \div 2) :
                            Up(l)[i] = <<Even(l)[2 * i - 1], Even(l)[2 * i]>>
           /\ n <= 1 => IsLayer(Up(l), 0)
<1>1. Len(l) = n /\ n \in Nat
  BY LayerLen
<1>2. ASSUME n > 1
      PROVE  /\ IsLayer(Up(l), (n + 1) \div 2)
             /\ \A i \in 1..((n + 1) \div 2) :
                  Up(l)[i] = <<Even(l)[2 * i - 1], Even(l)[2 * i]>>
  <2>1. Len(Even(l)) = 2 * ((n + 1) \div 2)
    BY <1>2, EvenFacts, LayerLen
  <2>2. Len(Even(l)) \div 2 = (n + 1) \div 2 /\ (n + 1) \div 2 \in Nat
    BY <1>1, <2>1
  <2>3. Up(l) = [i \in 1..((n + 1) \div 2) |-> <<Even(l)[2 * i - 1], Even(l)[2 * i]>>]
    BY <2>2 DEF Up
  <2> QED BY <2>2, <2>3 DEF IsLayer
<1>3. ASSUME n <= 1 PROVE IsLayer(Up(l), 0)
  <2>1. Even(l) = l
    BY <1>1, <1>3 DEF Even
  <2>2. Len(Even(l)) \div 2 = 0
    BY <1>1, <1>3, <2>1
  <2>3. Up(l) = [i \in 1..0 |-> <<Even(l)[2 * i - 1], Even(l)[2 * i]>>]
    BY <2>2 DEF Up
  <2> QED BY <2>3 DEF IsLayer
<1> QED BY <1>2, <1>3

-----------------------------------------------------------------------------
(* The layers above a non-empty list of leaves shrink to one node.          *)

LEMMA Shrinks ==
    ASSUME NEW leaves, NEW n, IsLayer(leaves, n), n >= 1, NEW k \in 0..n
    PROVE  \E m \in Nat : /\ IsLayer(Layers(leaves)[k], m)
                          /\ m <= 1 \/ m <= n - k
<1> DEFINE Fine(j) == \E m \in Nat : /\ IsLayer(Layers(leaves)[j], m)
                                     /\ m <= 1 \/ m <= n - j
           T == {j \in Nat : j <= n => Fine(j)}
<1>0. Len(leaves) = n /\ n \in Nat
  BY LayerLen
<1>1. /\ Layers(leaves)[0] = leaves
      /\ \A j \in 1..n : Layers(leaves)[j] = Up(Layers(leaves)[j - 1])
  BY <1>0, LayersStep
<1>2. 0 \in T
  <2>1. Fine(0)
    BY <1>0, <1>1
  <2> QED BY <2>1
<1>3. ASSUME NEW j \in T PROVE j + 1 \in T
  <2> SUFFICES ASSUME j + 1 <= n PROVE Fine(j + 1)
    OBVIOUS
  <2>1. PICK m \in Nat : IsLayer(Layers(leaves)[j], m) /\ (m <= 1 \/ m <= n - j)
    BY <1>0
  <2>2. Layers(leaves)[j + 1] = Up(Layers(leaves)[j])
    BY <1>0, <1>1
  <2>3. CASE m <= 1
    BY <2>1, <2>2, <2>3, UpFacts
  <2>4. CASE m > 1
    <3>1. IsLayer(Layers(leaves)[j + 1], (m + 1) \div 2)
      BY <2>1, <2>2, <2>4, UpFacts
    <3>2. (m + 1) \div 2 \in Nat /\ (m + 1) \div 2 <= n - (j + 1)
      BY <1>0, <2>1, <2>4
    <3> QED BY <3>1, <3>2
  <2> QED BY <2>1, <2>3, <2>4
<1>4. T = Nat
  <2> HIDE DEF T
  <2>1. T \in SUBSET Nat
    BY DEF T
  <2> QED BY <1>2, <1>3, <2>1, Induction
<1> QED BY <1>0, <1>4

LEMMA HeightFacts ==
    ASSUME NEW leaves, NEW n, IsLayer(leaves, n), n >= 1
    PROVE  /\ Height(leaves) \in 0..n
           /\ Len(Layers(leaves)[Height(leaves)]) <= 1
           /\ \A k \in 0..(Height(leaves) - 1) : Len(Layers(leaves)[k]) > 1
<1> DEFINE T == {k \in 0..n : Len(Layers(leaves)[k]) <= 1}
<1>0. Len(leaves) = n /\ n \in Nat
  BY LayerLen
<1>1. \A k \in 0..n : Len(Layers(leaves)[k]) \in Nat
  BY Shrinks, LayerLen
<1>2. n \in T
  <2>1. PICK m \in Nat : IsLayer(Layers(leaves)[n], m) /\ (m <= 1 \/ m <= n - n)
    BY <1>0, Shrinks
  <2> QED BY <1>0, <2>1, LayerLen
<1>3. PICK h \in T : \A k \in T : h <= k
  <2> HIDE DEF T
  <2>1. T \in SUBSET Nat /\ T # {}
    BY <1>0, <1>2 DEF T
  <2> QED BY <2>1, LeastNumber
<1>4. \A k \in 0..(h - 1) : Len(Layers(leaves)[k]) > 1
  <2> SUFFICES ASSUME NEW k \in 0..(h - 1) PROVE Len(Layers(leaves)[k]) > 1
    OBVIOUS
  <2>1. k \in 0..n /\ ~(h <= k)
    BY <1>0
  <2>2. k \notin T
    BY <1>3, <2>1
  <2> QED BY <1>1, <2>1, <2>2
<1> QED BY <1>0, <1>3, <1>4 DEF Height

\* On the way up no layer is empty, the last has one node, and the position of the
\* target stays inside.
LEMMA WayUp ==
    ASSUME NEW leaves, NEW n, IsLayer(leaves, n), n >= 1, NEW target \in 0..(n - 1),
           NEW k \in 0..Height(leaves)
    PROVE  /\ IsLayer(Layers(leaves)[k], Len(Layers(leaves)[k]))
           /\ Positions(target, Height(leaves))[k] \in 0..(Len(Layers(leaves)[k]) - 1)
<1> DEFINE H == Height(leaves)
           L(j) == Layers(leaves)[j]
           p(j) == Positions(target, H)[j]
           Fine(j) == IsLayer(L(j), Len(L(j))) /\ p(j) \in 0..(Len(L(j)) - 1)
           T == {j \in Nat : j <= H => Fine(j)}
<1>0. Len(leaves) = n /\ n \in Nat /\ H \in 0..n /\ H \in Nat
      /\ \A j \in 0..(H - 1) : Len(L(j)) > 1
  <2>1. Len(leaves) = n /\ n \in Nat
    BY LayerLen
  <2>2. H \in 0..n /\ \A j \in 0..(H - 1) : Len(L(j)) > 1
    BY HeightFacts
  <2> HIDE DEF H, L
  <2>3. H \in Nat
    BY <2>1, <2>2
  <2> QED BY <2>1, <2>2, <2>3
<1>1. L(0) = leaves /\ \A j \in 1..H : L(j) = Up(L(j - 1))
  BY <1>0, LayersStep
<1>2. p(0) = target /\ \A j \in 1..H : p(j) = p(j - 1) \div 2
  BY <1>0, PositionsStep
<1> HIDE DEF H, L, p
<1>3. 0 \in T
  BY <1>0, <1>1, <1>2
<1>4. ASSUME NEW j \in T PROVE j + 1 \in T
  <2> SUFFICES ASSUME j + 1 <= H PROVE Fine(j + 1)
    OBVIOUS
  <2>1. IsLayer(L(j), Len(L(j))) /\ p(j) \in 0..(Len(L(j)) - 1)
    BY <1>0
  <2>2. Len(L(j)) > 1 /\ Len(L(j)) \in Nat
    BY <1>0, <2>1, LayerLen
  <2>3. L(j + 1) = Up(L(j)) /\ p(j + 1) = p(j) \div 2
    BY <1>0, <1>1, <1>2
  <2>4. IsLayer(L(j + 1), (Len(L(j)) + 1) \div 2)
    BY <2>1, <2>2, <2>3, UpFacts
  <2>5. Len(L(j + 1)) = (Len(L(j)) + 1) \div 2
    BY <2>4, LayerLen
  <2>6. p(j) \div 2 \in 0..((Len(L(j)) + 1) \div 2 - 1)
    BY <2>1, <2>2
  <2> QED BY <2>3, <2>4, <2>5, <2>6
<1>5. T = Nat
  <2> HIDE DEF T
  <2>1. T \in SUBSET Nat
    BY DEF T
  <2> QED BY <1>3, <1>4, <2>1, Induction
<1>6. k \in Nat /\ k <= H
  BY <1>0 DEF H
<1>7. Fine(k)
  BY <1>5, <1>6
<1> QED BY <1>7 DEF H, L, p

\* A proof of the leaf at a position leads from it to the root.
THEOREM InclusionProven ==
    ASSUME NEW leaves, NEW n, IsLayer(leaves, n), n >= 1, NEW target \in 0..(n - 1)
    PROVE  VerifyMerkleProof(leaves[target + 1], MerkleProof(leaves, target),
                             MerkleRoot(leaves))
<1> DEFINE H == Height(leaves)
           L(j) == Layers(leaves)[j]
           p(j) == Positions(target, H)[j]
           proof == MerkleProof(leaves, target)
           h(j) == Climb(leaves[target + 1], proof)[j]
<1>0. Len(leaves) = n /\ n \in Nat /\ H \in 0..n /\ H \in Nat /\ Len(L(H)) <= 1
      /\ \A j \in 0..(H - 1) : Len(L(j)) > 1
  <2>1. Len(leaves) = n /\ n \in Nat
    BY LayerLen
  <2>2. H \in 0..n /\ Len(L(H)) <= 1 /\ \A j \in 0..(H - 1) : Len(L(j)) > 1
    BY HeightFacts
  <2> HIDE DEF H, L
  <2>3. H \in Nat
    BY <2>1, <2>2
  <2> QED BY <2>1, <2>2, <2>3
<1>1. L(0) = leaves /\ \A j \in 1..H : L(j) = Up(L(j - 1))
  BY <1>0, LayersStep
<1>2. p(0) = target /\ \A j \in 1..H : p(j) = p(j - 1) \div 2
  BY <1>0, PositionsStep
<1>3. \A j \in 0..H : IsLayer(L(j), Len(L(j))) /\ p(j) \in 0..(Len(L(j)) - 1)
  BY WayUp
<1>4. proof = [k \in 1..H |->
                 IF p(k - 1) % 2 = 0 THEN <<"R", Even(L(k - 1))[p(k - 1) + 2]>>
                                     ELSE <<"L", Even(L(k - 1))[p(k - 1)]>>]
  BY DEF MerkleProof
<1>5. Len(proof) = H
  <2>1. IsLayer(proof, H)
    BY <1>0, <1>4 DEF IsLayer
  <2> QED BY <2>1, LayerLen
<1>6. /\ h(0) = leaves[target + 1]
      /\ \A k \in 1..H : h(k) = IF proof[k][1] = "L" THEN <<proof[k][2], h(k - 1)>>
                                                      ELSE <<h(k - 1), proof[k][2]>>
  <2> HIDE DEF proof, H
  <2>1. Len(proof) \in Nat
    BY <1>0, <1>5
  <2> QED BY <1>5, <2>1, ClimbStep
<1> HIDE DEF H, L, p, proof, h
<1> DEFINE T == {j \in Nat : j <= H => h(j) = L(j)[p(j) + 1]}
<1>7. 0 \in T
  BY <1>1, <1>2, <1>6
<1>8. ASSUME NEW j \in T PROVE j + 1 \in T
  <2> SUFFICES ASSUME j + 1 <= H PROVE h(j + 1) = L(j + 1)[p(j + 1) + 1]
    OBVIOUS
  <2> DEFINE m == Len(L(j))
             e == Even(L(j))
  <2>1. /\ j \in 0..(H - 1) /\ j \in 0..H /\ j + 1 \in 1..H /\ (j + 1) - 1 = j
        /\ h(j) = L(j)[p(j) + 1]
    BY <1>0
  <2>2. IsLayer(L(j), m) /\ m > 1 /\ m \in Nat /\ p(j) \in 0..(m - 1)
    BY <1>0, <1>3, <2>1, LayerLen
  <2>3. L(j + 1) = Up(L(j)) /\ p(j + 1) = p(j) \div 2
    BY <1>1, <1>2, <2>1
  <2>4. p(j) \div 2 + 1 \in 1..((m + 1) \div 2)
    BY <2>2
  <2>5. L(j + 1)[p(j + 1) + 1]
          = <<e[2 * (p(j) \div 2 + 1) - 1], e[2 * (p(j) \div 2 + 1)]>>
    BY <2>2, <2>3, <2>4, UpFacts
  <2>6. h(j) = e[p(j) + 1]
    <3>1. p(j) + 1 \in 1..m
      BY <2>2
    <3> QED BY <2>1, <2>2, <3>1, EvenFacts
  <2> HIDE DEF m, e
  <2>7. CASE p(j) % 2 = 0
    <3>1. 2 * (p(j) \div 2 + 1) - 1 = p(j) + 1 /\ 2 * (p(j) \div 2 + 1) = p(j) + 2
      BY <2>2, <2>7
    <3>2. proof[j + 1] = <<"R", e[p(j) + 2]>>
      BY <1>4, <2>1, <2>7 DEF e
    <3>3. h(j + 1) = <<h(j), e[p(j) + 2]>>
      BY <1>6, <2>1, <3>2
    <3> QED BY <2>5, <2>6, <3>1, <3>3
  <2>8. CASE p(j) % 2 = 1
    <3>1. 2 * (p(j) \div 2 + 1) - 1 = p(j) /\ 2 * (p(j) \div 2 + 1) = p(j) + 1
      BY <2>2, <2>8
    <3>2. proof[j + 1] = <<"L", e[p(j)]>>
      BY <1>4, <2>1, <2>8 DEF e
    <3>3. h(j + 1) = <<e[p(j)], h(j)>>
      BY <1>6, <2>1, <3>2
    <3> QED BY <2>5, <2>6, <3>1, <3>3
  <2>9. p(j) % 2 = 0 \/ p(j) % 2 = 1
    BY <2>2
  <2> QED BY <2>7, <2>8, <2>9
<1>9. T = Nat
  <2> HIDE DEF T
  <2>1. T \in SUBSET Nat
    BY DEF T
  <2> QED BY <1>7, <1>8, <2>1, Induction
<1>10. h(H) = L(H)[1]
  <2>1. h(H) = L(H)[p(H) + 1]
    BY <1>0, <1>9
  <2>2. p(H) \in 0..(Len(L(H)) - 1) /\ Len(L(H)) \in Nat
    BY <1>0, <1>3, LayerLen
  <2>3. p(H) = 0
    BY <1>0, <2>2
  <2> QED BY <2>1, <2>3
<1> QED BY <1>5, <1>10 DEF VerifyMerkleProof, MerkleRoot, Climb, h, H, L, proof

-----------------------------------------------------------------------------
(* The steps, as far as the tables and the snapshots are concerned.         *)

\* A step gives a connection the snapshot it has, a new one or none.
LEMMA SeenStep ==
    ASSUME IInv, [Next]_vars, NEW o \in Connections
    PROVE  seen'[o] = seen[o] \/ seen'[o] = db \/ seen'[o] = Empty
<1>0. seen = [p \in Connections |-> seen[p]]
  BY DEF IInv, Shape
<1>1. ASSUME NEW c \in Connections, Reads(c) PROVE seen'[o] = seen[o] \/ seen'[o] = db
  BY <1>0, <1>1 DEF Reads
<1>2. ASSUME NEW c \in Connections, Ends(c) PROVE seen'[o] = seen[o] \/ seen'[o] = Empty
  BY <1>0, <1>2 DEF Ends
<1>3. ASSUME NEW c \in Connections, LockedOut(c) PROVE seen'[o] = seen[o]
  BY <1>3 DEF LockedOut
<1>4. ASSUME NEW c \in Connections, Step(c) \/ Die(c)
      PROVE  seen'[o] = seen[o] \/ seen'[o] = Empty
  <2>1. CASE InsertConflict(c)
    BY <1>0, <2>1 DEF InsertConflict
  <2>2. CASE Insert(c) \/ InsertLockedOut(c) \/ SealInsert(c) \/ Die(c)
    <3>1. Ends(c) \/ LockedOut(c)
      BY <2>2 DEF Insert, InsertLockedOut, SealInsert, Die, Commits
    <3> QED BY <1>2, <1>3, <3>1
  <2> QED BY <1>4, <2>1, <2>2 DEF Step
<1>5. ASSUME NEW c \in Connections, NEW t \in Tables, ReadIndex(c, t)
      PROVE  seen'[o] = seen[o] \/ seen'[o] = db \/ seen'[o] = Empty
  <2>1. Reads(c) \/ Ends(c) \/ LockedOut(c)
    BY <1>5 DEF ReadIndex, Commits
  <2> QED BY <1>1, <1>2, <1>3, <2>1
<1>6. ASSUME NEW c \in Connections, NEW type, NEW target, Prepare(c, type, target)
      PROVE  seen'[o] = seen[o] \/ seen'[o] = db
  BY <1>1, <1>6 DEF Prepare
<1>7. ASSUME NEW c \in Sealers, NEW size, SealRead(c, size)
      PROVE  seen'[o] = seen[o] \/ seen'[o] = db
  <2>1. c \in Connections
    BY ConstantsAssumption
  <2> QED BY <1>1, <1>7, <2>1 DEF SealRead
<1>8. CASE UNCHANGED seen
  BY <1>8
<1> QED BY <1>4, <1>5, <1>6, <1>7, <1>8
        DEF Next, vars, LegacyAppend, Upgrade, Lockdown, Unlock, EditRow

\* A step that is no edit leaves the records, or adds one that follows them.
LEMMA RowsStep ==
    ASSUME IInv, [Next]_vars, edits' = 0
    PROVE  /\ edits = 0
           /\ \/ db'.rows = db.rows
              \/ \E r : /\ db'.rows = db.rows \cup {r} /\ r.idx \in Nat
                        /\ Follows(r, db.rows)
                        /\ \A s \in db.rows : s.idx # r.idx
<1>1. Shape /\ edits \in Nat
  BY DEF IInv, TypeOK
<1>2. ASSUME NEW r \in db.rows, EditRow(r) PROVE FALSE
  <2>1. edits' = edits + 1
    BY <1>2 DEF EditRow
  <2> QED BY <1>1, <2>1
<1>3. edits = 0
  <2>1. edits' = edits
    BY <1>2 DEF Next, vars, LegacyAppend, Prepare, Step, Insert, InsertConflict,
                InsertLockedOut, Inserting, SealInsert, Die, ReadIndex, SealRead,
                Upgrade, Lockdown, Unlock
  <2> QED BY <2>1
<1>4. ASSUME NEW c \in Connections, Insert(c)
      PROVE  \E r : /\ db'.rows = db.rows \cup {r} /\ r.idx \in Nat
                    /\ Follows(r, db.rows)
                    /\ \A s \in db.rows : s.idx # r.idx
  <2> DEFINE r == conn[c].rec
  <2>1. conn[c].at = "insert" /\ db' = WithRecord(db, r) /\ \A s \in db.rows : s.idx # r.idx
    BY <1>4 DEF Insert, Inserting, Commits, Taken
  <2>2. r.idx \in Nat /\ Follows(r, db.rows)
    BY <1>3, <2>1 DEF IInv, ConnInv, Typed
  <2>3. db'.rows = db.rows \cup {r}
    BY <1>1, <2>1, WithRecordShape
  <2> QED BY <2>1, <2>2, <2>3
<1>5. ASSUME NEW type, NEW target, LegacyAppend(type, target)
      PROVE  \E r : /\ db'.rows = db.rows \cup {r} /\ r.idx \in Nat
                    /\ Follows(r, db.rows)
                    /\ \A s \in db.rows : s.idx # r.idx
  <2>1. PICK h \in Heads(db.rows) :
          db' = [db EXCEPT !.rows = @ \cup {Record(h[1], h[2], type, target)}]
    BY <1>5 DEF LegacyAppend
  <2> DEFINE r == Record(h[1], h[2], type, target)
  <2>2. db'.rows = db.rows \cup {r}
    <3> HIDE DEF r
    <3>1. db' = [db EXCEPT !.rows = @ \cup {r}]
      BY <2>1 DEF r
    <3> QED BY <1>1, <3>1 DEF Shape
  <2>3. r.idx = h[1] /\ h[1] \in Nat /\ Follows(r, db.rows)
    BY HeadFollows, RecordFields
  <2>4. \A s \in db.rows : s.idx # h[1]
    BY HeadIsFree DEF IInv, TypeOK
  <2> QED BY <2>2, <2>3, <2>4
<1>6. ASSUME NEW c \in Connections, NEW t \in Tables, ReadIndex(c, t)
      PROVE  db'.rows = db.rows
  BY <1>1, <1>6, IndexShape DEF ReadIndex, Commits, LockedOut
<1>7. ASSUME NEW c \in Connections, SealInsert(c) PROVE db'.rows = db.rows
  BY <1>1, <1>7 DEF SealInsert, Commits, LockedOut, Shape
<1>8. CASE UNCHANGED db
  BY <1>3, <1>8
<1> QED BY <1>2, <1>3, <1>4, <1>5, <1>6, <1>7, <1>8
        DEF Next, vars, Step, Prepare, InsertConflict, InsertLockedOut, LockedOut, Die,
            SealRead, Upgrade, Lockdown, Unlock

-----------------------------------------------------------------------------
(* The indices have no gap, so a free one is larger than all of them.       *)

Dense(rows) == \A r \in rows : \A i \in 0..r.idx : \E s \in rows : s.idx = i

DenseInv == edits = 0 => Dense(db.rows) /\ \A c \in Connections : Dense(seen[c].rows)

LEMMA DenseAdd ==
    ASSUME NEW rows, \A s \in rows : s.idx \in Nat, Dense(rows),
           NEW r, r.idx \in Nat, Follows(r, rows), \A s \in rows : s.idx # r.idx
    PROVE  Dense(rows \cup {r}) /\ \A s \in rows : s.idx < r.idx
<1>1. \A s \in rows : s.idx < r.idx
  <2> SUFFICES ASSUME NEW s \in rows, ~(s.idx < r.idx) PROVE FALSE
    OBVIOUS
  <2>1. r.idx \in 0..s.idx
    OBVIOUS
  <2> QED BY <2>1 DEF Dense
<1>2. ASSUME NEW i \in 0..r.idx PROVE \E s \in rows \cup {r} : s.idx = i
  <2>1. CASE i = r.idx
    BY <2>1
  <2>2. CASE i # r.idx
    <3>1. PICK s \in rows : s.idx + 1 = r.idx
      BY <2>2 DEF Follows
    <3>2. i \in 0..s.idx
      BY <2>2, <3>1
    <3> QED BY <3>2 DEF Dense
  <2> QED BY <2>1, <2>2
<1> QED BY <1>1, <1>2 DEF Dense

LEMMA DenseStep == IInv /\ DenseInv /\ [Next]_vars => DenseInv'
<1> SUFFICES ASSUME IInv, DenseInv, [Next]_vars, edits' = 0
             PROVE  Dense(db'.rows) /\ \A c \in Connections : Dense(seen'[c].rows)
  BY DEF DenseInv, Dense
<1>1. edits = 0
  BY RowsStep
<1>2. Dense(db.rows) /\ \A c \in Connections : Dense(seen[c].rows)
  BY <1>1 DEF DenseInv
<1>3. \A s \in db.rows : s.idx \in Nat
  BY DEF IInv, TypeOK
<1>4. Dense(db'.rows)
  <2>1. CASE db'.rows = db.rows
    BY <1>2, <2>1
  <2>2. CASE db'.rows # db.rows
    <3>1. PICK r : /\ db'.rows = db.rows \cup {r} /\ r.idx \in Nat
                   /\ Follows(r, db.rows) /\ \A s \in db.rows : s.idx # r.idx
      BY <2>2, RowsStep
    <3> QED BY <1>2, <1>3, <3>1, DenseAdd
  <2> QED BY <2>1, <2>2
<1>5. Dense(Empty.rows)
  BY DEF Dense, Empty
<1>6. ASSUME NEW c \in Connections PROVE Dense(seen'[c].rows)
  BY <1>2, <1>5, SeenStep
<1> QED BY <1>4, <1>6

-----------------------------------------------------------------------------
(* The index tables.  What they miss are records from before them, up to    *)
(* some height: an append adds its row whatever the table has, and the      *)
(* backfill, which an append may have preempted, adds all or nothing.  An   *)
(* append that replaces a blob's row puts the latest record there, because  *)
(* its index is larger than all before.                                     *)

Covered(d, old) ==
    \A t \in Tables : \E h \in 0..old : d.index[t] = Backfill(From(d.rows, h), t)

\* Before the upgrade there are no tables, and nobody is at work.
Early == /\ \A t \in Tables : db.index[t] = {}
         /\ \A c \in Connections : conn[c].at = "idle" /\ seen[c] = Empty

IndexInv ==
    edits = 0 => IF upgraded
        THEN Covered(db, older) /\ \A c \in Connections : Covered(seen[c], older)
        ELSE Early

LEMMA BackfillAdd ==
    ASSUME NEW rows, NEW r, \A s \in rows : s.idx \in Nat, r.idx \in Nat,
           \A s \in rows : s.idx < r.idx, NEW t \in Tables
    PROVE  Backfill(rows \cup {r}, t) =
             IF t = r.type THEN Upsert(t, Backfill(rows, t), Entry(r))
                           ELSE Backfill(rows, t)
<1> DEFINE Last(all, s) == t = "blob_index" => \A u \in all :
                              u.type = t /\ u.target = s.target => u.idx <= s.idx
<1>1. CASE t # r.type
  BY <1>1 DEF Backfill
<1>2. CASE t = r.type
  <2>1. ASSUME NEW e \in Backfill(rows \cup {r}, t)
        PROVE  e \in Upsert(t, Backfill(rows, t), Entry(r))
    <3>1. PICK s \in rows \cup {r} : e = Entry(s) /\ s.type = t /\ Last(rows \cup {r}, s)
      BY <2>1 DEF Backfill
    <3>2. CASE s = r
      BY <3>1, <3>2 DEF Upsert
    <3>3. CASE s # r
      <4>1. s \in rows /\ s.idx < r.idx /\ s.idx \in Nat
        BY <3>3
      <4>2. e \in Backfill(rows, t)
        BY <3>1, <4>1 DEF Backfill
      <4>3. t = "blob_index" => s.target # r.target
        <5>1. Last(rows \cup {r}, s)
          BY <3>1
        <5>2. r \in rows \cup {r} /\ ~(r.idx <= s.idx)
          BY <4>1
        <5> QED BY <1>2, <5>1, <5>2
      <4> QED BY <3>1, <4>1, <4>2, <4>3 DEF Upsert, Entry
    <3> QED BY <3>2, <3>3
  <2>2. ASSUME NEW e \in Upsert(t, Backfill(rows, t), Entry(r))
        PROVE  e \in Backfill(rows \cup {r}, t)
    <3>1. CASE e = Entry(r)
      <4>1. Last(rows \cup {r}, r)
        OBVIOUS
      <4> QED BY <1>2, <3>1, <4>1 DEF Backfill
    <3>2. CASE e # Entry(r)
      <4>1. e \in Backfill(rows, t) /\ (t = "blob_index" => e.target # r.target)
        BY <2>2, <3>2 DEF Upsert, Entry
      <4>2. PICK s \in rows : e = Entry(s) /\ s.type = t /\ Last(rows, s)
        BY <4>1 DEF Backfill
      <4>3. t = "blob_index" => s.target # r.target
        BY <4>1, <4>2 DEF Entry
      <4>4. Last(rows \cup {r}, s)
        BY <4>2, <4>3
      <4> QED BY <4>2, <4>4 DEF Backfill
    <3> QED BY <3>1, <3>2
  <2> QED BY <1>2, <2>1, <2>2
<1> QED BY <1>1, <1>2

LEMMA EmptyCovered == \A old \in Nat : Covered(Empty, old)
BY DEF Covered, Empty, Backfill, From

LEMMA IndexStep == IInv /\ DenseInv /\ IndexInv /\ [Next]_vars => IndexInv'
<1> SUFFICES ASSUME IInv, DenseInv, IndexInv, [Next]_vars, edits' = 0
             PROVE  IF upgraded' THEN Covered(db', older')
                                      /\ \A c \in Connections : Covered(seen'[c], older')
                    ELSE Early'
  BY DEF IndexInv, Covered, Backfill, Entry, From
<1>1. Shape /\ edits = 0 /\ older \in Nat
  BY RowsStep DEF IInv, TypeOK
<1>2. Dense(db.rows)
  BY <1>1 DEF DenseInv
<1>3. ASSUME NEW r \in db.rows, EditRow(r) PROVE FALSE
  <2>1. edits' = edits + 1
    BY <1>3 DEF EditRow
  <2> QED BY <1>1, <2>1
<1>4. CASE upgraded
  <2>1. Covered(db, older) /\ \A c \in Connections : Covered(seen[c], older)
    BY <1>1, <1>4 DEF IndexInv
  <2>2. upgraded' /\ older' = older
    BY <1>3, <1>4 DEF Next, vars, LegacyAppend, Prepare, Step, Insert, InsertConflict,
              InsertLockedOut, Inserting, SealInsert, Die, ReadIndex, SealRead,
              Upgrade, Lockdown, Unlock
  <2>3. ASSUME NEW c \in Connections, Insert(c) PROVE Covered(db', older)
    <3> DEFINE r == conn[c].rec
    <3>1. /\ conn[c].at = "insert" /\ db' = WithRecord(db, r)
          /\ \A s \in db.rows : s.idx # r.idx
      BY <2>3 DEF Insert, Inserting, Commits, Taken
    <3>2. r.idx \in Nat /\ Follows(r, db.rows) /\ \A s \in db.rows : s.idx \in Nat
      BY <1>1, <3>1 DEF IInv, ConnInv, Typed, TypeOK
    <3>3. \A s \in db.rows : s.idx < r.idx
      BY <1>2, <3>1, <3>2, DenseAdd
    <3>4. /\ db'.rows = db.rows \cup {r}
          /\ \A t \in Tables :
              db'.index[t] = IF t = r.type THEN Upsert(t, db.index[t], Entry(r))
                                           ELSE db.index[t]
      BY <1>1, <3>1, WithRecordShape
    <3> HIDE DEF r
    <3>5. ASSUME NEW t \in Tables
          PROVE  \E h \in 0..older : db'.index[t] = Backfill(From(db'.rows, h), t)
      <4>1. PICK g \in 0..older : db.index[t] = Backfill(From(db.rows, g), t)
        BY <2>1 DEF Covered
      \* The new record is above any height, or all there is.
      <4>2. PICK h \in 0..older : /\ From(db.rows, h) = From(db.rows, g)
                                  /\ From(db.rows \cup {r}, h) = From(db.rows, h) \cup {r}
        <5>1. PICK h \in 0..older : h <= r.idx /\ From(db.rows, h) = From(db.rows, g)
          <6>1. CASE g <= r.idx
            BY <6>1
          <6>2. CASE ~(g <= r.idx)
            <7>1. r.idx \in 0..older /\ r.idx <= r.idx
              BY <1>1, <3>2, <6>2
            <7>2. From(db.rows, r.idx) = {} /\ From(db.rows, g) = {}
              BY <1>1, <3>2, <3>3, <6>2 DEF From
            <7> QED BY <7>1, <7>2
          <6> QED BY <6>1, <6>2
        <5>2. From(db.rows \cup {r}, h) = From(db.rows, h) \cup {r}
          BY <5>1 DEF From
        <5> QED BY <5>1, <5>2
      <4>3. \A s \in From(db.rows, h) : s.idx \in Nat /\ s.idx < r.idx
        BY <3>2, <3>3 DEF From
      <4>4. PICK some : some = From(db.rows, h)
        OBVIOUS
      <4>5. Backfill(some \cup {r}, t) =
              IF t = r.type THEN Upsert(t, Backfill(some, t), Entry(r)) ELSE Backfill(some, t)
        <5>1. \A s \in some : s.idx \in Nat /\ s.idx < r.idx
          BY <4>3, <4>4
        <5> QED BY <3>2, <5>1, BackfillAdd
      <4> QED BY <3>4, <4>1, <4>2, <4>4, <4>5
    <3> QED BY <3>5 DEF Covered
  <2>4. ASSUME NEW c \in Connections, NEW t \in Tables, ReadIndex(c, t)
        PROVE  Covered(db', older)
    <3> DEFINE found == Backfill(View(c).rows, t)
    <3>1. db' = db \/ (View(c) = db /\ db' = [db EXCEPT !.index[t] = found])
      BY <2>4 DEF ReadIndex, Commits, LockedOut, CanWrite, View
    <3>2. CASE View(c) = db /\ db' = [db EXCEPT !.index[t] = found]
      <4> HIDE DEF found
      <4>1. /\ db'.rows = db.rows
            /\ \A u \in Tables : db'.index[u] = IF u = t THEN found ELSE db.index[u]
        <5> DEFINE d == [db EXCEPT !.index[t] = found]
        <5>1. /\ d.rows = db.rows
              /\ \A u \in Tables : d.index[u] = IF u = t THEN found ELSE db.index[u]
          BY <1>1, IndexShape
        <5>2. db' = d
          BY <3>2
        <5> HIDE DEF d
        <5> QED BY <5>1, <5>2
      <4>2. From(db.rows, 0) = db.rows
        BY <1>1 DEF From, IInv, TypeOK
      <4>3. found = Backfill(From(db'.rows, 0), t) /\ 0 \in 0..older
        BY <1>1, <3>2, <4>1, <4>2 DEF found
      <4> QED BY <2>1, <4>1, <4>3 DEF Covered
    <3> QED BY <2>1, <3>1, <3>2
  <2>5. ASSUME NEW c \in Connections, SealInsert(c)
        PROVE  db'.rows = db.rows /\ db'.index = db.index
    BY <1>1, <2>5 DEF SealInsert, Commits, LockedOut, Shape
  <2>6. ASSUME UNCHANGED db PROVE Covered(db', older)
    BY <2>1, <2>6
  <2>7. Covered(db', older)
    BY <1>1, <1>3, <1>4, <2>1, <2>3, <2>4, <2>5, <2>6
       DEF Covered, Next, vars, Step, Prepare, InsertConflict, InsertLockedOut, LockedOut,
           Die, SealRead, Upgrade, Lockdown, Unlock, LegacyAppend
  <2>8. ASSUME NEW c \in Connections PROVE Covered(seen'[c], older)
    BY <1>1, <2>1, SeenStep, EmptyCovered
  <2> QED BY <2>2, <2>7, <2>8
<1>5. CASE ~upgraded
  <2>1. Early
    BY <1>1, <1>5 DEF IndexInv
  <2>2. CASE Upgrade
    <3>1. PICK h \in Heads(db.rows) : older' = h[1]
      BY <2>2 DEF Upgrade
    <3>2. h[1] \in Nat /\ \A s \in db.rows : s.idx < h[1]
      <4>1. IsNext(db.rows, h[1], h[2]) /\ h[1] \in Nat
        BY HeadFollows DEF Heads
      <4>2. \A s \in db.rows : s.idx \in Nat
        BY DEF IInv, TypeOK
      <4>3. ASSUME NEW s \in db.rows PROVE s.idx < h[1]
        BY <4>1, <4>2 DEF IsNext
      <4> QED BY <4>1, <4>3
    <3>3. From(db.rows, h[1]) = {} /\ h[1] \in 0..older'
      BY <1>1, <3>1, <3>2 DEF From, IInv, TypeOK
    <3>4. Covered(db, older')
      BY <2>1, <3>3 DEF Covered, Early, Backfill
    <3>5. \A c \in Connections : Covered(seen[c], older')
      BY <2>1, <3>1, <3>2, EmptyCovered DEF Early
    <3> QED BY <2>2, <3>4, <3>5 DEF Upgrade
  <2>3. ASSUME NEW type, NEW target, LegacyAppend(type, target)
        PROVE  ~upgraded' /\ Early'
    <3>1. db'.index = db.index
      BY <1>1, <2>3 DEF LegacyAppend, Shape
    <3> QED BY <1>5, <2>1, <2>3, <3>1 DEF LegacyAppend, Early
  <2>4. CASE Lockdown \/ Unlock \/ UNCHANGED vars
    BY <1>5, <2>1, <2>4 DEF Lockdown, Unlock, vars, Early
  <2>5. ASSUME NEW c \in Connections, Die(c) PROVE ~upgraded' /\ Early'
    <3>1. /\ upgraded' = upgraded /\ db' = db
          /\ conn' = [conn EXCEPT ![c] = Idle] /\ seen' = [seen EXCEPT ![c] = Empty]
      BY <2>5 DEF Die, Returns, Ends
    <3>2. Idle.at = "idle"
      BY DEF Idle
    <3>3. \A d \in Connections : conn'[d].at = "idle" /\ seen'[d] = Empty
      BY <1>1, <2>1, <3>1, <3>2 DEF Early, Shape
    <3> QED BY <1>5, <2>1, <3>1, <3>3 DEF Early
  <2>6. Upgrade \/ Lockdown \/ Unlock \/ UNCHANGED vars
        \/ (\E type, target : LegacyAppend(type, target)) \/ (\E c \in Connections : Die(c))
    BY <1>3, <1>5, <2>1 DEF Early, Next, Step, Prepare, Insert, InsertConflict,
              InsertLockedOut, Inserting, SealInsert, ReadIndex, SealRead
  <2> QED BY <1>5, <2>2, <2>3, <2>4, <2>5, <2>6
<1> QED BY <1>4, <1>5

\* The index tables miss no record that was appended since they exist, whatever else
\* appends, reads, fails or dies at the same time.
THEOREM IndexTellsAll == Spec => []IndexTellsNew
<1>1. Init => DenseInv /\ IndexInv
  <2> SUFFICES ASSUME Init PROVE DenseInv /\ IndexInv
    OBVIOUS
  <2>1. db = Empty /\ older = 0 /\ \A c \in Connections : seen[c] = Empty
    BY DEF Init
  <2>2. Dense(Empty.rows)
    BY DEF Dense, Empty
  <2>3. Covered(Empty, older)
    BY <2>1, EmptyCovered
  <2>4. \A c \in Connections : conn[c].at = "idle"
    BY DEF Init, Idle
  <2>5. \A t \in Tables : Empty.index[t] = {}
    BY DEF Empty
  <2> QED BY <2>1, <2>2, <2>3, <2>4, <2>5 DEF DenseInv, IndexInv, Early
<1>2. IInv /\ DenseInv /\ IndexInv /\ [Next]_vars => DenseInv' /\ IndexInv'
  BY DenseStep, IndexStep
<1>3. IInv /\ IndexInv => IndexTellsNew
  <2> SUFFICES ASSUME IInv, IndexInv, edits = 0, upgraded, NEW c \in Connections, NEW t \in Tables
               PROVE  \E h \in 0..older : Answer(View(c), t) = Backfill(From(View(c).rows, h), t)
    BY DEF IndexTellsNew
  <2>1. Covered(View(c), older) /\ older \in Nat
    BY DEF IndexInv, View, IInv, TypeOK
  <2>2. CASE View(c).index[t] # {}
    BY <2>1, <2>2 DEF Covered, Answer
  <2>3. CASE View(c).index[t] = {}
    <3>1. \A s \in View(c).rows : s.idx \in Nat
      BY DEF View, IInv, TypeOK, ConnInv
    <3>2. From(View(c).rows, 0) = View(c).rows /\ 0 \in 0..older
      BY <2>1, <3>1 DEF From
    <3> QED BY <2>3, <3>2 DEF Answer
  <2> QED BY <2>2, <2>3
<1> QED BY <1>1, <1>2, <1>3, InvAlways, PTL DEF Spec

-----------------------------------------------------------------------------
(* The leaves of a batch: a run of records without a gap, in their order.   *)

IsInterval(B, a, b) ==
    /\ \A r \in B : r.idx \in a..b
    /\ \A i \in a..b : \E r \in B : r.idx = i
    /\ \A r, s \in B : r.idx = s.idx => r = s

LEMMA IntervalSize ==
    ASSUME NEW B, NEW a \in Nat, NEW b \in Int, IsInterval(B, a, b), b >= a - 1
    PROVE  Cardinality(B) = b - a + 1
<1> DEFINE f == [i \in a..b |-> CHOOSE r \in B : r.idx = i]
<1>1. \A i \in a..b : f[i] \in B /\ f[i].idx = i
  BY DEF IsInterval
<1>2. f \in Bijection(a..b, B)
  <2>0. f \in [a..b -> B]
    BY <1>1
  <2> HIDE DEF f
  <2>1. f \in Injection(a..b, B)
    BY <1>1, <2>0 DEF Injection, IsInjective
  <2>2. \A r \in B : \E i \in a..b : f[i] = r
    BY <1>1 DEF IsInterval
  <2> QED BY <2>0, <2>1, <2>2 DEF Bijection, Surjection
<1>3. ExistsBijection(a..b, B)
  BY <1>2 DEF ExistsBijection
<1>4. IsFiniteSet(a..b) /\ Cardinality(a..b) = IF a > b THEN 0 ELSE b - a + 1
  BY FS_Interval
<1>5. Cardinality(B) = Cardinality(a..b)
  BY <1>3, <1>4, FS_Bijection
<1> QED BY <1>4, <1>5

LEMMA LeavesOfRun ==
    ASSUME NEW B, NEW a \in Nat, NEW b \in Nat, a <= b, IsInterval(B, a, b)
    PROVE  /\ IsLayer(Leaves(B), b - a + 1)
           /\ \A r \in B : Leaves(B)[r.idx - a + 1] = r.hash
<1> DEFINE n == b - a + 1
           before(r) == {s \in B : s.idx < r.idx}
<1>1. Cardinality(B) = n /\ n \in Nat
  BY IntervalSize
<1>2. \A r \in B : Cardinality(before(r)) = r.idx - a
  <2> SUFFICES ASSUME NEW r \in B PROVE Cardinality(before(r)) = r.idx - a
    OBVIOUS
  <2>1. r.idx \in Int /\ r.idx - 1 \in Int /\ r.idx - 1 >= a - 1 /\ r.idx <= b
    BY DEF IsInterval
  <2>2. IsInterval(before(r), a, r.idx - 1)
    BY <2>1 DEF IsInterval
  <2>3. Cardinality(before(r)) = (r.idx - 1) - a + 1
    <3> HIDE DEF before
    <3> QED BY <2>1, <2>2, IntervalSize
  <2> QED BY <2>1, <2>3
<1> HIDE DEF n
<1>3. Leaves(B) = [i \in 1..n |-> (CHOOSE r \in B : Cardinality(before(r)) = i - 1).hash]
  BY <1>1 DEF Leaves
<1>4. ASSUME NEW r \in B PROVE Leaves(B)[r.idx - a + 1] = r.hash
  <2>1. r.idx - a + 1 \in 1..n /\ (r.idx - a + 1) - 1 = r.idx - a
    BY DEF IsInterval, n
  <2>2. \A s \in B : Cardinality(before(s)) = r.idx - a <=> s = r
    <3>1. ASSUME NEW s \in B, s.idx - a = r.idx - a PROVE s = r
      BY <3>1 DEF IsInterval
    <3> QED BY <1>2, <3>1
  <2>3. (CHOOSE s \in B : Cardinality(before(s)) = r.idx - a) = r
    BY <2>2
  <2> HIDE DEF before
  <2> QED BY <1>3, <2>1, <2>3
<1> HIDE DEF before
<1> QED BY <1>1, <1>3, <1>4 DEF IsLayer, n

\* A batch whose last record is on a dense chain is such a run.
LEMMA BatchIsRun ==
    ASSUME NEW rows, Linked(rows), Dense(rows), \A r \in rows : r.idx \in Nat,
           NEW a \in Nat, NEW b \in Nat, a <= b, \E r \in rows : r.idx = b
    PROVE  IsInterval(Batched(rows, a, b), a, b)
<1>1. ASSUME NEW i \in a..b PROVE \E r \in Batched(rows, a, b) : r.idx = i
  <2>1. \E r \in rows : r.idx = i
    BY DEF Dense
  <2> QED BY <2>1 DEF Batched
<1>2. \A r, s \in rows : r.idx = s.idx => r = s
  BY DEF Linked
<1>3. \A r \in Batched(rows, a, b) : r \in rows /\ r.idx \in a..b
  BY DEF Batched
<1> QED BY <1>1, <1>2, <1>3 DEF IsInterval

\* What a batch takes of a part of the chain it takes of the whole.
LEMMA BatchStands ==
    ASSUME NEW rows, NEW more, rows \subseteq more, Linked(more), Dense(rows),
           \A r \in more : r.idx \in Nat,
           NEW a \in Nat, NEW b \in Nat, \E r \in rows : r.idx = b
    PROVE  Batched(more, a, b) = Batched(rows, a, b)
<1>1. ASSUME NEW r \in more, r.idx \in a..b PROVE r \in rows
  <2>1. PICK s \in rows : s.idx = r.idx
    BY <1>1 DEF Dense
  <2> QED BY <1>1, <2>1 DEF Linked
<1> QED BY <1>1 DEF Batched

-----------------------------------------------------------------------------
(* The batches of one sealer.  What it is about to insert begins where the  *)
(* last batch ended, because only it seals, and its leaves are those the    *)
(* chain still has, because the chain only grows at its end.                *)

IsRun(run) == run.first \in Nat /\ run.last \in Nat /\ run.first <= run.last

OnChain(run, rows) == \E r \in rows : r.idx = run.last

RunLeaves(run, rows) == Leaves(Batched(rows, run.first, run.last))

BatchInv ==
    /\ IsLayer(db.batches, Len(db.batches))
    /\ \A k \in 1..Len(db.batches) :
        LET batch == db.batches[k] IN
        /\ IsRun(batch)
        /\ batch.first = IF k = 1 THEN 0 ELSE db.batches[k - 1].last + 1
        /\ edits = 0 => /\ OnChain(batch, db.rows)
                        /\ batch.root = MerkleRoot(RunLeaves(batch, db.rows))

SealInv ==
    \A c \in Connections :
        /\ c \in Sealers /\ txn[c] = "reads" => seen[c].batches = db.batches
        /\ conn[c].at = "seal" =>
            /\ c \in Sealers /\ IsRun(conn[c])
            /\ conn[c].first = NextFirst(db.batches)
            /\ edits = 0 => /\ OnChain(conn[c], db.rows)
                            /\ conn[c].leaves = RunLeaves(conn[c], db.rows)

\* The batches' promise, from the invariants.
LEMMA BatchesKeepWord == IInv /\ DenseInv /\ BatchInv => BatchesPartition
<1> SUFFICES ASSUME IInv, DenseInv, BatchInv PROVE BatchesPartition
  OBVIOUS
<1>1. DOMAIN db.batches = 1..Len(db.batches)
  BY LayerLen DEF BatchInv
<1>2. \A k \in DOMAIN db.batches :
        db.batches[k].first = IF k = 1 THEN 0 ELSE db.batches[k - 1].last + 1
  BY <1>1 DEF BatchInv
<1>3. ASSUME edits = 0, NEW k \in DOMAIN db.batches,
             NEW i \in db.batches[k].first..db.batches[k].last
      PROVE  \E r \in db.rows :
                /\ r.idx = i
                /\ VerifyMerkleProof(r.hash, InclusionProof(db.rows, db.batches[k], i),
                                     db.batches[k].root)
  <2> DEFINE batch == db.batches[k]
             B == Batched(db.rows, batch.first, batch.last)
             n == batch.last - batch.first + 1
  <2>1. IsRun(batch) /\ OnChain(batch, db.rows)
        /\ batch.root = MerkleRoot(RunLeaves(batch, db.rows))
    BY <1>1, <1>3 DEF BatchInv
  <2>2. Linked(db.rows) /\ Dense(db.rows) /\ \A r \in db.rows : r.idx \in Nat
    BY <1>3 DEF IInv, RowsInv, TypeOK, DenseInv
  <2>3. IsInterval(B, batch.first, batch.last)
    BY <2>1, <2>2, BatchIsRun DEF IsRun, OnChain
  <2>4. PICK r \in B : r.idx = i
    BY <1>3, <2>3 DEF IsInterval
  <2>5. r \in db.rows
    BY DEF Batched
  <2> DEFINE leaves == Leaves(B)
             target == i - batch.first
  <2>6. IsLayer(leaves, n) /\ leaves[r.idx - batch.first + 1] = r.hash
    <3> HIDE DEF B, batch
    <3> QED BY <2>1, <2>3, LeavesOfRun DEF IsRun
  <2>7. n \in Nat /\ n >= 1 /\ target \in 0..(n - 1)
    BY <1>3, <2>1 DEF IsRun
  <2>8. VerifyMerkleProof(leaves[target + 1], MerkleProof(leaves, target),
                          MerkleRoot(leaves))
    <3> HIDE DEF leaves, target, n
    <3> QED BY <2>6, <2>7, InclusionProven
  <2>9. VerifyMerkleProof(r.hash, InclusionProof(db.rows, batch, i), batch.root)
    BY <2>1, <2>4, <2>6, <2>8 DEF InclusionProof, RunLeaves
  <2> QED BY <2>4, <2>5, <2>9
<1> QED BY <1>2, <1>3 DEF BatchesPartition

\* A snapshot is taken of the database as the step leaves it.
LEMMA SnapStep ==
    ASSUME IInv, [Next]_vars, NEW o \in Connections, txn'[o] = "reads"
    PROVE  seen'[o] = db' \/ (txn[o] = "reads" /\ seen'[o] = seen[o])
<1>0. seen = [p \in Connections |-> seen[p]] /\ txn = [p \in Connections |-> txn[p]]
  BY DEF IInv, Shape
<1>1. ASSUME NEW c \in Connections, Reads(c), db' = db
      PROVE  seen'[o] = db' \/ (txn[o] = "reads" /\ seen'[o] = seen[o])
  BY <1>0, <1>1 DEF Reads
<1>2. ASSUME NEW c \in Connections, Ends(c)
      PROVE  txn[o] = "reads" /\ seen'[o] = seen[o]
  BY <1>0, <1>2 DEF Ends
<1>3. ASSUME NEW c \in Connections, LockedOut(c)
      PROVE  txn[o] = "reads" /\ seen'[o] = seen[o]
  BY <1>0, <1>3 DEF LockedOut
<1>4. ASSUME NEW c \in Connections, Step(c) \/ Die(c)
      PROVE  txn[o] = "reads" /\ seen'[o] = seen[o]
  <2>1. CASE InsertConflict(c)
    BY <1>0, <2>1 DEF InsertConflict
  <2>2. CASE Insert(c) \/ InsertLockedOut(c) \/ SealInsert(c) \/ Die(c)
    <3>1. Ends(c) \/ LockedOut(c)
      BY <2>2 DEF Insert, InsertLockedOut, SealInsert, Die, Commits
    <3> QED BY <1>2, <1>3, <3>1
  <2> QED BY <1>4, <2>1, <2>2 DEF Step
<1>5. ASSUME NEW c \in Connections, NEW t \in Tables, ReadIndex(c, t)
      PROVE  seen'[o] = db' \/ (txn[o] = "reads" /\ seen'[o] = seen[o])
  <2>1. (Reads(c) /\ db' = db) \/ Ends(c) \/ LockedOut(c)
    BY <1>5 DEF ReadIndex, Commits
  <2> QED BY <1>1, <1>2, <1>3, <2>1
<1>6. ASSUME NEW c \in Connections, NEW type, NEW target, Prepare(c, type, target)
      PROVE  seen'[o] = db' \/ (txn[o] = "reads" /\ seen'[o] = seen[o])
  BY <1>1, <1>6 DEF Prepare
<1>7. ASSUME NEW c \in Sealers, NEW size, SealRead(c, size)
      PROVE  seen'[o] = db' \/ (txn[o] = "reads" /\ seen'[o] = seen[o])
  <2>1. c \in Connections
    BY ConstantsAssumption
  <2> QED BY <1>1, <1>7, <2>1 DEF SealRead
<1>8. CASE UNCHANGED <<txn, seen>>
  BY <1>8
<1> QED BY <1>4, <1>5, <1>6, <1>7, <1>8
        DEF Next, vars, LegacyAppend, Upgrade, Lockdown, Unlock, EditRow

\* A batch is sealed with what its connection has, or the batches stand.
SealsBatch(c) ==
    /\ conn[c].at = "seal"
    /\ db'.batches = Append(db.batches, [first |-> conn[c].first, last |-> conn[c].last,
                                         root |-> MerkleRoot(conn[c].leaves)])
    /\ Ends(c) /\ Returns(c) /\ edits' = edits /\ db'.rows = db.rows

LEMMA BatchesStep ==
    ASSUME IInv, [Next]_vars
    PROVE  db'.batches = db.batches \/ \E c \in Connections : SealsBatch(c)
<1>1. Shape
  BY DEF IInv
<1>2. ASSUME NEW c \in Connections, SealInsert(c)
      PROVE  db'.batches = db.batches \/ SealsBatch(c)
  BY <1>1, <1>2 DEF SealInsert, Commits, LockedOut, SealsBatch, Shape
<1>3. ASSUME NEW c \in Connections, Insert(c) PROVE db'.batches = db.batches
  BY <1>1, <1>3, WithRecordShape DEF Insert, Commits
<1>4. ASSUME NEW c \in Connections, NEW t \in Tables, ReadIndex(c, t)
      PROVE  db'.batches = db.batches
  BY <1>1, <1>4 DEF ReadIndex, Commits, LockedOut, Shape
<1>5. ASSUME NEW type, NEW target, LegacyAppend(type, target)
      PROVE  db'.batches = db.batches
  BY <1>1, <1>5 DEF LegacyAppend, Shape
<1>6. ASSUME NEW r, EditRow(r) PROVE db'.batches = db.batches
  <2>1. PICK new : db' = [db EXCEPT !.rows = new]
    BY <1>6 DEF EditRow
  <2> QED BY <1>1, <2>1 DEF Shape
<1>7. CASE UNCHANGED db
  BY <1>7
<1> QED BY <1>2, <1>3, <1>4, <1>5, <1>6, <1>7
        DEF Next, vars, Step, Prepare, InsertConflict, InsertLockedOut, LockedOut, Die,
            SealRead, Upgrade, Lockdown, Unlock

\* A connection that is sealing was so before, or has read its batch in this step.
LEMMA SealingStep ==
    ASSUME IInv, [Next]_vars, NEW o \in Connections, conn'[o].at = "seal"
    PROVE  \/ conn'[o] = conn[o]
           \/ o \in Sealers /\ \E size \in BatchSizes : SealRead(o, size)
<1>0. conn = [p \in Connections |-> conn[p]]
  BY DEF IInv, Shape
<1>1. ASSUME NEW c \in Connections, Returns(c) PROVE conn'[o] = conn[o]
  BY <1>0, <1>1, IdleTyped DEF Returns
<1>2. ASSUME NEW c \in Connections, NEW type, NEW target, Prepare(c, type, target)
      PROVE  conn'[o] = conn[o]
  <2>1. PICK h : conn' = [conn EXCEPT ![c] =
            [Idle EXCEPT !.at = "insert", !.rec = Record(h[1], h[2], type, target)]]
    BY <1>2 DEF Prepare
  <2>2. [Idle EXCEPT !.at = "insert", !.rec = Record(h[1], h[2], type, target)].at = "insert"
    BY DEF Idle
  <2> QED BY <1>0, <2>1, <2>2
<1>3. ASSUME NEW c \in Sealers, NEW size \in BatchSizes, SealRead(c, size), o # c
      PROVE  conn'[o] = conn[o]
  <2>1. PICK frame : conn' = [conn EXCEPT ![c] = frame]
    BY <1>3 DEF SealRead
  <2> QED BY <1>0, <1>3, <2>1
<1>4. CASE UNCHANGED conn
  BY <1>4
<1> QED BY <1>1, <1>2, <1>3, <1>4
        DEF Next, vars, Step, Insert, InsertConflict, InsertLockedOut, Inserting,
            SealInsert, Die, LegacyAppend, ReadIndex, Upgrade, Lockdown, Unlock, EditRow

\* What a run that ends on the chain takes of it does not change any more.
LEMMA RunStands ==
    ASSUME IInv, DenseInv, [Next]_vars, edits' = 0, NEW run, IsRun(run),
           OnChain(run, db.rows)
    PROVE  OnChain(run, db'.rows) /\ RunLeaves(run, db'.rows) = RunLeaves(run, db.rows)
<1>1. edits = 0 /\ db.rows \subseteq db'.rows
  BY RowsStep
<1>2. Linked(db'.rows) /\ \A r \in db'.rows : r.idx \in Nat
  <2>1. IInv'
    BY NextKeeps
  <2> QED BY <2>1 DEF IInv, RowsInv, TypeOK
<1>3. Dense(db.rows)
  BY <1>1 DEF DenseInv
<1>4. Batched(db'.rows, run.first, run.last) = Batched(db.rows, run.first, run.last)
  BY <1>1, <1>2, <1>3, BatchStands DEF IsRun, OnChain
<1> QED BY <1>1, <1>4 DEF RunLeaves, OnChain

LEMMA NextFirstFacts ==
    ASSUME BatchInv
    PROVE  /\ NextFirst(db.batches) \in Nat
           /\ \A x : NextFirst(Append(db.batches, x)) = x.last + 1
           /\ NextFirst(db.batches) = IF Len(db.batches) = 0 THEN 0
                                      ELSE db.batches[Len(db.batches)].last + 1
<1> DEFINE n == Len(db.batches)
<1>1. IsLayer(db.batches, n) /\ n \in Nat
  BY LayerLen DEF BatchInv
<1>2. n = 0 <=> db.batches = <<>>
  <2>1. n = 0 => db.batches = <<>>
    BY <1>1 DEF IsLayer
  <2> QED BY <2>1
<1>3. n # 0 => n \in 1..n /\ db.batches[n].last \in Nat
  BY <1>1 DEF BatchInv, IsRun
<1>4. ASSUME NEW x PROVE NextFirst(Append(db.batches, x)) = x.last + 1
  <2>1. /\ IsLayer(Append(db.batches, x), n + 1)
        /\ Append(db.batches, x)[n + 1] = x
    BY <1>1, AppendLayer
  <2>2. Len(Append(db.batches, x)) = n + 1 /\ n + 1 # 0
    BY <1>1, <2>1, LayerLen
  <2>3. Append(db.batches, x) # <<>>
    BY <2>2
  <2> QED BY <2>1, <2>2, <2>3 DEF NextFirst
<1> QED BY <1>2, <1>3, <1>4 DEF NextFirst

LEMMA BatchStep == IInv /\ DenseInv /\ BatchInv /\ SealInv /\ [Next]_vars => BatchInv'
<1> SUFFICES ASSUME IInv, DenseInv, BatchInv, SealInv, [Next]_vars PROVE BatchInv'
  OBVIOUS
<1> DEFINE n == Len(db.batches)
           Fine(batches, rows, k) ==
             /\ IsRun(batches[k])
             /\ batches[k].first = IF k = 1 THEN 0 ELSE batches[k - 1].last + 1
             /\ edits' = 0 => /\ OnChain(batches[k], rows)
                              /\ batches[k].root = MerkleRoot(RunLeaves(batches[k], rows))
<1>1. IsLayer(db.batches, n) /\ n \in Nat
  BY LayerLen DEF BatchInv
<1>2. ASSUME NEW k \in 1..n PROVE Fine(db.batches, db'.rows, k)
  <2>1. /\ IsRun(db.batches[k])
        /\ db.batches[k].first = IF k = 1 THEN 0 ELSE db.batches[k - 1].last + 1
    BY DEF BatchInv
  <2>2. ASSUME edits' = 0
        PROVE  /\ OnChain(db.batches[k], db'.rows)
               /\ db.batches[k].root = MerkleRoot(RunLeaves(db.batches[k], db'.rows))
    <3>1. edits = 0
      BY <2>2, RowsStep
    <3>2. /\ OnChain(db.batches[k], db.rows)
          /\ db.batches[k].root = MerkleRoot(RunLeaves(db.batches[k], db.rows))
      BY <3>1 DEF BatchInv
    <3> QED BY <2>1, <2>2, <3>2, RunStands
  <2> QED BY <2>1, <2>2
<1>3. \/ /\ IsLayer(db'.batches, n)
         /\ \A k \in 1..n : Fine(db'.batches, db'.rows, k)
      \/ /\ IsLayer(db'.batches, n + 1)
         /\ \A k \in 1..(n + 1) : Fine(db'.batches, db'.rows, k)
  <2>1. CASE db'.batches = db.batches
    BY <1>1, <1>2, <2>1
  <2>2. ASSUME NEW c \in Connections, SealsBatch(c)
        PROVE  /\ IsLayer(db'.batches, n + 1)
               /\ \A k \in 1..(n + 1) : Fine(db'.batches, db'.rows, k)
    <3> DEFINE new == [first |-> conn[c].first, last |-> conn[c].last,
                       root |-> MerkleRoot(conn[c].leaves)]
    <3>1. /\ db'.batches = Append(db.batches, new)
          /\ edits' = edits /\ db'.rows = db.rows /\ conn[c].at = "seal"
      BY <2>2 DEF SealsBatch
    <3>2. /\ IsRun(new) /\ new.first = NextFirst(db.batches)
          /\ edits' = 0 => /\ OnChain(new, db'.rows)
                           /\ new.root = MerkleRoot(RunLeaves(new, db'.rows))
      BY <3>1 DEF SealInv, IsRun, OnChain, RunLeaves
    <3> HIDE DEF new
    <3>3. /\ IsLayer(db'.batches, n + 1) /\ db'.batches[n + 1] = new
          /\ \A i \in 1..n : db'.batches[i] = db.batches[i]
      BY <1>1, <3>1, AppendLayer
    <3>4. Fine(db'.batches, db'.rows, n + 1)
      <4>1. new.first = IF n + 1 = 1 THEN 0 ELSE db'.batches[(n + 1) - 1].last + 1
        <5>1. new.first = IF n = 0 THEN 0 ELSE db.batches[n].last + 1
          BY <3>2, NextFirstFacts
        <5> QED BY <1>1, <3>3, <5>1
      <4> QED BY <3>2, <3>3, <4>1
    <3>5. ASSUME NEW k \in 1..n PROVE Fine(db'.batches, db'.rows, k)
      <4>1. k # 1 => k - 1 \in 1..n
        BY <1>1
      <4>2. db'.batches[k] = db.batches[k]
            /\ (k # 1 => db'.batches[k - 1] = db.batches[k - 1])
        BY <3>3, <4>1
      <4> QED BY <1>2, <4>2
    <3>6. \A k \in 1..(n + 1) : k \in 1..n \/ k = n + 1
      BY <1>1
    <3> HIDE DEF Fine
    <3> QED BY <3>3, <3>4, <3>5, <3>6
  <2> HIDE DEF Fine, n
  <2> QED BY <2>1, <2>2, BatchesStep
<1>4. IsLayer(db'.batches, Len(db'.batches))
      /\ \A k \in 1..Len(db'.batches) : Fine(db'.batches, db'.rows, k)
  <2> HIDE DEF Fine
  <2> QED BY <1>3, LayerLen
<1> QED BY <1>4 DEF BatchInv, IsLayer, IsRun, OnChain, RunLeaves, Leaves, Batched

LEMMA SealReadRun ==
    ASSUME IInv, DenseInv, BatchInv, SealInv,
           NEW c \in Sealers, NEW size \in BatchSizes, SealRead(c, size)
    PROVE  /\ IsRun(conn'[c]) /\ conn'[c].first = NextFirst(db.batches)
           /\ edits = 0 => /\ OnChain(conn'[c], db.rows)
                           /\ conn'[c].leaves = RunLeaves(conn'[c], db.rows)
<1> DEFINE view == View(c)
           first == NextFirst(view.batches)
           run == Batched(view.rows, first, first + size - 1)
<1>0. c \in Connections /\ size \in Nat /\ size # 0
  BY ConstantsAssumption
<1>1. view = db \/ (view = seen[c] /\ txn[c] = "reads")
  BY DEF View
<1>2. view.batches = db.batches /\ first = NextFirst(db.batches)
  BY <1>0, <1>1 DEF SealInv
<1>3. first \in Nat
  BY <1>2, NextFirstFacts
<1>4. PICK last \in {r.idx : r \in run} :
        /\ \A r \in run : r.idx <= last
        /\ conn' = [conn EXCEPT ![c] = [Idle EXCEPT !.at = "seal",
                !.first = first, !.last = last, !.leaves = Leaves(run)]]
  BY DEF SealRead
<1> DEFINE frame == [Idle EXCEPT !.at = "seal", !.first = first, !.last = last,
                                 !.leaves = Leaves(run)]
<1>5. frame.first = first /\ frame.last = last /\ frame.leaves = Leaves(run)
  BY DEF Idle
<1> HIDE DEF frame, first, view
<1>6. conn'[c] = frame
  BY <1>0, <1>4 DEF IInv, Shape, frame
<1>7. last \in first..(first + size - 1)
  BY <1>4 DEF Batched
<1>8. first <= last /\ last \in Nat /\ last <= first + size - 1
  BY <1>0, <1>3, <1>7
<1>9. ASSUME edits = 0
      PROVE  OnChain(conn'[c], db.rows) /\ conn'[c].leaves = RunLeaves(conn'[c], db.rows)
  <2>1. /\ view.rows \subseteq db.rows /\ Dense(view.rows)
        /\ Linked(db.rows) /\ \A r \in db.rows : r.idx \in Nat
    BY <1>0, <1>1, <1>9 DEF IInv, ConnInv, RowsInv, TypeOK, DenseInv
  <2>2. \E r \in view.rows : r.idx = last
    BY <1>4 DEF Batched
  <2>3. run = Batched(view.rows, first, last)
    <3>1. ASSUME NEW r \in view.rows PROVE r \in run <=> r.idx \in first..last
      <4>1. r.idx \in Nat
        BY <2>1
      <4>2. r \in run <=> r.idx \in first..(first + size - 1)
        BY DEF Batched
      <4> QED BY <1>0, <1>3, <1>4, <1>8, <4>1, <4>2
    <3> QED BY <3>1 DEF Batched
  <2>4. Batched(db.rows, first, last) = Batched(view.rows, first, last)
    BY <1>3, <1>8, <2>1, <2>2, BatchStands
  <2> QED BY <1>5, <1>6, <2>1, <2>2, <2>3, <2>4 DEF OnChain, RunLeaves
<1> QED BY <1>2, <1>3, <1>5, <1>6, <1>8, <1>9 DEF IsRun

\* If at most one connection seals, what it seals is what comes next.
LEMMA SealStep ==
    ASSUME \A c, d \in Sealers : c = d
    PROVE  IInv /\ DenseInv /\ BatchInv /\ SealInv /\ [Next]_vars => SealInv'
<1> SUFFICES ASSUME IInv, DenseInv, BatchInv, SealInv, [Next]_vars, NEW o \in Connections
             PROVE  /\ o \in Sealers /\ txn'[o] = "reads" => seen'[o].batches = db'.batches
                    /\ conn'[o].at = "seal" =>
                        /\ o \in Sealers /\ IsRun(conn'[o])
                        /\ conn'[o].first = NextFirst(db'.batches)
                        /\ edits' = 0 =>
                            /\ OnChain(conn'[o], db'.rows)
                            /\ conn'[o].leaves = RunLeaves(conn'[o], db'.rows)
  BY DEF SealInv, IsRun, OnChain, RunLeaves, Leaves, Batched, NextFirst
<1>1. Shape
  BY DEF IInv
<1>2. ASSUME NEW c \in Connections, SealsBatch(c), o \in Sealers
      PROVE  txn'[o] = "none" /\ conn'[o] = Idle
  <2>1. c = o
    BY <1>2 DEF SealsBatch, SealInv
  <2> QED BY <1>1, <1>2, <2>1 DEF SealsBatch, Ends, Returns, Shape
<1>3. ASSUME o \in Sealers, txn'[o] = "reads" PROVE seen'[o].batches = db'.batches
  <2>1. db'.batches = db.batches
    BY <1>2, <1>3, BatchesStep
  <2>2. CASE seen'[o] = db'
    BY <2>2
  <2>3. CASE txn[o] = "reads" /\ seen'[o] = seen[o]
    BY <1>3, <2>1, <2>3 DEF SealInv
  <2> QED BY <1>3, <2>2, <2>3, SnapStep
<1>4. ASSUME conn'[o].at = "seal"
      PROVE  /\ o \in Sealers /\ IsRun(conn'[o])
             /\ conn'[o].first = NextFirst(db'.batches)
             /\ edits' = 0 => /\ OnChain(conn'[o], db'.rows)
                              /\ conn'[o].leaves = RunLeaves(conn'[o], db'.rows)
  <2>1. CASE conn'[o] = conn[o]
    <3>1. /\ o \in Sealers /\ IsRun(conn[o]) /\ conn[o].first = NextFirst(db.batches)
          /\ edits = 0 => /\ OnChain(conn[o], db.rows)
                          /\ conn[o].leaves = RunLeaves(conn[o], db.rows)
      BY <1>4, <2>1 DEF SealInv
    <3>2. db'.batches = db.batches
      BY <1>2, <1>4, <3>1, IdleTyped, BatchesStep
    <3>3. ASSUME edits' = 0
          PROVE  /\ OnChain(conn[o], db'.rows)
                 /\ conn[o].leaves = RunLeaves(conn[o], db'.rows)
      <4>1. edits = 0
        BY <3>3, RowsStep
      <4> QED BY <3>1, <3>3, <4>1, RunStands
    <3> QED BY <2>1, <3>1, <3>2, <3>3
  <2>2. ASSUME o \in Sealers, NEW size \in BatchSizes, SealRead(o, size)
        PROVE  /\ o \in Sealers /\ IsRun(conn'[o])
               /\ conn'[o].first = NextFirst(db'.batches)
               /\ edits' = 0 => /\ OnChain(conn'[o], db'.rows)
                                /\ conn'[o].leaves = RunLeaves(conn'[o], db'.rows)
    <3>1. db' = db /\ edits' = edits
      BY <2>2 DEF SealRead
    <3> QED BY <2>2, <3>1, SealReadRun
  <2> QED BY <1>4, <2>1, <2>2, SealingStep
<1> QED BY <1>3, <1>4

LEMMA BatchInit == Init => DenseInv /\ BatchInv /\ SealInv
<1> SUFFICES ASSUME Init PROVE DenseInv /\ BatchInv /\ SealInv
  OBVIOUS
<1>1. db.rows = {} /\ db.batches = <<>> /\ Len(db.batches) = 0
  BY DEF Init, Empty
<1>2. \A c \in Connections : seen[c].rows = {} /\ txn[c] = "none" /\ conn[c].at = "idle"
  BY IdleTyped DEF Init, Empty
<1>3. IsLayer(db.batches, 0)
  BY <1>1 DEF IsLayer
<1> QED BY <1>1, <1>2, <1>3 DEF DenseInv, Dense, BatchInv, SealInv

\* Batches cover the chain's prefix without gap or overlap and every record of one can
\* be proved to be in it later on, whatever is appended or dies meanwhile, if at most
\* one connection seals.
THEOREM BatchesCover ==
    ASSUME \A c, d \in Sealers : c = d
    PROVE  Spec => []BatchesPartition
<1>1. Init => DenseInv /\ BatchInv /\ SealInv
  BY BatchInit
<1>2. IInv /\ DenseInv /\ BatchInv /\ SealInv /\ [Next]_vars
        => DenseInv' /\ BatchInv' /\ SealInv'
  BY DenseStep, BatchStep, SealStep
<1>3. IInv /\ DenseInv /\ BatchInv => BatchesPartition
  BY BatchesKeepWord
<1> QED BY <1>1, <1>2, <1>3, InvAlways, PTL DEF Spec

-----------------------------------------------------------------------------
(* After an edit behind the program's back: a record whose signature is not *)
(* that of its fields stays, and so does a gap.  An append prepared against *)
(* a snapshot from before the removal could fill it, but its connection can *)
(* never write: its snapshot is out of date.                                *)

GapAt(rows, g) == (\A s \in rows : s.idx # g) /\ \E s \in rows : s.idx = g + 1

Gapped(g) ==
    /\ GapAt(db.rows, g)
    /\ \A c \in Connections : conn[c].at = "insert" =>
         conn[c].rec.idx > g \/ (txn[c] = "reads" /\ ~GapAt(seen[c].rows, g))

EditInv ==
    /\ \A c \in Connections : \A r \in seen[c].rows : r.idx \in Nat
    /\ edits > 0 => (\E r \in db.rows : ~Authentic(r)) \/ \E g \in Nat : Gapped(g)

LEMMA HeadAbove ==
    ASSUME NEW rows, \A r \in rows : r.idx \in Nat, NEW h \in Heads(rows),
           NEW g \in Nat, GapAt(rows, g)
    PROVE  h[1] > g
<1>1. PICK s \in rows : s.idx = g + 1
  BY DEF GapAt
<1>2. IsNext(rows, h[1], h[2])
  BY DEF Heads
<1>3. PICK r \in rows : (\A u \in rows : u.idx <= r.idx) /\ h[1] = r.idx + 1
  BY <1>1, <1>2 DEF IsNext
<1> QED BY <1>1, <1>3

\* A connection that has prepared a record is left alone, or prepared it in this step.
LEMMA PreparedStep ==
    ASSUME IInv, [Next]_vars, NEW o \in Connections, conn'[o].at = "insert"
    PROVE  \/ conn'[o] = conn[o] /\ txn'[o] = txn[o] /\ seen'[o] = seen[o]
           \/ \E type \in Types, target \in Targets \cup {NoTarget} : Prepare(o, type, target)
<1>0. /\ conn = [p \in Connections |-> conn[p]] /\ txn = [p \in Connections |-> txn[p]]
      /\ seen = [p \in Connections |-> seen[p]]
  BY DEF IInv, Shape
<1> DEFINE Alone == conn'[o] = conn[o] /\ txn'[o] = txn[o] /\ seen'[o] = seen[o]
<1>1. ASSUME NEW c \in Connections, Returns(c) PROVE c # o
  BY <1>0, <1>1, IdleTyped DEF Returns
<1>2. ASSUME NEW c \in Connections, c # o, Ends(c) \/ LockedOut(c) \/ Reads(c)
      PROVE  txn'[o] = txn[o] /\ seen'[o] = seen[o]
  BY <1>0, <1>2 DEF Ends, LockedOut, Reads
<1>3. ASSUME NEW c \in Connections, Step(c) \/ Die(c) PROVE Alone
  <2>1. Returns(c) /\ c # o
    BY <1>1, <1>3 DEF Step, Die, Insert, InsertConflict, InsertLockedOut, Inserting, SealInsert
  <2>2. conn'[o] = conn[o]
    BY <1>0, <2>1 DEF Returns
  <2>3. CASE InsertConflict(c)
    BY <1>0, <2>1, <2>2, <2>3 DEF InsertConflict
  <2>4. CASE Insert(c) \/ InsertLockedOut(c) \/ SealInsert(c) \/ Die(c)
    <3>1. Ends(c) \/ LockedOut(c)
      BY <2>4 DEF Insert, InsertLockedOut, SealInsert, Die, Commits
    <3> QED BY <1>2, <2>1, <2>2, <3>1
  <2> QED BY <1>3, <2>3, <2>4 DEF Step
<1>4. ASSUME NEW c \in Connections, NEW t \in Tables, ReadIndex(c, t) PROVE Alone
  <2>1. conn' = conn /\ conn[c].at = "idle" /\ (Reads(c) \/ Ends(c) \/ LockedOut(c))
    BY <1>4 DEF ReadIndex, Commits
  <2> QED BY <1>2, <2>1
<1>5. ASSUME NEW c \in Connections, c # o, NEW type, NEW target, Prepare(c, type, target)
      PROVE  Alone
  <2>1. Reads(c) /\ \E f : conn' = [conn EXCEPT ![c] = f]
    BY <1>5 DEF Prepare
  <2> QED BY <1>0, <1>2, <1>5, <2>1
<1>6. ASSUME NEW c \in Sealers, NEW size, SealRead(c, size) PROVE Alone
  <2>1. c \in Connections /\ Reads(c)
    BY <1>6, ConstantsAssumption DEF SealRead
  <2> DEFINE first == NextFirst(View(c).batches)
             run == Batched(View(c).rows, first, first + size - 1)
             Frame(last) == [Idle EXCEPT !.at = "seal", !.first = first, !.last = last,
                                         !.leaves = Leaves(run)]
  <2>2. PICK last : conn' = [conn EXCEPT ![c] = Frame(last)]
    BY <1>6 DEF SealRead
  <2>3. conn'[c].at = "seal"
    <3>1. Frame(last).at = "seal"
      BY DEF Idle
    <3> HIDE DEF Frame
    <3> QED BY <1>0, <2>1, <2>2, <3>1
  <2> HIDE DEF Frame
  <2>4. c # o
    BY <2>3
  <2> QED BY <1>0, <1>2, <2>1, <2>2, <2>4
<1>7. CASE UNCHANGED <<conn, txn, seen>>
  BY <1>7
<1> HIDE DEF Alone
<1>8. Alone \/ \E type \in Types, target \in Targets \cup {NoTarget} : Prepare(o, type, target)
  BY <1>3, <1>4, <1>5, <1>6, <1>7
     DEF Next, vars, LegacyAppend, Upgrade, Lockdown, Unlock, EditRow, Alone
<1> QED BY <1>8 DEF Alone

LEMMA GapStep ==
    ASSUME IInv, EditInv, [Next]_vars, edits' = edits, NEW g \in Nat, Gapped(g)
    PROVE  Gapped(g)'
<1>1. Shape /\ GapAt(db.rows, g) /\ \A s \in db.rows : s.idx \in Nat
  BY DEF IInv, TypeOK, Gapped
<1>2. ASSUME NEW r, db'.rows = db.rows \cup {r}, r.idx \in Nat, r.idx > g
      PROVE  GapAt(db'.rows, g)
  BY <1>1, <1>2 DEF GapAt
<1>3. GapAt(db'.rows, g)
  <2>1. ASSUME NEW c \in Connections, Insert(c) PROVE GapAt(db'.rows, g)
    <3>1. /\ conn[c].at = "insert" /\ db' = WithRecord(db, conn[c].rec)
          /\ txn[c] = "reads" => seen[c] = db
      BY <2>1 DEF Insert, Inserting, Commits, CanWrite
    <3>2. conn[c].rec.idx > g /\ conn[c].rec.idx \in Nat
      BY <1>1, <3>1 DEF Gapped, IInv, ConnInv, Typed
    <3>3. db'.rows = db.rows \cup {conn[c].rec}
      BY <1>1, <3>1, WithRecordShape
    <3> QED BY <1>2, <3>2, <3>3
  <2>2. ASSUME NEW type, NEW target, LegacyAppend(type, target) PROVE GapAt(db'.rows, g)
    <3>1. PICK h \in Heads(db.rows) :
            db' = [db EXCEPT !.rows = @ \cup {Record(h[1], h[2], type, target)}]
      BY <2>2 DEF LegacyAppend
    <3> DEFINE r == Record(h[1], h[2], type, target)
    <3>2. r.idx = h[1] /\ h[1] \in Nat /\ h[1] > g
      BY <1>1, HeadFollows, HeadAbove, RecordFields
    <3>3. db'.rows = db.rows \cup {r}
      <4> HIDE DEF r
      <4>1. db' = [db EXCEPT !.rows = @ \cup {r}]
        BY <3>1 DEF r
      <4> QED BY <1>1, <4>1 DEF Shape
    <3> HIDE DEF r
    <3> QED BY <1>2, <3>2, <3>3
  <2>3. ASSUME NEW c \in Connections, NEW t \in Tables, ReadIndex(c, t)
        PROVE  db'.rows = db.rows
    BY <1>1, <2>3, IndexShape, ZenonT(40) DEF ReadIndex, Commits, LockedOut
  <2>4. ASSUME NEW c \in Connections, SealInsert(c) PROVE db'.rows = db.rows
    BY <1>1, <2>4 DEF SealInsert, Commits, LockedOut, Shape
  <2>5. ASSUME NEW r, EditRow(r) PROVE FALSE
    <3>1. edits' = edits + 1 /\ edits \in Nat
      BY <2>5 DEF EditRow, IInv, TypeOK
    <3> QED BY <3>1
  <2>6. CASE UNCHANGED db
    BY <1>1, <2>6
  <2> HIDE DEF GapAt
  <2> QED BY <1>1, <2>1, <2>2, <2>3, <2>4, <2>5, <2>6
          DEF Next, vars, Step, Prepare, InsertConflict, InsertLockedOut, LockedOut, Die,
              SealRead, Upgrade, Lockdown, Unlock
<1>4. ASSUME NEW o \in Connections, conn'[o].at = "insert"
      PROVE  conn'[o].rec.idx > g \/ (txn'[o] = "reads" /\ ~GapAt(seen'[o].rows, g))
  <2>1. CASE conn'[o] = conn[o] /\ txn'[o] = txn[o] /\ seen'[o] = seen[o]
    BY <1>4, <2>1 DEF Gapped
  <2>2. ASSUME NEW type \in Types, NEW target \in Targets \cup {NoTarget},
               Prepare(o, type, target)
        PROVE  conn'[o].rec.idx > g \/ (txn'[o] = "reads" /\ ~GapAt(seen'[o].rows, g))
    <3>1. PICK h \in Heads(View(o).rows) :
            conn' = [conn EXCEPT ![o] =
                [Idle EXCEPT !.at = "insert", !.rec = Record(h[1], h[2], type, target)]]
      BY <2>2 DEF Prepare
    <3>2. conn'[o].rec.idx = h[1]
      <4> DEFINE frame == [Idle EXCEPT !.at = "insert",
                                       !.rec = Record(h[1], h[2], type, target)]
      <4>1. frame.rec = Record(h[1], h[2], type, target)
        BY DEF Idle
      <4> HIDE DEF frame
      <4>2. conn'[o] = frame
        BY <1>1, <3>1 DEF Shape, frame
      <4> QED BY <4>1, <4>2, RecordFields
    <3>3. \A r \in View(o).rows : r.idx \in Nat
      BY <1>1 DEF View, EditInv
    <3>4. CASE GapAt(View(o).rows, g)
      BY <3>2, <3>3, <3>4, HeadAbove
    <3>5. CASE ~GapAt(View(o).rows, g)
      <4>1. txn[o] = "reads" /\ View(o) = seen[o]
        BY <1>1, <3>5 DEF View
      <4>2. txn' = txn /\ seen' = seen
        BY <2>2, <4>1 DEF Prepare, Reads
      <4> QED BY <3>5, <4>1, <4>2
    <3> QED BY <3>4, <3>5
  <2> QED BY <1>4, <2>1, <2>2, PreparedStep
<1> QED BY <1>3, <1>4 DEF Gapped, GapAt

\* The first edit.
LEMMA FirstEdit ==
    ASSUME IInv, DenseInv, edits = 0, NEW r \in db.rows, EditRow(r)
    PROVE  (\E s \in db'.rows : ~Authentic(s)) \/ \E g \in Nat : Gapped(g)'
<1>1. /\ Shape /\ Linked(db.rows) /\ Dense(db.rows) /\ Authentic(r)
      /\ \A s \in db.rows : s.idx \in Nat
  BY DEF IInv, RowsInv, Sound, TypeOK, DenseInv
<1>2. conn' = conn /\ \A c \in Connections : conn'[c].at = "idle"
  BY DEF EditRow
<1>3. ASSUME NEW s \in db.rows, s.idx > r.idx, db' = [db EXCEPT !.rows = @ \ {r}]
      PROVE  Gapped(r.idx)'
  <2>1. db'.rows = db.rows \ {r}
    BY <1>1, <1>3 DEF Shape
  <2>2. PICK u \in db.rows : u.idx = r.idx + 1
    <3>1. r.idx + 1 \in 0..s.idx
      BY <1>1, <1>3
    <3> QED BY <1>1, <3>1 DEF Dense
  <2>3. u \in db'.rows
    BY <1>1, <2>1, <2>2
  <2>4. \A v \in db'.rows : v.idx # r.idx
    BY <1>1, <2>1 DEF Linked
  <2> QED BY <1>2, <2>2, <2>3, <2>4 DEF Gapped, GapAt
<1>4. ASSUME NEW type \in Types \ {r.type}, NEW rehash \in BOOLEAN,
             NEW e, e = Record(r.idx, r.prior, type, r.target),
             db' = [db EXCEPT !.rows = (@ \ {r}) \cup
                {[e EXCEPT !.sig = r.sig, !.hash = IF rehash THEN @ ELSE r.hash]}]
      PROVE  \E s \in db'.rows : ~Authentic(s)
  <2> DEFINE n == [e EXCEPT !.sig = r.sig, !.hash = IF rehash THEN @ ELSE r.hash]
  <2>1. n.idx = r.idx /\ n.prior = r.prior /\ n.type = type /\ n.target = r.target
        /\ n.sig = r.sig
    BY <1>4 DEF Record
  <2>2. r.sig = <<r.idx, r.prior, r.type, r.target>>
    BY <1>1 DEF Authentic
  <2> HIDE DEF n
  <2>3. ~Authentic(n)
    BY <2>1, <2>2 DEF Authentic
  <2>4. n \in db'.rows
    <3>1. db' = [db EXCEPT !.rows = (@ \ {r}) \cup {n}]
      BY <1>4 DEF n
    <3> QED BY <1>1, <3>1 DEF Shape
  <2> QED BY <2>3, <2>4
<1> QED BY <1>1, <1>3, <1>4 DEF EditRow

LEMMA EditStep ==
    ASSUME MaxEdits <= 1
    PROVE  IInv /\ DenseInv /\ EditInv /\ [Next]_vars => EditInv'
<1> SUFFICES ASSUME IInv, DenseInv, EditInv, [Next]_vars PROVE EditInv'
  OBVIOUS
<1>0. edits \in Nat /\ \A s \in db.rows : s.idx \in Nat
  BY DEF IInv, TypeOK
<1>1. \A c \in Connections : \A r \in seen'[c].rows : r.idx \in Nat
  BY <1>0, SeenStep DEF EditInv, Empty
<1>2. ASSUME edits' > 0
      PROVE  (\E r \in db'.rows : ~Authentic(r)) \/ \E g \in Nat : Gapped(g)'
  <2>1. CASE edits' = edits
    <3>1. CASE \E r \in db.rows : ~Authentic(r)
      <4>1. db.rows \subseteq db'.rows
        BY <1>0, <2>1, RowsKept
      <4> QED BY <3>1, <4>1
    <3>2. CASE \E g \in Nat : Gapped(g)
      BY <2>1, <3>2, GapStep
    <3> QED BY <1>2, <2>1, <3>1, <3>2 DEF EditInv
  <2>2. ASSUME NEW r \in db.rows, EditRow(r)
        PROVE  (\E s \in db'.rows : ~Authentic(s)) \/ \E g \in Nat : Gapped(g)'
    <3>1. edits < MaxEdits
      BY <2>2 DEF EditRow
    <3>2. edits = 0
      BY <1>0, <3>1, ConstantsAssumption
    <3> QED BY <2>2, <3>2, FirstEdit
  <2>3. edits' = edits \/ \E r \in db.rows : EditRow(r)
    BY DEF Next, vars, LegacyAppend, Prepare, Step, Insert, InsertConflict,
           InsertLockedOut, Inserting, SealInsert, Die, ReadIndex, SealRead,
           Upgrade, Lockdown, Unlock
  <2> QED BY <2>1, <2>2, <2>3
<1> QED BY <1>1, <1>2 DEF EditInv, Authentic

\* After an edit of the table behind the program's back, one that changes a record or
\* takes out one before the last, verify() fails for good, whatever is appended later.
\* (A second edit could undo the first.)
THEOREM EditsStayDetected ==
    ASSUME MaxEdits <= 1
    PROVE  Spec => []EditsAreDetected
<1>1. Init => DenseInv /\ EditInv
  <2> SUFFICES ASSUME Init PROVE DenseInv /\ EditInv
    OBVIOUS
  <2>1. DenseInv
    BY BatchInit
  <2>2. edits = 0 /\ \A c \in Connections : seen[c].rows = {}
    BY DEF Init, Empty
  <2> QED BY <2>1, <2>2 DEF EditInv
<1>2. IInv /\ DenseInv /\ EditInv /\ [Next]_vars => DenseInv' /\ EditInv'
  BY DenseStep, EditStep
<1>3. IInv /\ EditInv => EditsAreDetected
  <2> SUFFICES ASSUME IInv, EditInv, edits > 0, Verify(db.rows) PROVE FALSE
    BY DEF EditsAreDetected
  <2>1. PICK g \in Nat : GapAt(db.rows, g)
    BY DEF EditInv, Verify, Gapped
  <2>2. PICK s \in db.rows : s.idx = g + 1
    BY <2>1 DEF GapAt
  <2>3. PICK u \in db.rows : u.idx + 1 = s.idx
    BY <2>2 DEF Verify, Linked
  <2>4. u.idx \in Nat
    BY DEF IInv, TypeOK
  <2> QED BY <2>1, <2>2, <2>3, <2>4 DEF GapAt
<1> QED BY <1>1, <1>2, <1>3, InvAlways, PTL DEF Spec


-----------------------------------------------------------------------------
(* Attestation.  What a quorum says of a height follows from the number of  *)
(* the witnesses that are honest alone, because every witness counts once.  *)

\* Two histories that pass the chain's verify and have a hash in common are the
\* same up to there: a record's hash is also made of the one before.
THEOREM HashTellsHistory ==
    ASSUME NEW rows, NEW other, Verify(rows), Verify(other),
           \A r \in rows \cup other : r.idx \in Nat,
           NEW r \in rows, NEW s \in other, r.hash = s.hash
    PROVE  \A q \in rows : q.idx <= r.idx => \E p \in other : p.hash = q.hash
<1> DEFINE Same(u, v) == \A q \in rows : q.idx <= u.idx => \E p \in other : p.hash = q.hash
           T == {n \in Nat : \A u \in rows, v \in other :
                    u.idx = n /\ u.hash = v.hash => Same(u, v)}
<1>0. Linked(rows) /\ Linked(other) /\ \A u \in rows \cup other : Authentic(u)
  BY DEF Verify
<1>1. 0 \in T
  <2> SUFFICES ASSUME NEW u \in rows, NEW v \in other, u.idx = 0, u.hash = v.hash,
                      NEW q \in rows, q.idx <= 0
               PROVE  q = u
    OBVIOUS
  <2>1. q.idx = u.idx
    OBVIOUS
  <2> QED BY <1>0, <2>1 DEF Linked
<1>2. ASSUME NEW n \in T PROVE n + 1 \in T
  <2> SUFFICES ASSUME NEW u \in rows, NEW v \in other, u.idx = n + 1, u.hash = v.hash,
                      NEW q \in rows, q.idx <= n + 1
               PROVE  \E p \in other : p.hash = q.hash
    OBVIOUS
  <2>1. CASE q.idx = n + 1
    <3>1. q = u
      BY <1>0, <2>1 DEF Linked
    <3> QED BY <3>1
  <2>2. CASE q.idx # n + 1
    <3>1. u.idx # 0 /\ q.idx <= n
      BY <2>2
    <3>2. PICK t \in rows : t.idx + 1 = u.idx /\ t.hash = u.prior
      BY <1>0, <3>1 DEF Linked
    <3>3. v.idx = u.idx /\ v.prior = u.prior
      <4>1. u.hash = <<u.idx, u.prior, u.type, u.target>>
        BY <1>0 DEF Authentic
      <4>2. v.hash = <<v.idx, v.prior, v.type, v.target>>
        BY <1>0 DEF Authentic
      <4>3. <<u.idx, u.prior, u.type, u.target>> = <<v.idx, v.prior, v.type, v.target>>
        BY <4>1, <4>2
      <4> QED BY <4>3
    <3>4. PICK w \in other : w.hash = v.prior
      BY <1>0, <3>1, <3>3 DEF Linked
    <3>5. t.idx = n /\ t.hash = w.hash
      BY <3>2, <3>3, <3>4
    <3>6. Same(t, w)
      BY <3>5
    <3> QED BY <3>1, <3>5, <3>6
  <2> QED BY <2>1, <2>2
<1>3. T = Nat
  <2> HIDE DEF T
  <2>1. T \in SUBSET Nat
    BY DEF T
  <2> QED BY <1>1, <1>2, <2>1, Induction
<1>4. Same(r, s)
  BY <1>3
<1> QED BY <1>4

\* The lines that agree at a height.
Votes(config, actual, file, h) ==
    {i \in Counted(file, h) : Agrees(config, file[i], actual)}

\* There are as many as there are witnesses who wrote them.
LEMMA VotesAreWitnesses ==
    ASSUME NEW config, NEW actual, NEW file, DOMAIN file = 1..Len(file), Len(file) \in Nat,
           NEW h
    PROVE  LET V == Votes(config, actual, file, h)
               W == {file[i].witness : i \in V}
           IN  IsFiniteSet(W) /\ Cardinality(V) = Cardinality(W) /\ W \subseteq Range(config.witnesses)
<1> DEFINE V == Votes(config, actual, file, h)
           W == {file[i].witness : i \in V}
           f == [i \in V |-> file[i].witness]
<1>1. V \in SUBSET (1..Len(file))
  BY DEF Votes, Counted
<1>2. IsFiniteSet(V)
  <2>1. IsFiniteSet(1..Len(file))
    BY FS_Interval
  <2> HIDE DEF V
  <2> QED BY <1>1, <2>1, FS_Subset
<1>3. \A i, j \in V : file[i].witness = file[j].witness => i = j
  <2> SUFFICES ASSUME NEW i \in V, NEW j \in V, file[i].witness = file[j].witness, i < j
               PROVE  FALSE
    BY <1>1
  <2>1. i \in 1..(j - 1)
    BY <1>1
  <2> QED BY <2>1 DEF Votes, Counted
<1>4. f \in Bijection(V, W)
  <2> HIDE DEF V
  <2>1. f \in [V -> W]
    OBVIOUS
  <2>2. f \in Injection(V, W)
    BY <1>3, <2>1 DEF Injection, IsInjective
  <2>3. \A w \in W : \E i \in V : f[i] = w
    OBVIOUS
  <2> QED BY <2>1, <2>2, <2>3 DEF Bijection, Surjection
<1>5. W \subseteq Range(config.witnesses)
  BY DEF Votes, Agrees
<1>6. ExistsBijection(V, W)
  BY <1>4 DEF ExistsBijection
<1> HIDE DEF V, W
<1>7. IsFiniteSet(W) /\ Cardinality(W) = Cardinality(V)
  BY <1>2, <1>6, FS_Bijection
<1> QED BY <1>5, <1>7 DEF V, W

\* The lines of these witnesses are those they wrote about what they saw, and they
\* wrote about every height there is a line about.
HonestLines(honest, file, saw) ==
    /\ \A i \in DOMAIN file : file[i].witness \in honest =>
         file[i] = Line(file[i].witness, file[i].height, saw[file[i].height])
    /\ \A h \in Heights(file), w \in honest :
         \E i \in DOMAIN file : file[i].witness = w /\ file[i].height = h

\* Of an honest witness a line is counted, and it agrees with what was seen only.
LEMMA HonestVote ==
    ASSUME NEW config, NEW honest, honest \subseteq Range(config.witnesses),
           NEW file, DOMAIN file = 1..Len(file), Len(file) \in Nat,
           NEW saw, HonestLines(honest, file, saw), NEW actual,
           NEW h \in Heights(file), NEW w \in honest
    PROVE  (\E i \in Votes(config, actual, file, h) : file[i].witness = w)
             <=> h \in DOMAIN actual /\ saw[h] = actual[h]
<1> DEFINE T == {i \in 1..Len(file) : file[i].witness = w /\ file[i].height = h}
<1>1. T \in SUBSET Nat /\ T # {}
  BY DEF HonestLines
<1>2. PICK i \in T : \A k \in T : i <= k
  <2> HIDE DEF T
  <2> QED BY <1>1, LeastNumber
<1>3. i \in Counted(file, h)
  <2>1. ASSUME NEW k \in 1..(i - 1), file[k].height = h PROVE file[k].witness # w
    <3>1. k \in 1..Len(file) /\ ~(i <= k)
      BY <1>2
    <3> QED BY <1>2, <2>1, <3>1
  <2> QED BY <1>2, <2>1 DEF Counted
<1>4. \A j \in T : file[j] = Line(w, h, saw[h])
  BY DEF HonestLines
<1>5. \A j \in T : Agrees(config, file[j], actual) <=> h \in DOMAIN actual /\ saw[h] = actual[h]
  BY <1>4 DEF Agrees, Line
<1>6. \A j \in Votes(config, actual, file, h) : file[j].witness = w => j \in T /\ Agrees(config, file[j], actual)
  BY DEF Votes, Counted
<1> QED BY <1>2, <1>3, <1>5, <1>6 DEF Votes

\* As long as enough witnesses are honest, and too few are not, verify tells whether
\* the chain has at every attested height the record that was attested, whatever the
\* others did to their lines (Quorum.verify).
THEOREM QuorumTells ==
    ASSUME NEW config, config.quorum \in Nat, IsFiniteSet(Range(config.witnesses)),
           NEW honest \in SUBSET Range(config.witnesses),
           Cardinality(honest) >= config.quorum,
           Cardinality(Range(config.witnesses) \ honest) < config.quorum,
           NEW file, DOMAIN file = 1..Len(file), Len(file) \in Nat,
           NEW saw, HonestLines(honest, file, saw), NEW actual, NEW chainOk \in BOOLEAN
    PROVE  QuorumVerify(config, chainOk, actual, file)
             <=> chainOk /\ \A h \in Heights(file) : h \in DOMAIN actual /\ actual[h] = saw[h]
<1> SUFFICES ASSUME NEW h \in Heights(file)
             PROVE  Cardinality(Votes(config, actual, file, h)) >= config.quorum
                      <=> h \in DOMAIN actual /\ actual[h] = saw[h]
  BY DEF QuorumVerify, Votes
<1> DEFINE W == {file[i].witness : i \in Votes(config, actual, file, h)}
           all == Range(config.witnesses)
<1>1. IsFiniteSet(W) /\ Cardinality(Votes(config, actual, file, h)) = Cardinality(W) /\ W \subseteq all
  BY VotesAreWitnesses
<1>2. \A w \in honest : w \in W <=> h \in DOMAIN actual /\ actual[h] = saw[h]
  BY HonestVote
<1>3. IsFiniteSet(honest) /\ IsFiniteSet(all \ honest)
  BY FS_Subset
<1> HIDE DEF W, all
<1>4. Cardinality(W) \in Nat /\ Cardinality(honest) \in Nat /\ Cardinality(all \ honest) \in Nat
  BY <1>1, <1>3, FS_CardinalityType
<1>5. CASE h \in DOMAIN actual /\ actual[h] = saw[h]
  <2>1. honest \in SUBSET W
    BY <1>2, <1>5
  <2>2. Cardinality(honest) <= Cardinality(W)
    BY <1>1, <2>1, FS_Subset
  <2> QED BY <1>1, <1>4, <1>5, <2>2
<1>6. CASE ~(h \in DOMAIN actual /\ actual[h] = saw[h])
  <2>1. W \in SUBSET (all \ honest)
    BY <1>1, <1>2, <1>6
  <2>2. Cardinality(W) <= Cardinality(all \ honest)
    BY <1>3, <2>1, FS_Subset
  <2> QED BY <1>1, <1>4, <1>6, <2>2 DEF all
<1> QED BY <1>5, <1>6


\* The file after each of the attestations.
AreFiles(f, config, heights, actual) ==
    f = [n \in 0..Len(heights) |->
            IF n = 0 THEN <<>>
            ELSE Attest(config, f[n - 1], heights[n], actual[heights[n]])]

LEMMA AttestedStep ==
    ASSUME NEW config, NEW heights, Len(heights) \in Nat, NEW actual
    PROVE  \E f : /\ AreFiles(f, config, heights, actual)
                  /\ Attested(config, heights, actual) = f[Len(heights)]
<1> DEFINE Next1(file, n) == Attest(config, file, heights[n], actual[heights[n]])
           Ok(f, n) == f = [k \in 0..n |-> IF k = 0 THEN <<>> ELSE Next1(f[k - 1], k)]
           T == {n \in Nat : \E f : Ok(f, n)}
<1>1. 0 \in T
  <2>1. PICK f : f = [k \in 0..0 |-> <<>>]
    OBVIOUS
  <2>2. Ok(f, 0)
    BY <2>1
  <2> QED BY <2>2
<1>2. ASSUME NEW n \in T PROVE n + 1 \in T
  <2>1. PICK f : Ok(f, n)
    OBVIOUS
  <2> HIDE DEF Next1
  <2>2. PICK g : g = [k \in 0..(n + 1) |-> IF k = n + 1 THEN Next1(f[n], n + 1) ELSE f[k]]
    OBVIOUS
  <2>3. \A k \in 0..(n + 1) : g[k] = IF k = 0 THEN <<>> ELSE Next1(g[k - 1], k)
    <3>1. ASSUME NEW k \in 0..n PROVE g[k] = IF k = 0 THEN <<>> ELSE Next1(g[k - 1], k)
      <4>1. g[k] = f[k] /\ (k # 0 => g[k - 1] = f[k - 1])
        BY <2>2
      <4> QED BY <2>1, <4>1
    <3>2. g[n + 1] = Next1(g[n], n + 1) /\ n + 1 # 0 /\ (n + 1) - 1 = n
      BY <2>2
    <3>3. \A k \in 0..(n + 1) : k \in 0..n \/ k = n + 1
      OBVIOUS
    <3> QED BY <3>1, <3>2, <3>3
  <2>4. g = [k \in 0..(n + 1) |-> g[k]]
    BY <2>2
  <2>5. [k \in 0..(n + 1) |-> g[k]]
          = [k \in 0..(n + 1) |-> IF k = 0 THEN <<>> ELSE Next1(g[k - 1], k)]
    BY <2>3
  <2>6. Ok(g, n + 1)
    BY <2>4, <2>5
  <2> HIDE DEF Ok
  <2> QED BY <2>6
<1>3. \E f : Ok(f, Len(heights))
  <2>1. T = Nat
    <3> HIDE DEF T
    <3>1. T \in SUBSET Nat
      BY DEF T
    <3> QED BY <1>1, <1>2, <3>1, Induction
  <2> QED BY <2>1
<1>4. DEFINE file == CHOOSE f : Ok(f, Len(heights))
<1>5. Ok(file, Len(heights))
  <2> HIDE DEF Ok
  <2> QED BY <1>3
<1>6. Attested(config, heights, actual) = file[Len(heights)]
  BY DEF Attested
<1>7. AreFiles(file, config, heights, actual)
  BY <1>5 DEF AreFiles
<1> HIDE DEF file
<1> QED BY <1>6, <1>7

LEMMA ConcatFacts ==
    ASSUME NEW S, NEW s \in Seq(S), NEW t \in Seq(S)
    PROVE  /\ s \o t \in Seq(S) /\ DOMAIN (s \o t) = 1..(Len(s) + Len(t))
           /\ \A i \in DOMAIN s : i \in DOMAIN (s \o t) /\ (s \o t)[i] = s[i]
           /\ \A i \in 1..Len(t) : Len(s) + i \in DOMAIN (s \o t) /\ (s \o t)[Len(s) + i] = t[i]
OBVIOUS

\* The lines that attestations of these heights write.
LinesFor(config, heights, actual) ==
    {Line(w, h, actual[h]) : w \in Range(config.witnesses), h \in Range(heights)}

\* Every line of the file is one of them, and every one is in it.
LEMMA AttestedFile ==
    ASSUME NEW config, config.witnesses \in Seq(Range(config.witnesses)),
           NEW heights, Len(heights) \in Nat, DOMAIN heights = 1..Len(heights), NEW actual
    PROVE  LET file == Attested(config, heights, actual) IN
           /\ file \in Seq(LinesFor(config, heights, actual))
           /\ \A line \in LinesFor(config, heights, actual) : \E i \in DOMAIN file : file[i] = line
<1>1. PICK f : /\ AreFiles(f, config, heights, actual)
               /\ Attested(config, heights, actual) = f[Len(heights)]
  BY AttestedStep
<1> DEFINE L == LinesFor(config, heights, actual)
           N == Len(heights)
           Has(file, n) == \A k \in 1..n, w \in Range(config.witnesses) :
               \E i \in DOMAIN file : file[i] = Line(w, heights[k], actual[heights[k]])
           T == {n \in Nat : n <= N => f[n] \in Seq(L) /\ Has(f[n], n)}
<1>2. 0 \in T
  <2>1. f[0] = <<>>
    BY <1>1 DEF AreFiles
  <2>2. Has(<<>>, 0)
    OBVIOUS
  <2>3. <<>> \in Seq(L)
    OBVIOUS
  <2> QED BY <2>1, <2>2, <2>3
<1>3. ASSUME NEW n \in T PROVE n + 1 \in T
  <2> SUFFICES ASSUME n + 1 <= N PROVE f[n + 1] \in Seq(L) /\ Has(f[n + 1], n + 1)
    OBVIOUS
  <2> DEFINE h == heights[n + 1]
             new == [i \in DOMAIN config.witnesses |-> Line(config.witnesses[i], h, actual[h])]
  <2>1. n + 1 \in 0..N /\ (n + 1) - 1 = n /\ n + 1 # 0 /\ n <= N
    OBVIOUS
  <2>2. f[n + 1] = f[n] \o new
    <3>1. f[n + 1] = Attest(config, f[n], h, actual[h])
      BY <1>1, <2>1 DEF AreFiles
    <3> QED BY <3>1 DEF Attest
  <2>3. f[n] \in Seq(L) /\ Has(f[n], n)
    BY <2>1
  <2>4. h \in Range(heights)
    BY <2>1 DEF Range
  <2>5. new \in Seq(L) /\ Len(new) = Len(config.witnesses)
    <3>1. DOMAIN config.witnesses = 1..Len(config.witnesses) /\ Len(config.witnesses) \in Nat
      OBVIOUS
    <3>2. ASSUME NEW i \in 1..Len(config.witnesses)
          PROVE  Line(config.witnesses[i], h, actual[h]) \in L
      <4>1. config.witnesses[i] \in Range(config.witnesses)
        BY <3>1 DEF Range
      <4> HIDE DEF h
      <4> QED BY <2>4, <4>1 DEF LinesFor
    <3> HIDE DEF L, h
    <3> QED BY <3>1, <3>2
  <2>6. \A w \in Range(config.witnesses) : \E i \in 1..Len(new) : new[i] = Line(w, h, actual[h])
    BY <2>5 DEF Range
  <2> HIDE DEF new, L
  <2>7. f[n + 1] \in Seq(L)
    <3>1. f[n] \o new \in Seq(L)
      BY <2>3, <2>5, ConcatFacts
    <3> QED BY <2>2, <3>1
  <2>8. \A i \in DOMAIN f[n] : i \in DOMAIN f[n + 1] /\ f[n + 1][i] = f[n][i]
    BY <2>2, <2>3, <2>5, ConcatFacts
  <2>9. \A i \in 1..Len(new) : Len(f[n]) + i \in DOMAIN f[n + 1] /\ f[n + 1][Len(f[n]) + i] = new[i]
    BY <2>2, <2>3, <2>5, ConcatFacts
  <2>10. ASSUME NEW k \in 1..(n + 1), NEW w \in Range(config.witnesses)
         PROVE  \E i \in DOMAIN f[n + 1] : f[n + 1][i] = Line(w, heights[k], actual[heights[k]])
    <3>1. CASE k = n + 1
      BY <2>6, <2>9, <3>1
    <3>2. CASE k # n + 1
      <4>1. PICK i \in DOMAIN f[n] : f[n][i] = Line(w, heights[k], actual[heights[k]])
        <5>1. k \in 1..n
          BY <3>2
        <5> QED BY <2>3, <5>1
      <4> QED BY <2>8, <4>1
    <3> QED BY <3>1, <3>2
  <2> QED BY <2>7, <2>10
<1>4. T = Nat
  <2> HIDE DEF T
  <2>1. T \in SUBSET Nat
    BY DEF T
  <2> QED BY <1>2, <1>3, <2>1, Induction
<1>5. f[N] \in Seq(L) /\ Has(f[N], N)
  <2>1. N \in T
    BY <1>4
  <2> QED BY <2>1
<1>6. \A line \in L : \E k \in 1..N, w \in Range(config.witnesses) :
        line = Line(w, heights[k], actual[heights[k]])
  <2> SUFFICES ASSUME NEW line \in L
               PROVE  \E k \in 1..N, w \in Range(config.witnesses) :
                        line = Line(w, heights[k], actual[heights[k]])
    OBVIOUS
  <2>1. PICK w \in Range(config.witnesses), h \in Range(heights) : line = Line(w, h, actual[h])
    BY DEF LinesFor
  <2>2. PICK k \in 1..N : h = heights[k]
    BY DEF Range
  <2> QED BY <2>1, <2>2
<1>7. \A line \in L : \E i \in DOMAIN f[N] : f[N][i] = line
  <2> SUFFICES ASSUME NEW line \in L PROVE \E i \in DOMAIN f[N] : f[N][i] = line
    OBVIOUS
  <2> HIDE DEF L
  <2>1. PICK k \in 1..N, w \in Range(config.witnesses) :
            line = Line(w, heights[k], actual[heights[k]])
    BY <1>6
  <2> QED BY <1>5, <2>1
<1> HIDE DEF L, Has
<1> QED BY <1>1, <1>5, <1>7 DEF L

AttestsTo(file, heights) == Heights(file) = Range(heights)

\* Of all witnesses but the faulty one, the lines in the file are what they saw.
LEMMA OthersHonest ==
    ASSUME NEW config, config.witnesses \in Seq(Range(config.witnesses)), Len(config.witnesses) > 0,
           NEW heights, Len(heights) \in Nat, DOMAIN heights = 1..Len(heights), NEW actual,
           NEW faulty, NEW fault \in Faults, NEW other,
           NEW file, file = WithFault(Attested(config, heights, actual), faulty, fault, other)
    PROVE  /\ DOMAIN file = 1..Len(file) /\ Len(file) \in Nat
           /\ HonestLines(Range(config.witnesses) \ {faulty}, file, actual)
           /\ AttestsTo(file, heights)
<1> DEFINE orig == Attested(config, heights, actual)
           L == LinesFor(config, heights, actual)
<1>1. orig \in Seq(L) /\ \A line \in L : \E i \in DOMAIN orig : orig[i] = line
  BY AttestedFile
<1>2. DOMAIN file = 1..Len(file) /\ Len(file) \in Nat /\ DOMAIN file = DOMAIN orig
  <2>1. file = [i \in DOMAIN orig |-> Turned(orig[i], faulty, fault, other)]
    BY DEF WithFault
  <2>2. DOMAIN orig = 1..Len(orig) /\ Len(orig) \in Nat
    BY <1>1
  <2> HIDE DEF orig
  <2> QED BY <2>1, <2>2
<1>3. \A i \in DOMAIN orig : file[i] = Turned(orig[i], faulty, fault, other) /\ orig[i] \in L
  BY <1>1 DEF WithFault
<1> HIDE DEF orig
<1>4. \A line \in L : /\ Turned(line, faulty, fault, other).height = line.height
                      /\ Turned(line, faulty, fault, other).witness = line.witness
                      /\ line.witness # faulty => Turned(line, faulty, fault, other) = line
  <2> SUFFICES ASSUME NEW line \in L
               PROVE  /\ Turned(line, faulty, fault, other).height = line.height
                      /\ Turned(line, faulty, fault, other).witness = line.witness
                      /\ line.witness # faulty => Turned(line, faulty, fault, other) = line
    OBVIOUS
  <2>1. PICK w \in Range(config.witnesses), h \in Range(heights) : line = Line(w, h, actual[h])
    BY DEF LinesFor
  <2>2. fault = "none" \/ fault = "broken" \/ fault = "equivocates"
    BY DEF Faults
  <2> QED BY <2>1, <2>2 DEF Turned, Line
<1>5. \A line \in L : /\ line.witness \in Range(config.witnesses) /\ line.height \in Range(heights)
                      /\ line = Line(line.witness, line.height, actual[line.height])
  BY DEF LinesFor, Line
<1>6. \A w \in Range(config.witnesses), h \in Range(heights) :
        \E i \in DOMAIN orig : orig[i].witness = w /\ orig[i].height = h
  <2> SUFFICES ASSUME NEW w \in Range(config.witnesses), NEW h \in Range(heights)
               PROVE  \E i \in DOMAIN orig : orig[i].witness = w /\ orig[i].height = h
    OBVIOUS
  <2>1. Line(w, h, actual[h]) \in L
    BY DEF LinesFor
  <2>2. PICK i \in DOMAIN orig : orig[i] = Line(w, h, actual[h])
    BY <1>1, <2>1
  <2> QED BY <2>2 DEF Line
<1> HIDE DEF L
<1>7. Heights(file) \subseteq Range(heights)
  BY <1>2, <1>3, <1>4, <1>5 DEF Heights
<1>8. HonestLines(Range(config.witnesses) \ {faulty}, file, actual)
  <2>1. ASSUME NEW i \in DOMAIN file, file[i].witness # faulty
        PROVE  file[i] = Line(file[i].witness, file[i].height, actual[file[i].height])
    BY <1>2, <1>3, <1>4, <1>5, <2>1
  <2>2. ASSUME NEW h \in Heights(file), NEW w \in Range(config.witnesses)
        PROVE  \E i \in DOMAIN file : file[i].witness = w /\ file[i].height = h
    BY <1>2, <1>3, <1>4, <1>6, <1>7
  <2> QED BY <2>1, <2>2 DEF HonestLines
<1>9. Range(heights) \subseteq Heights(file)
  <2>1. config.witnesses[1] \in Range(config.witnesses)
    BY DEF Range
  <2> QED BY <1>2, <1>3, <1>4, <1>6, <2>1 DEF Heights
<1>10. AttestsTo(file, heights)
  BY <1>7, <1>9 DEF AttestsTo
<1> QED BY <1>2, <1>8, <1>10


-----------------------------------------------------------------------------
(* A chain that was rewritten from some index on, and what its hashes are.  *)

AreRows(row, rows, i, last, type) ==
    row = [k \in i..last |->
             Record(k, IF k = i THEN At(rows, i).prior ELSE row[k - 1].hash,
                    IF k = i THEN type ELSE At(rows, k).type, At(rows, k).target)]

LEMMA RewrittenStep ==
    ASSUME NEW rows, NEW last \in Nat, Cardinality(rows) - 1 = last,
           NEW i \in 0..last, NEW type
    PROVE  \E row : /\ AreRows(row, rows, i, last, type)
                    /\ Rewritten(rows, i, type) = Truncated(rows, i) \cup {row[k] : k \in i..last}
<1> DEFINE First1 == Record(i, At(rows, i).prior, type, At(rows, i).target)
           Next1(r, k) == Record(k, r.hash, At(rows, k).type, At(rows, k).target)
           Ok(f, n) == f = [k \in i..(i + n) |-> IF k = i THEN First1 ELSE Next1(f[k - 1], k)]
           T == {n \in Nat : \E f : Ok(f, n)}
<1>1. 0 \in T
  <2>1. PICK f : f = [k \in i..(i + 0) |-> First1]
    OBVIOUS
  <2>2. \A k \in i..(i + 0) : k = i
    OBVIOUS
  <2> HIDE DEF First1, Next1
  <2>3. Ok(f, 0)
    BY <2>1, <2>2
  <2> QED BY <2>3
<1>2. ASSUME NEW n \in T PROVE n + 1 \in T
  <2>1. PICK f : Ok(f, n)
    OBVIOUS
  <2> HIDE DEF First1, Next1
  <2>2. PICK g : g = [k \in i..(i + (n + 1)) |-> IF k = i + (n + 1) THEN Next1(f[i + n], k) ELSE f[k]]
    OBVIOUS
  <2>3. \A k \in i..(i + (n + 1)) : g[k] = IF k = i THEN First1 ELSE Next1(g[k - 1], k)
    <3>1. ASSUME NEW k \in i..(i + n) PROVE g[k] = IF k = i THEN First1 ELSE Next1(g[k - 1], k)
      <4>1. g[k] = f[k] /\ (k # i => g[k - 1] = f[k - 1])
        BY <2>2
      <4> QED BY <2>1, <4>1
    <3>2. /\ i + (n + 1) # i /\ (i + (n + 1)) - 1 = i + n
          /\ g[i + (n + 1)] = Next1(f[i + n], i + (n + 1)) /\ g[i + n] = f[i + n]
      BY <2>2
    <3>3. \A k \in i..(i + (n + 1)) : k \in i..(i + n) \/ k = i + (n + 1)
      OBVIOUS
    <3> QED BY <3>1, <3>2, <3>3
  <2>4. g = [k \in i..(i + (n + 1)) |-> g[k]]
    BY <2>2
  <2>5. [k \in i..(i + (n + 1)) |-> g[k]]
          = [k \in i..(i + (n + 1)) |-> IF k = i THEN First1 ELSE Next1(g[k - 1], k)]
    BY <2>3
  <2>6. Ok(g, n + 1)
    BY <2>4, <2>5
  <2> HIDE DEF Ok
  <2> QED BY <2>6
<1>3. \E f : Ok(f, last - i)
  <2>1. T = Nat
    <3> HIDE DEF T
    <3>1. T \in SUBSET Nat
      BY DEF T
    <3> QED BY <1>1, <1>2, <3>1, Induction
  <2>2. last - i \in Nat
    OBVIOUS
  <2> QED BY <2>1, <2>2
<1>4. \E f : AreRows(f, rows, i, last, type)
  <2> DEFINE Row(f, k) == Record(k, IF k = i THEN At(rows, i).prior ELSE f[k - 1].hash,
                                 IF k = i THEN type ELSE At(rows, k).type, At(rows, k).target)
  <2>1. PICK f : Ok(f, last - i)
    BY <1>3
  <2>2. i + (last - i) = last
    OBVIOUS
  <2>3. \A k \in i..last : Row(f, k) = IF k = i THEN First1 ELSE Next1(f[k - 1], k)
    OBVIOUS
  <2>4. f = [k \in i..last |-> IF k = i THEN First1 ELSE Next1(f[k - 1], k)]
    <3> HIDE DEF First1, Next1
    <3> QED BY <2>1, <2>2
  <2> HIDE DEF First1, Next1, Row
  <2>5. f = [k \in i..last |-> Row(f, k)]
    BY <2>3, <2>4
  <2> QED BY <2>5 DEF AreRows, Row
<1> DEFINE row == CHOOSE f : AreRows(f, rows, i, last, type)
<1>5. AreRows(row, rows, i, last, type)
  BY <1>4
<1>6. Rewritten(rows, i, type) = Truncated(rows, i) \cup {row[k] : k \in i..last}
  BY DEF Rewritten, Truncated, AreRows
<1> HIDE DEF row
<1> QED BY <1>5, <1>6

LEMMA AtIs ==
    ASSUME NEW rows, Linked(rows), NEW r \in rows
    PROVE  At(rows, r.idx) = r
BY DEF At, Linked

\* What is recomputed of a chain that verifies are the hashes it has.
LEMMA ActualIs ==
    ASSUME NEW rows, Verify(rows)
    PROVE  /\ DOMAIN Actual(rows) = {r.idx : r \in rows}
           /\ \A r \in rows : Actual(rows)[r.idx] = r.hash
<1>1. DOMAIN Actual(rows) = {r.idx : r \in rows}
  BY DEF Actual
<1>2. ASSUME NEW r \in rows PROVE Actual(rows)[r.idx] = r.hash
  <2>1. At(rows, r.idx) = r /\ r.hash = <<r.idx, r.prior, r.type, r.target>>
    BY AtIs DEF Verify, Authentic
  <2>2. Actual(rows)[r.idx] = LET s == At(rows, r.idx) IN <<s.idx, s.prior, s.type, s.target>>
    BY DEF Actual
  <2> QED BY <2>1, <2>2
<1> QED BY <1>1, <1>2

\* Up to an index a chain is one, too.
LEMMA TruncatedFacts ==
    ASSUME NEW rows, NEW last \in Nat, IsInterval(rows, 0, last), Verify(rows), NEW i \in 0..last
    PROVE  LET other == Truncated(rows, i) IN
           /\ Verify(other)
           /\ \A h \in 0..last : (h \in DOMAIN Actual(other) /\ Actual(other)[h] = Actual(rows)[h]) <=> h < i
<1> DEFINE other == Truncated(rows, i)
<1>0. \A r \in rows : r.idx \in 0..last
  BY DEF IsInterval
<1>1. other \subseteq rows /\ \A r \in rows : r \in other <=> r.idx < i
  BY DEF Truncated
<1>2. Verify(other)
  <2>1. \A r \in other : Authentic(r)
    BY <1>1 DEF Verify
  <2>2. \A r, s \in other : r.idx = s.idx => r = s
    BY <1>1 DEF Verify, Linked
  <2>3. ASSUME NEW r \in other PROVE Follows(r, other)
    <3>1. CASE r.idx = 0 /\ r.prior = Genesis
      BY <3>1 DEF Follows
    <3>2. CASE \E s \in rows : s.idx + 1 = r.idx /\ s.hash = r.prior
      <4>1. PICK s \in rows : s.idx + 1 = r.idx /\ s.hash = r.prior
        BY <3>2
      <4>2. s \in other
        BY <1>0, <1>1, <4>1
      <4> QED BY <4>1, <4>2 DEF Follows
    <3> QED BY <1>1, <3>1, <3>2 DEF Verify, Linked
  <2> QED BY <2>1, <2>2, <2>3 DEF Verify, Linked, Follows
<1> HIDE DEF other
<1>3. ASSUME NEW h \in 0..last
      PROVE  (h \in DOMAIN Actual(other) /\ Actual(other)[h] = Actual(rows)[h]) <=> h < i
  <2>1. PICK r \in rows : r.idx = h
    BY DEF IsInterval
  <2>2. CASE h < i
    <3>1. r \in other
      BY <1>1, <2>1, <2>2
    <3> QED BY <1>2, <2>1, <2>2, <3>1, ActualIs, ZenonT(60)
  <2>3. CASE ~(h < i)
    <3>1. \A s \in other : s.idx # h
      BY <1>1, <2>3
    <3>2. h \notin {s.idx : s \in other}
      BY <3>1
    <3>3. DOMAIN Actual(other) = {s.idx : s \in other}
      BY <1>2, ActualIs
    <3> QED BY <2>3, <3>2, <3>3
  <2> QED BY <2>2, <2>3
<1> QED BY <1>2, <1>3 DEF other

\* A rewritten chain passes the chain's verify, but from the changed record on every
\* hash is another one.
LEMMA RewrittenFacts ==
    ASSUME NEW rows, NEW last \in Nat, IsInterval(rows, 0, last), Verify(rows), NEW i \in 0..last,
           NEW type, type # At(rows, i).type
    PROVE  LET other == Rewritten(rows, i, type) IN
           /\ Verify(other)
           /\ \A h \in 0..last : (h \in DOMAIN Actual(other) /\ Actual(other)[h] = Actual(rows)[h]) <=> h < i
<1> DEFINE other == Rewritten(rows, i, type)
           low == Truncated(rows, i)
<1>0. /\ \A r \in rows : r.idx \in 0..last
      /\ \A k \in 0..last : At(rows, k) \in rows /\ At(rows, k).idx = k
  BY DEF IsInterval, At
<1>1. Cardinality(rows) - 1 = last
  <2>1. Cardinality(rows) = last - 0 + 1
    BY IntervalSize
  <2> QED BY <2>1
<1>2. PICK row : AreRows(row, rows, i, last, type) /\ other = low \cup {row[k] : k \in i..last}
  BY <1>1, RewrittenStep
<1>3. \A k \in i..last :
        row[k] = Record(k, IF k = i THEN At(rows, i).prior ELSE row[k - 1].hash,
                        IF k = i THEN type ELSE At(rows, k).type, At(rows, k).target)
  BY <1>2 DEF AreRows
<1>4. \A k \in i..last : row[k].idx = k /\ Authentic(row[k])
  BY <1>3, RecordFields
<1>5. row[i].prior = At(rows, i).prior /\ row[i].type = type
  BY <1>3, RecordFields
<1>6. \A k \in i..last : k # i => row[k].prior = row[k - 1].hash
  BY <1>3, RecordFields
<1>7. low \subseteq rows /\ (\A r \in rows : r \in low <=> r.idx < i) /\ Verify(low)
  BY TruncatedFacts DEF Truncated
<1> HIDE DEF other, low
<1>8. \A r, s \in other : r.idx = s.idx => r = s
  <2> SUFFICES ASSUME NEW r \in other, NEW s \in other, r.idx = s.idx PROVE r = s
    OBVIOUS
  <2>1. CASE r \in low /\ s \in low
    BY <1>7, <2>1 DEF Verify, Linked
  <2>2. CASE r \in low /\ s \notin low
    <3>1. PICK k \in i..last : s = row[k]
      BY <1>2, <2>2
    <3>2. r.idx < i /\ r.idx \in Int
      BY <1>0, <1>7, <2>2
    <3> QED BY <1>4, <3>1, <3>2
  <2>3. CASE r \notin low /\ s \in low
    <3>1. PICK k \in i..last : r = row[k]
      BY <1>2, <2>3
    <3>2. s.idx < i /\ s.idx \in Int
      BY <1>0, <1>7, <2>3
    <3> QED BY <1>4, <3>1, <3>2
  <2>4. CASE r \notin low /\ s \notin low
    <3>1. PICK k \in i..last : r = row[k]
      BY <1>2, <2>4
    <3>2. PICK m \in i..last : s = row[m]
      BY <1>2, <2>4
    <3> QED BY <1>4, <3>1, <3>2
  <2> QED BY <2>1, <2>2, <2>3, <2>4
<1>9. ASSUME NEW r \in other PROVE Follows(r, other)
  <2>1. CASE r \in low
    <3>1. Follows(r, low)
      BY <1>7, <2>1 DEF Verify, Linked, Follows
    <3> QED BY <1>2, <3>1, FollowsMore
  <2>2. CASE r = row[i]
    <3>1. Follows(At(rows, i), rows)
      BY <1>0 DEF Verify, Linked, Follows
    <3>2. CASE i = 0 /\ At(rows, i).prior = Genesis
      BY <1>4, <1>5, <2>2, <3>2 DEF Follows
    <3>3. CASE \E s \in rows : s.idx + 1 = i /\ s.hash = At(rows, i).prior
      <4>1. PICK s \in rows : s.idx + 1 = i /\ s.hash = At(rows, i).prior
        BY <3>3
      <4>2. s \in other
        BY <1>0, <1>2, <1>7, <4>1
      <4>3. row[i].idx = i
        BY <1>4
      <4> QED BY <1>5, <2>2, <4>1, <4>2, <4>3 DEF Follows
    <3> QED BY <1>0, <3>1, <3>2, <3>3 DEF Follows
  <2>3. ASSUME NEW k \in i..last, k # i, r = row[k] PROVE Follows(r, other)
    <3>1. k - 1 \in i..last /\ (k - 1) + 1 = k
      BY <2>3
    <3>2. row[k - 1] \in other /\ row[k - 1].idx = k - 1
      BY <1>2, <1>4, <3>1
    <3> QED BY <1>4, <1>6, <2>3, <3>1, <3>2 DEF Follows
  <2>4. r \in low \/ \E k \in i..last : r = row[k]
    BY <1>2
  <2> QED BY <2>1, <2>2, <2>3, <2>4
<1>10. Verify(other)
  <2>1. \A r \in other : Authentic(r)
    BY <1>2, <1>4, <1>7 DEF Verify
  <2> QED BY <1>8, <1>9, <2>1 DEF Verify, Linked, Follows
<1>11. \A k \in i..last : row[k].hash # At(rows, k).hash
  <2> DEFINE T == {n \in Nat : i + n <= last => row[i + n].hash # At(rows, i + n).hash}
  <2>0. \A r \in rows : r.hash = <<r.idx, r.prior, r.type, r.target>>
    BY DEF Verify, Authentic
  <2>00. \A k \in i..last : row[k].hash = <<row[k].idx, row[k].prior, row[k].type, row[k].target>>
    BY <1>4 DEF Authentic
  <2>1. 0 \in T
    <3>1. i + 0 = i
      OBVIOUS
    <3>2. row[i].hash # At(rows, i).hash
      BY <1>0, <1>5, <2>0, <2>00
    <3> QED BY <3>1, <3>2
  <2>2. ASSUME NEW n \in T PROVE n + 1 \in T
    <3> SUFFICES ASSUME i + (n + 1) <= last PROVE row[i + (n + 1)].hash # At(rows, i + (n + 1)).hash
      OBVIOUS
    <3> DEFINE k == i + (n + 1)
    <3>1. k \in i..last /\ k \in 0..last /\ k # i /\ k - 1 = i + n /\ k - 1 \in 0..last /\ k # 0
      OBVIOUS
    <3>2. row[k - 1].hash # At(rows, k - 1).hash
      BY <3>1
    <3> HIDE DEF k
    <3>3. PICK s \in rows : s.idx + 1 = k /\ s.hash = At(rows, k).prior
      BY <1>0, <3>1 DEF Verify, Linked
    <3>4. s = At(rows, k - 1)
      <4>1. s.idx = k - 1
        BY <1>0, <3>1, <3>3
      <4> QED BY <4>1, AtIs DEF Verify
    <3>5. row[k].prior # At(rows, k).prior
      BY <1>6, <3>1, <3>2, <3>3, <3>4
    <3>6. row[k].hash # At(rows, k).hash
      BY <1>0, <2>0, <2>00, <3>1, <3>5
    <3> QED BY <3>6 DEF k
  <2>3. T = Nat
    <3> HIDE DEF T
    <3>1. T \in SUBSET Nat
      BY DEF T
    <3> QED BY <2>1, <2>2, <3>1, Induction
  <2> SUFFICES ASSUME NEW k \in i..last PROVE row[k].hash # At(rows, k).hash
    OBVIOUS
  <2>4. k - i \in Nat /\ i + (k - i) = k
    OBVIOUS
  <2>5. i + (k - i) <= last => row[i + (k - i)].hash # At(rows, i + (k - i)).hash
    BY <2>3, <2>4
  <2> QED BY <2>4, <2>5
<1>12. ASSUME NEW h \in 0..last
       PROVE  (h \in DOMAIN Actual(other) /\ Actual(other)[h] = Actual(rows)[h]) <=> h < i
  <2>1. At(rows, h) \in rows /\ At(rows, h).idx = h
    BY <1>0
  <2>2. Actual(rows)[h] = At(rows, h).hash
    BY <2>1, ActualIs
  <2>3. CASE h < i
    <3>1. At(rows, h) \in other
      BY <1>2, <1>7, <2>1, <2>3
    <3>2. h \in DOMAIN Actual(other) /\ Actual(other)[h] = At(rows, h).hash
      BY <1>10, <2>1, <3>1, ActualIs
    <3> QED BY <2>2, <2>3, <3>2
  <2>4. CASE ~(h < i)
    <3>1. h \in i..last
      BY <2>4
    <3>2. row[h] \in other /\ row[h].idx = h
      BY <1>2, <1>4, <3>1
    <3>3. Actual(other)[h] = row[h].hash
      BY <1>10, <3>2, ActualIs
    <3>4. row[h].hash # At(rows, h).hash
      BY <1>11, <3>1
    <3> QED BY <2>2, <2>4, <3>3, <3>4
  <2> QED BY <2>3, <2>4
<1> QED BY <1>10, <1>12 DEF other


\* A chain that is not empty has a head.
Topped(rows) == rows = {} \/ \E r \in rows : \A s \in rows : s.idx <= r.idx

TopInv == edits = 0 => Topped(db.rows)

LEMMA TopStep == IInv /\ DenseInv /\ TopInv /\ [Next]_vars => TopInv'
<1> SUFFICES ASSUME IInv, DenseInv, TopInv, [Next]_vars, edits' = 0
             PROVE  Topped(db'.rows)
  BY DEF TopInv, Topped
<1>1. edits = 0
  BY RowsStep
<1>2. CASE db'.rows = db.rows
  BY <1>1, <1>2 DEF TopInv, Topped
<1>3. CASE db'.rows # db.rows
  <2>1. PICK r : /\ db'.rows = db.rows \cup {r} /\ r.idx \in Nat
                 /\ Follows(r, db.rows) /\ \A s \in db.rows : s.idx # r.idx
    BY <1>3, RowsStep
  <2>2. Dense(db.rows) /\ \A s \in db.rows : s.idx \in Nat
    BY <1>1 DEF DenseInv, IInv, TypeOK
  <2>3. \A s \in db.rows : s.idx < r.idx
    BY <2>1, <2>2, DenseAdd
  <2>4. \A s \in db'.rows : s.idx <= r.idx
    BY <2>1, <2>2, <2>3
  <2> QED BY <2>1, <2>4 DEF Topped
<1> QED BY <1>2, <1>3

LEMMA ConfigFacts ==
    /\ Config.witnesses \in Seq(Range(Config.witnesses)) /\ Len(Config.witnesses) > 0 /\ Config.quorum \in Nat
    /\ IsFiniteSet(Range(Config.witnesses))
    /\ \A faulty \in Range(Config.witnesses) :
         /\ Cardinality(Range(Config.witnesses) \ {faulty}) >= Config.quorum
         /\ Cardinality(Range(Config.witnesses) \ (Range(Config.witnesses) \ {faulty})) < Config.quorum
<1> DEFINE all == {"w0", "w1", "w2"}
<1>1. Range(Config.witnesses) = all /\ Config.quorum = 2
  <2>1. Config.witnesses = <<"w0", "w1", "w2">> /\ Config.quorum = 2
    BY DEF Config
  <2>2. DOMAIN <<"w0", "w1", "w2">> = {1, 2, 3}
    OBVIOUS
  <2> QED BY <2>1, <2>2 DEF Range
<1>2. IsFiniteSet(all) /\ Cardinality(all) = 3
  <2>1. IsFiniteSet({"w0"}) /\ Cardinality({"w0"}) = 1
    BY FS_Singleton
  <2>2. IsFiniteSet({"w0"} \cup {"w1"}) /\ Cardinality({"w0"} \cup {"w1"}) = 2
    BY <2>1, FS_AddElement
  <2>3. /\ IsFiniteSet(({"w0"} \cup {"w1"}) \cup {"w2"})
        /\ Cardinality(({"w0"} \cup {"w1"}) \cup {"w2"}) = 3
    BY <2>2, FS_AddElement
  <2>4. ({"w0"} \cup {"w1"}) \cup {"w2"} = all
    OBVIOUS
  <2> HIDE DEF all
  <2> QED BY <2>3, <2>4
<1>3. ASSUME NEW w \in all PROVE Cardinality(all \ {w}) = 2 /\ Cardinality(all \ (all \ {w})) = 1
  <2>1. all \ (all \ {w}) = {w}
    OBVIOUS
  <2>2. Cardinality({w}) = 1
    BY FS_Singleton
  <2> HIDE DEF all
  <2>3. Cardinality(all \ {w}) = 2
    BY <1>2, FS_RemoveElement
  <2> QED BY <2>1, <2>2, <2>3
<1>4. Config.witnesses \in Seq(all) /\ Len(Config.witnesses) > 0
  <2>1. Config.witnesses = <<"w0", "w1", "w2">>
    BY DEF Config
  <2>2. <<"w0", "w1", "w2">> \in Seq({"w0", "w1", "w2"}) /\ Len(<<"w0", "w1", "w2">>) = 3
    OBVIOUS
  <2> QED BY <2>1, <2>2
<1> HIDE DEF all
<1>5. ASSUME NEW faulty \in Range(Config.witnesses)
      PROVE  /\ Cardinality(Range(Config.witnesses) \ {faulty}) >= Config.quorum
             /\ Cardinality(Range(Config.witnesses) \ (Range(Config.witnesses) \ {faulty})) < Config.quorum
  <2>1. Cardinality(all \ {faulty}) = 2 /\ Cardinality(all \ (all \ {faulty})) = 1
    BY <1>1, <1>3
  <2> QED BY <1>1, <2>1
<1>6. Config.witnesses \in Seq(Range(Config.witnesses)) /\ Config.quorum \in Nat
  BY <1>1, <1>4
<1>7. IsFiniteSet(Range(Config.witnesses))
  BY <1>1, <1>2
<1> QED BY <1>4, <1>5, <1>6, <1>7

LEMMA ConfigHonest ==
    ASSUME NEW heights, Len(heights) \in Nat, DOMAIN heights = 1..Len(heights), NEW actual,
           NEW faulty, NEW fault \in Faults, NEW other,
           NEW file, file = WithFault(Attested(Config, heights, actual), faulty, fault, other)
    PROVE  /\ DOMAIN file = 1..Len(file) /\ Len(file) \in Nat
           /\ HonestLines(Range(Config.witnesses) \ {faulty}, file, actual)
           /\ AttestsTo(file, heights)
<1>1. Config.witnesses \in Seq(Range(Config.witnesses)) /\ Len(Config.witnesses) > 0
  BY ConfigFacts
<1>2. DOMAIN file = 1..Len(file) /\ Len(file) \in Nat
  BY <1>1, OthersHonest
<1>3. HonestLines(Range(Config.witnesses) \ {faulty}, file, actual)
  BY <1>1, OthersHonest
<1>4. AttestsTo(file, heights)
  BY <1>1, OthersHonest
<1> QED BY <1>2, <1>3, <1>4

\* What QuorumPinsHistory says of one choice of heights, fault and index.
LEMMA PinsAt ==
    ASSUME NEW rows, NEW last \in Nat, IsInterval(rows, 0, last), Verify(rows),
           NEW n \in Nat \ {0}, NEW heights \in [1..n -> 0..last],
           NEW faulty \in Range(Config.witnesses), NEW fault \in Faults, NEW i \in 0..last,
           NEW saw, NEW other, Verify(other),
           \A h \in 0..last : (h \in DOMAIN Actual(other) /\ Actual(other)[h] = Actual(rows)[h]) <=> h < i
    PROVE  LET file == WithFault(Attested(Config, heights, Actual(rows)), faulty, fault, saw) IN
           /\ QuorumVerify(Config, Verify(rows), Actual(rows), file)
           /\ QuorumVerify(Config, Verify(other), Actual(other), file) <=> \A k \in 1..n : heights[k] < i
<1> DEFINE file == WithFault(Attested(Config, heights, Actual(rows)), faulty, fault, saw)
           honest == Range(Config.witnesses) \ {faulty}
<1>1. Len(heights) = n /\ DOMAIN heights = 1..n /\ Len(heights) \in Nat
  OBVIOUS
<1>2. /\ DOMAIN file = 1..Len(file) /\ Len(file) \in Nat
      /\ HonestLines(honest, file, Actual(rows))
      /\ Heights(file) = Range(heights)
  <2>1. DOMAIN heights = 1..Len(heights) /\ Len(heights) \in Nat
    BY <1>1
  <2>2. file = WithFault(Attested(Config, heights, Actual(rows)), faulty, fault, saw)
    OBVIOUS
  <2> HIDE DEF file
  <2>3. DOMAIN file = 1..Len(file) /\ Len(file) \in Nat
    BY <2>1, <2>2, ConfigHonest
  <2>4. HonestLines(honest, file, Actual(rows))
    BY <2>1, <2>2, ConfigHonest
  <2>5. AttestsTo(file, heights)
    BY <2>1, <2>2, ConfigHonest
  <2> QED BY <2>3, <2>4, <2>5 DEF AttestsTo
<1> HIDE DEF file
<1>3. \A actual : \A chainOk \in BOOLEAN :
        QuorumVerify(Config, chainOk, actual, file)
          <=> chainOk /\ \A h \in Heights(file) : h \in DOMAIN actual /\ actual[h] = Actual(rows)[h]
  <2> SUFFICES ASSUME NEW actual, NEW chainOk \in BOOLEAN
               PROVE  QuorumVerify(Config, chainOk, actual, file)
                        <=> chainOk /\ \A h \in Heights(file) :
                                         h \in DOMAIN actual /\ actual[h] = Actual(rows)[h]
    OBVIOUS
  <2>1. honest \in SUBSET Range(Config.witnesses)
    OBVIOUS
  <2>2. /\ Cardinality(honest) >= Config.quorum
        /\ Cardinality(Range(Config.witnesses) \ honest) < Config.quorum
        /\ Config.quorum \in Nat /\ IsFiniteSet(Range(Config.witnesses))
    BY ConfigFacts
  <2> HIDE DEF honest
  <2> QED BY <1>2, <2>1, <2>2, QuorumTells
<1>4. \A h \in Range(heights) : h \in 0..last
  BY DEF Range
<1>5. \A h \in 0..last : h \in DOMAIN Actual(rows)
  <2> SUFFICES ASSUME NEW h \in 0..last PROVE h \in DOMAIN Actual(rows)
    OBVIOUS
  <2>1. PICK r \in rows : r.idx = h
    BY DEF IsInterval
  <2> QED BY <2>1, ActualIs
<1>6. QuorumVerify(Config, Verify(rows), Actual(rows), file)
  <2>1. Verify(rows) \in BOOLEAN
    BY DEF Verify, Linked
  <2> QED BY <1>2, <1>3, <1>4, <1>5, <2>1
<1>7. QuorumVerify(Config, Verify(other), Actual(other), file) <=> \A h \in Range(heights) : h < i
  <2>1. Verify(other) \in BOOLEAN
    BY DEF Verify, Linked
  <2> QED BY <1>2, <1>3, <1>4, <2>1
<1>8. (\A h \in Range(heights) : h < i) <=> \A k \in 1..n : heights[k] < i
  BY <1>1 DEF Range
<1> QED BY <1>6, <1>7, <1>8 DEF file

LEMMA PinsHistory == IInv /\ DenseInv /\ TopInv => QuorumPinsHistory
<1> SUFFICES ASSUME IInv, DenseInv, TopInv, edits = 0, db.rows # {}
             PROVE  QuorumPinsHistory
  BY DEF QuorumPinsHistory
<1> DEFINE last == Cardinality(db.rows) - 1
<1>1. Linked(db.rows) /\ Verify(db.rows) /\ Dense(db.rows) /\ \A r \in db.rows : r.idx \in Nat
  BY DEF IInv, RowsInv, Verify, Sound, DenseInv, TypeOK
<1>2. PICK top \in db.rows : \A s \in db.rows : s.idx <= top.idx
  BY DEF TopInv, Topped
<1>3. IsInterval(db.rows, 0, top.idx)
  BY <1>1, <1>2 DEF IsInterval, Linked, Dense
<1>4. last = top.idx /\ last \in Nat
  <2>1. Cardinality(db.rows) = top.idx - 0 + 1
    BY <1>1, <1>3, IntervalSize
  <2> QED BY <1>1, <2>1
<1>5. IsInterval(db.rows, 0, last)
  BY <1>3, <1>4
<1> HIDE DEF last
<1> SUFFICES ASSUME NEW n \in 1..MaxAttested, NEW heights \in [1..n -> 0..last],
                    NEW faulty \in Range(Config.witnesses), NEW fault \in Faults, NEW i \in 0..last
             PROVE  LET forged == Rewritten(db.rows, i, OtherType(At(db.rows, i).type))
                        file == WithFault(Attested(Config, heights, Actual(db.rows)),
                                          faulty, fault, Actual(forged))
                    IN
                    /\ QuorumVerify(Config, Verify(db.rows), Actual(db.rows), file)
                    /\ \A other \in {forged, Truncated(db.rows, i)} :
                        /\ Verify(other)
                        /\ QuorumVerify(Config, Verify(other), Actual(other), file)
                             <=> \A k \in 1..n : heights[k] < i
  BY DEF QuorumPinsHistory, last
<1> DEFINE type == OtherType(At(db.rows, i).type)
           forged == Rewritten(db.rows, i, type)
           Apart(other) == \A h \in 0..last :
             (h \in DOMAIN Actual(other) /\ Actual(other)[h] = Actual(db.rows)[h]) <=> h < i
<1>6. type # At(db.rows, i).type
  BY DEF OtherType
<1>7. Verify(forged) /\ Apart(forged)
  <2> HIDE DEF type
  <2> QED BY <1>1, <1>4, <1>5, <1>6, RewrittenFacts
<1>8. Verify(Truncated(db.rows, i)) /\ Apart(Truncated(db.rows, i))
  BY <1>1, <1>4, <1>5, TruncatedFacts
<1>9. n \in Nat \ {0}
  BY DEF MaxAttested
<1> DEFINE file == WithFault(Attested(Config, heights, Actual(db.rows)), faulty, fault, Actual(forged))
<1> HIDE DEF forged
<1>10. ASSUME NEW other, Verify(other), Apart(other)
       PROVE  /\ QuorumVerify(Config, Verify(db.rows), Actual(db.rows), file)
              /\ QuorumVerify(Config, Verify(other), Actual(other), file)
                   <=> \A k \in 1..n : heights[k] < i
  BY <1>1, <1>4, <1>5, <1>9, <1>10, PinsAt
<1> HIDE DEF file, Apart
<1>11. /\ QuorumVerify(Config, Verify(db.rows), Actual(db.rows), file)
       /\ \A other \in {forged, Truncated(db.rows, i)} :
            /\ Verify(other)
            /\ QuorumVerify(Config, Verify(other), Actual(other), file)
                 <=> \A k \in 1..n : heights[k] < i
  BY <1>7, <1>8, <1>10
<1> QED BY <1>11 DEF file, forged, type

\* Whatever happens to the lines of one witness, what was attested of the chain goes on
\* verifying, and no history that differs at or below an attested height does.
THEOREM QuorumStandsBy == Spec => []QuorumPinsHistory
<1>1. Init => DenseInv /\ TopInv
  <2>1. Init => DenseInv
    BY BatchInit
  <2>2. Init => TopInv
    BY DEF Init, Empty, TopInv, Topped
  <2> QED BY <2>1, <2>2
<1>2. IInv /\ DenseInv /\ TopInv /\ [Next]_vars => DenseInv' /\ TopInv'
  BY DenseStep, TopStep
<1> QED BY <1>1, <1>2, InvAlways, PinsHistory, PTL DEF Spec
=============================================================================
