-------------------------- MODULE TaskChain_proofs --------------------------
(***************************************************************************)
(* Theorems about a task: its chain, and the store of its embeddings.      *)
(*                                                                         *)
(* The store.  Rows that are not committed belong to records whose         *)
(* embedding was cut short, and so does what is committed and not in the   *)
(* matrix (RowsInv); a re-embedding, which writes rows in batches, has     *)
(* written every row, has it still to write, or has given its record up.   *)
(*                                                                         *)
(* The chain.  Between two chunks of a file the call carries the head's    *)
(* state and the cache is behind; at every other time the cache, once it   *)
(* is filled, is the head's state, unless an append raised (CountInv).     *)
(* Text, hash and number of chunks are of one version unless the file was  *)
(* edited between two readings (ReadInv); then what is sealed of the file  *)
(* in progress is a prefix of its chunks (PartInv), and every file that is *)
(* not known to be cut ends with all of them (WholeInv).                   *)
(*                                                                         *)
(* Nothing is used there of how a text is cut, not even into how many      *)
(* chunks.  That the chunks of every text are the text, none too large and *)
(* none ended too early, is proved by itself at the end of the module.     *)
(***************************************************************************)
EXTENDS TaskChain, FiniteSetTheorems, WellFoundedInduction, TLAPS

States == [open: BOOLEAN, blocks: Nat, items: Nat]

\* The parts of the state that are records.
CallLike(o) ==
    /\ o = [kind |-> o.kind, at |-> o.at, then |-> o.then, todo |-> o.todo,
            chunk |-> o.chunk, read |-> o.read, st |-> o.st, left |-> o.left,
            failed |-> o.failed]
    /\ o.chunk \in Nat \ {0} /\ o.st \in States
    /\ o.then \in {"idle", "index", "seal"}

StoreLike(s) == s = [id |-> s.id, rows |-> s.rows]

IndexLike(x) ==
    /\ x = [open |-> x.open, pending |-> x.pending, built |-> x.built, matrix |-> x.matrix]
    /\ x.built \in BOOLEAN

Shape ==
    /\ CallLike(op) /\ StoreLike(store) /\ IndexLike(index)
    /\ cached \in States
    /\ Len(ring) \in Nat /\ ring = [i \in 1..Len(ring) |-> ring[i]]
    /\ \A i \in 1..Len(ring) : ring[i].st \in States

Pairs == (1..Len(ring)) \X (1..Pieces)

RowsInv ==
    /\ store.rows \subseteq Pairs /\ index.pending \subseteq Pairs
    /\ op.at # "batch" => op.left \subseteq 1..Len(ring)
    /\ op.at = "batch" =>
        /\ op.kind = "reembed" /\ op.left \subseteq Pairs
        /\ ~index.built /\ index.pending = {} /\ torn = {}
        /\ \A p \in Pairs : p \in store.rows \/ p \in op.left \/ p[1] \in op.failed
    /\ \A p \in index.pending : p[1] \in torn
    /\ index.built => /\ index.matrix \subseteq Visible
                      /\ \A p \in Visible \ index.matrix : p[1] \in torn
    /\ op.at # "batch" => \A i \in (1..Len(ring)) \ torn :
                            RowsOf(i, store.rows) \in {{}, Whole(i)}

\* What the count over the chain gives up to record k.
Done(k) == {i \in 1..k : ring[i].kind = "continuum" /\ \A j \in Opens(k) : j < i}
Ended(k) == {i \in Done(k) : ring[i].chunk = ring[i].of}

Tells(k) == /\ ring[k].st.open
            /\ ring[k].st.blocks = Cardinality(Done(k))
            /\ ring[k].st.items = Cardinality(Ended(k))

CountInv ==
    /\ ~raised => \A k \in 1..Len(ring) : Tells(k)
    /\ ~raised /\ cached.open /\ op.chunk = 1 => Len(ring) > 0 /\ cached = HeadState
    /\ op.chunk > 1 => /\ op.at = "seal" /\ op.todo # <<>>
                       /\ Len(ring) > 0 /\ op.st = HeadState

\* Record i is chunk k of version v of f.
IsChunk(i, f, v, k) ==
    /\ ring[i].kind = "continuum" /\ ring[i].file = f
    /\ ring[i].hash = v /\ ring[i].body = v
    /\ ring[i].chunk = k /\ ring[i].of = Chunks[v]

ReadLike(r) ==
    /\ r = [ver |-> r.ver, hash |-> r.hash, of |-> r.of, streamed |-> r.streamed,
            edited |-> r.edited]
    /\ r.streamed \in BOOLEAN /\ r.edited \in BOOLEAN

\* What was read so far of a file that has not changed since.
ReadTruly(at, r, now) ==
    IF at = "read"
      THEN ~r.streamed /\ IF r.ver = 0 THEN r.hash = now
                          ELSE r.ver = now /\ r.of = Chunks[now]
      ELSE r.hash # 0 =>
            /\ r.hash \in Versions /\ r.of = Chunks[r.hash]
            /\ IF r.streamed THEN r.hash = now /\ r.ver \in {0, now}
               ELSE r.ver = r.hash

Walks == {"walk", "walk_changed"}

Planning(o) == o.at = "plan" \/ (o.kind \in Walks /\ o.at # "seal")

ReadInv ==
    /\ content \in [FileSet -> Versions]
    /\ ReadLike(op.read)
    /\ op.at = "read" => op.kind = "file" /\ op.todo # <<>>
    /\ Planning(op) \/ op.todo = <<>> => op.read.hash = 0
    /\ op.chunk > 1 => op.read.hash # 0
    /\ op.todo # <<>> /\ Head(op.todo) \in FileSet /\ ~op.read.edited =>
            ReadTruly(op.at, op.read, content[Head(op.todo)])

\* What the call has sealed of its file.
PartInv ==
    op.chunk > 1 /\ Head(op.todo) \in FileSet /\ ~op.read.edited =>
        /\ op.chunk - 1 <= Len(ring)
        /\ \A k \in 1..(op.chunk - 1) :
              IsChunk((Len(ring) - (op.chunk - 1)) + k, Head(op.todo), op.read.hash, k)

WholeAt(f, last) ==
    LET v == ring[last].hash IN
    /\ v \in Versions /\ Chunks[v] \in 1..last
    /\ \A k \in 1..Chunks[v] : IsChunk((last - Chunks[v]) + k, f, v, k)

LastOf(f, last) == last \in Blocks(f) /\ \A j \in Blocks(f) : j <= last

InProgress(f) == op.chunk > 1 /\ Head(op.todo) = f

WholeInv ==
    \A f \in FileSet \ cut : \A last \in 1..Len(ring) :
        LastOf(f, last) /\ ~InProgress(f) => WholeAt(f, last)

ChainInv == CountInv /\ PartInv /\ WholeInv

-----------------------------------------------------------------------------
LEMMA LeastNumber ==
    ASSUME NEW T \in SUBSET Nat, T # {}
    PROVE  \E m \in T : \A k \in T : m <= k
<1>1. PICK R : R = OpToRel(<, Nat)
  OBVIOUS
<1>2. IsWellFoundedOn(R, Nat)
  BY <1>1, NatLessThanWellFounded
<1>3. \A x, y \in Nat : x < y => <<x, y>> \in R
  BY <1>1 DEF OpToRel
<1>4. PICK m \in T : \A k \in T : ~ (<<k, m>> \in R)
  BY <1>2, WFMin
<1>5. \A k \in T : ~(k < m)
  BY <1>3, <1>4
<1> QED BY <1>4, <1>5

LEMMA FirstIs == \A S \in SUBSET Nat : S # {} => First(S) \in S
BY LeastNumber DEF First

LEMMA AppendIs ==
    ASSUME Len(ring) \in Nat, ring = [i \in 1..Len(ring) |-> ring[i]], NEW r,
           ring' = Append(ring, r)
    PROVE  /\ Len(ring') = Len(ring) + 1
           /\ ring' = [i \in 1..(Len(ring) + 1) |-> ring'[i]]
           /\ ring'[Len(ring) + 1] = r
           /\ \A i \in 1..Len(ring) : ring'[i] = ring[i]
<1> DEFINE S == {ring[i] : i \in 1..Len(ring)} \cup {r}
<1>1. ring \in Seq(S) /\ r \in S
  <2>1. \A i \in 1..Len(ring) : ring[i] \in S
    OBVIOUS
  <2>2. r \in S
    OBVIOUS
  <2> HIDE DEF S
  <2>3. ring \in [1..Len(ring) -> S]
    BY <2>1
  <2> QED BY <2>2, <2>3
<1> HIDE DEF S
<1>2. /\ Append(ring, r) \in Seq(S) /\ Len(Append(ring, r)) = Len(ring) + 1
      /\ Append(ring, r)[Len(ring) + 1] = r
      /\ \A i \in 1..Len(ring) : Append(ring, r)[i] = ring[i]
  BY <1>1
<1>3. ring' \in Seq(S)
  BY <1>2
<1>4. \A q \in Seq(S) : q = [i \in 1..Len(q) |-> q[i]]
  OBVIOUS
<1>5. ring' = [i \in 1..Len(ring') |-> ring'[i]]
  BY <1>3, <1>4
<1> QED BY <1>2, <1>5

LEMMA IdleIs ==
    /\ CallLike(Idle)
    /\ Idle.kind = "none" /\ Idle.at = "idle" /\ Idle.then = "idle" /\ Idle.chunk = 1
    /\ Idle.read = Unread /\ Idle.todo = <<>> /\ Idle.left = {} /\ Idle.failed = {}
    /\ Unopened \in States /\ Opened \in States
    /\ Opened.open = TRUE /\ Opened.blocks = 0 /\ Opened.items = 0
    /\ Unopened.open = FALSE
<1>1. Unopened \in States /\ Opened \in States
  BY DEF States, Unopened, Opened
<1>2. CallLike(Idle)
  BY <1>1 DEF Idle, CallLike
<1> QED BY <1>1, <1>2 DEF Idle, Unopened, Opened

LEMMA ClosedIs ==
    /\ IndexLike(Closed) /\ IndexLike([Closed EXCEPT !.open = TRUE])
    /\ Closed.pending = {} /\ Closed.built = FALSE
    /\ [Closed EXCEPT !.open = TRUE].pending = {}
    /\ [Closed EXCEPT !.open = TRUE].built = FALSE
<1>1. IndexLike(Closed) /\ Closed.pending = {} /\ Closed.built = FALSE
  BY DEF Closed, IndexLike
<1> HIDE DEF Closed
<1>2. ASSUME NEW x, x = [Closed EXCEPT !.open = TRUE]
      PROVE  IndexLike(x) /\ x.pending = Closed.pending /\ x.built = Closed.built
  BY <1>1, <1>2 DEF IndexLike
<1> QED BY <1>1, <1>2

LEMMA CurrentTyped == Shape => Current \in States /\ HeadState \in States
BY IdleIs DEF Shape, Current, HeadState

LEMMA AdvanceTyped ==
    ASSUME NEW st \in States, NEW last \in BOOLEAN
    PROVE  /\ Advance(st, last) \in States
           /\ Advance(st, last).open = st.open
           /\ Advance(st, last).blocks = st.blocks + 1
           /\ Advance(st, last).items = IF last THEN st.items + 1 ELSE st.items
<1>1. st.blocks + 1 \in Nat /\ st.items + 1 \in Nat
  BY DEF States
<1>2. CASE last
  BY <1>1, <1>2 DEF States, Advance
<1>3. CASE ~last
  BY <1>1, <1>3 DEF States, Advance
<1> QED BY <1>2, <1>3

LEMMA InitShape == Init => Shape
<1> SUFFICES ASSUME Init PROVE Shape
  OBVIOUS
<1>1. ring = <<>> /\ Len(ring) = 0 /\ ring = [i \in 1..Len(ring) |-> ring[i]]
  BY DEF Init
<1>2. op = Idle /\ index = Closed /\ store = NoStore /\ cached = Unopened
  BY DEF Init
<1>3. StoreLike(store)
  BY <1>2 DEF NoStore, StoreLike
<1> QED BY <1>1, <1>2, <1>3, IdleIs, ClosedIs DEF Shape

-----------------------------------------------------------------------------
(* The shape of the state.                                                  *)

LEMMA CallShape ==
    ASSUME Shape, ring' = ring, store' = store, index' = index, cached' = cached,
           CallLike(op')
    PROVE  Shape'
BY DEF Shape

\* A call that begins.
LEMMA BegunLike ==
    \A kind, at, then, todo, read, left :
        then \in {"idle", "index", "seal"} =>
            /\ CallLike([Idle EXCEPT !.kind = kind, !.todo = todo, !.read = read,
                                     !.at = at, !.then = then])
            /\ CallLike([Idle EXCEPT !.kind = kind, !.todo = todo, !.read = read, !.at = at])
            /\ CallLike([Idle EXCEPT !.kind = kind, !.at = at])
            /\ CallLike([Idle EXCEPT !.kind = kind, !.todo = todo, !.then = then,
                                     !.read = read, !.at = at])
            /\ CallLike([Idle EXCEPT !.kind = kind, !.at = at, !.left = left])
<1> SUFFICES ASSUME NEW kind, NEW at, NEW then, NEW todo, NEW read, NEW left, then \in {"idle", "index", "seal"}
             PROVE  /\ CallLike([Idle EXCEPT !.kind = kind, !.todo = todo, !.read = read,
                                     !.at = at, !.then = then])
                    /\ CallLike([Idle EXCEPT !.kind = kind, !.todo = todo, !.read = read, !.at = at])
                    /\ CallLike([Idle EXCEPT !.kind = kind, !.at = at])
                    /\ CallLike([Idle EXCEPT !.kind = kind, !.todo = todo, !.then = then,
                                     !.read = read, !.at = at])
                    /\ CallLike([Idle EXCEPT !.kind = kind, !.at = at, !.left = left])
  OBVIOUS
<1>1. CallLike(Idle)
  BY IdleIs
<1>2. ASSUME NEW o, o = [Idle EXCEPT !.kind = kind, !.todo = todo, !.read = read, !.at = at, !.then = then] PROVE CallLike(o)
  BY <1>1, <1>2 DEF CallLike
<1>3. ASSUME NEW o, o = [Idle EXCEPT !.kind = kind, !.todo = todo, !.read = read, !.at = at] PROVE CallLike(o)
  BY <1>1, <1>3 DEF CallLike
<1>4. ASSUME NEW o, o = [Idle EXCEPT !.kind = kind, !.at = at] PROVE CallLike(o)
  BY <1>1, <1>4 DEF CallLike
<1>5. ASSUME NEW o, o = [Idle EXCEPT !.kind = kind, !.todo = todo, !.then = then,
                           !.read = read, !.at = at] PROVE CallLike(o)
  BY <1>1, <1>5 DEF CallLike
<1>6. ASSUME NEW o, o = [Idle EXCEPT !.kind = kind, !.at = at, !.left = left] PROVE CallLike(o)
  BY <1>1, <1>6 DEF CallLike
<1> QED BY <1>2, <1>3, <1>4, <1>5, <1>6

LEMMA CreateShape ==
    \A kind, todo, read : Shape /\ Create(kind, todo, read) => Shape'
<1> SUFFICES ASSUME NEW kind, NEW todo, NEW read, Shape, Create(kind, todo, read) PROVE Shape'
  OBVIOUS
<1>1. ring' = ring /\ store' = store /\ index' = index /\ cached' = cached
  BY DEF Create
<1>2. CASE op' = Idle
  BY <1>1, <1>2, IdleIs, CallShape
<1>3. CASE op' = [Idle EXCEPT !.kind = kind, !.todo = todo, !.read = read,
                               !.at = "open", !.then = "index"]
  BY <1>1, <1>3, BegunLike, CallShape
<1> QED BY <1>2, <1>3 DEF Create

\* The call after one more chunk of its file.
LEMMA AfterChunkIs ==
    ASSUME CallLike(op), NEW st \in States, NEW ver, NEW end \in BOOLEAN
    PROVE  LET o == AfterChunk(st, ver, end) IN
           /\ CallLike(o) /\ o.st = st /\ o.at = op.at /\ o.kind = op.kind
           /\ end => o.read = Unread /\ o.chunk = 1
           /\ ~end => /\ o.read = [op.read EXCEPT !.ver = ver]
                      /\ o.chunk = op.chunk + 1 /\ o.todo = op.todo
<1> DEFINE left == ToEmbed(op, {Len(ring) + 1})
           rest == Tail(op.todo)
           more == [op.read EXCEPT !.ver = ver]
<1>1. op.chunk + 1 \in Nat \ {0} /\ 1 \in Nat \ {0}
  BY DEF CallLike
<1>2. PICK o : o = [op EXCEPT !.st = st, !.left = left]
  OBVIOUS
<1> HIDE DEF left
<1>3. /\ CallLike(o) /\ o.st = st /\ o.left = left
      /\ o.at = op.at /\ o.kind = op.kind /\ o.chunk = op.chunk /\ o.read = op.read
      /\ o.todo = op.todo
  BY <1>2 DEF CallLike
<1> HIDE DEF rest, more
<1>4. CASE end
  <2>1. AfterChunk(st, ver, end) = [o EXCEPT !.read = Unread, !.chunk = 1, !.todo = rest]
    BY <1>2, <1>3, <1>4 DEF AfterChunk, left, rest
  <2>2. PICK q : q = [o EXCEPT !.read = Unread, !.chunk = 1, !.todo = rest]
    OBVIOUS
  <2>3. /\ CallLike(q) /\ q.st = st /\ q.at = op.at /\ q.kind = op.kind /\ q.left = left
        /\ q.read = Unread /\ q.chunk = 1
    BY <1>1, <1>3, <2>2 DEF CallLike
  <2> QED BY <1>4, <2>1, <2>2, <2>3
<1>5. CASE ~end
  <2>1. AfterChunk(st, ver, end) = [o EXCEPT !.read = more, !.chunk = op.chunk + 1]
    BY <1>2, <1>3, <1>5 DEF AfterChunk, left, more
  <2>2. PICK q : q = [o EXCEPT !.read = more, !.chunk = op.chunk + 1]
    OBVIOUS
  <2>3. /\ CallLike(q) /\ q.st = st /\ q.at = op.at /\ q.kind = op.kind /\ q.left = left
        /\ q.read = more /\ q.chunk = op.chunk + 1 /\ q.todo = op.todo
    BY <1>1, <1>3, <2>2 DEF CallLike
  <2> QED BY <1>5, <2>1, <2>2, <2>3 DEF more
<1> QED BY <1>4, <1>5

LEMMA AfterChunkLeft ==
    ASSUME CallLike(op), NEW st, NEW ver, NEW end \in BOOLEAN,
           op' = AfterChunk(st, ver, end)
    PROVE  op'.at = op.at /\ \A i \in op'.left : i \in op.left \/ i = Len(ring) + 1
<1> DEFINE left == ToEmbed(op, {Len(ring) + 1})
           rest == Tail(op.todo)
           more == [op.read EXCEPT !.ver = ver]
<1>1. \A i \in left : i \in op.left \/ i = Len(ring) + 1
  BY DEF ToEmbed
<1> HIDE DEF left
<1>2. PICK o : o = [op EXCEPT !.st = st, !.left = left]
  OBVIOUS
<1>3. o.left = left /\ o.at = op.at /\ o.chunk = op.chunk /\ o.todo = op.todo /\ o.read = op.read
      /\ DOMAIN o = DOMAIN op /\ "left" \in DOMAIN o /\ "at" \in DOMAIN o
  BY <1>2 DEF CallLike
<1> HIDE DEF rest, more
<1>4. op' \in {[o EXCEPT !.read = Unread, !.chunk = 1, !.todo = rest],
               [o EXCEPT !.read = more, !.chunk = op.chunk + 1]}
  BY <1>2, <1>3 DEF AfterChunk, left, rest, more
<1>5. op'.at = o.at /\ op'.left = o.left
  BY <1>3, <1>4
<1> QED BY <1>1, <1>3, <1>5

LEMMA SealChunkShape == Shape /\ SealChunk => Shape'
<1> SUFFICES ASSUME Shape, SealChunk PROVE Shape'
  OBVIOUS
<1> DEFINE f    == Head(op.todo)
           base == IF op.chunk = 1 THEN Current ELSE op.st
           last == op.chunk = op.read.of
           st   == Advance(base, last)
<1>1. base \in States
  BY CurrentTyped DEF Shape, CallLike
<1>2. st \in States
  BY <1>1, AdvanceTyped
<1> HIDE DEF st, last, base, f
<1>3. PICK ver \in Versions, end \in BOOLEAN :
        /\ ring' = Append(ring, Block(f, ver, st))
        /\ cached' = IF end THEN st ELSE cached
        /\ op' = AfterChunk(st, ver, end)
        /\ store' = store /\ index' = index
  BY DEF SealChunk, Append1, st, last, base, f
<1> DEFINE r == Block(f, ver, st)
<1>4. r.st = st
  BY DEF Block
<1>5. Len(ring) \in Nat /\ ring = [i \in 1..Len(ring) |-> ring[i]] /\ CallLike(op)
  BY DEF Shape
<1> HIDE DEF r
<1>6. /\ Len(ring') = Len(ring) + 1
      /\ ring' = [i \in 1..(Len(ring) + 1) |-> ring'[i]]
      /\ ring'[Len(ring) + 1] = r
      /\ \A i \in 1..Len(ring) : ring'[i] = ring[i]
  BY <1>3, <1>5, AppendIs DEF r
<1>7. \A i \in 1..Len(ring') : ring'[i].st \in States
  <2> SUFFICES ASSUME NEW i \in 1..(Len(ring) + 1) PROVE ring'[i].st \in States
    BY <1>6
  <2>1. CASE i \in 1..Len(ring)
    BY <1>6, <2>1 DEF Shape
  <2>2. CASE i = Len(ring) + 1
    BY <1>2, <1>4, <1>6, <2>2
  <2> QED BY <1>5, <2>1, <2>2
<1>8. CallLike(op')
  BY <1>2, <1>3, <1>5, AfterChunkIs
<1>9. cached' \in States /\ ring' = [i \in 1..Len(ring') |-> ring'[i]] /\ Len(ring') \in Nat
  BY <1>2, <1>3, <1>5, <1>6 DEF Shape
<1> QED BY <1>3, <1>7, <1>8, <1>9 DEF Shape

LEMMA SealOpenShape == Shape /\ SealOpen => Shape'
<1> SUFFICES ASSUME Shape, SealOpen PROVE Shape'
  OBVIOUS
<1> DEFINE r == [kind |-> "task_open", file |-> NoFile, hash |-> 0, body |-> 0,
                 chunk |-> 0, of |-> 0, st |-> Opened]
<1>1. CASE ring' = Append(ring, r) /\ cached' = Opened
           /\ op' = [op EXCEPT !.at = op.then, !.st = Opened]
  <2>1. r.st = Opened
    OBVIOUS
  <2>2. Len(ring) \in Nat /\ ring = [i \in 1..Len(ring) |-> ring[i]]
    BY DEF Shape
  <2> HIDE DEF r
  <2>3. /\ Len(ring') = Len(ring) + 1
        /\ ring' = [i \in 1..(Len(ring) + 1) |-> ring'[i]]
        /\ ring'[Len(ring) + 1] = r
        /\ \A i \in 1..Len(ring) : ring'[i] = ring[i]
    BY <1>1, <2>2, AppendIs
  <2>4. \A i \in 1..Len(ring') : ring'[i].st \in States
    <3> SUFFICES ASSUME NEW i \in 1..(Len(ring) + 1) PROVE ring'[i].st \in States
      BY <2>3
    <3>1. CASE i \in 1..Len(ring)
      BY <2>3, <3>1 DEF Shape
    <3>2. CASE i = Len(ring) + 1
      BY <2>1, <2>3, <3>2, IdleIs
    <3> QED BY <2>2, <3>1, <3>2
  <2>5. CallLike(op')
    BY <1>1, IdleIs DEF Shape, CallLike
  <2>6. cached' \in States /\ ring' = [i \in 1..Len(ring') |-> ring'[i]] /\ Len(ring') \in Nat
    BY <1>1, <2>2, <2>3, IdleIs
  <2>7. store' = store /\ index' = index
    BY DEF SealOpen
  <2> QED BY <2>4, <2>5, <2>6, <2>7, IdleIs DEF Shape
<1>2. CASE op' = Idle /\ UNCHANGED <<ring, cached>>
  <2>1. store' = store /\ index' = index /\ ring' = ring /\ cached' = cached
    BY <1>2 DEF SealOpen
  <2> QED BY <1>2, <2>1, IdleIs, CallShape
<1> QED BY <1>1, <1>2 DEF SealOpen, Append1

LEMMA NextShape == Shape /\ [Next]_vars => Shape'
<1> SUFFICES ASSUME Shape, [Next]_vars PROVE Shape'
  OBVIOUS
<1> USE IdleIs, ClosedIs
<1>1. CASE Create("walk", <<>>, Unread)
  BY <1>1, CreateShape
<1>2. ASSUME NEW f \in FileSet, NEW v \in Versions,
             Create("upload", <<f>>, OneReading(v)) \/ Upload(f, v)
      PROVE  Shape'
  <2>1. CASE Upload(f, v)
    BY <2>1, BegunLike, CallShape DEF Upload
  <2> QED BY <1>2, <2>1, CreateShape
<1>3. CASE SealOpen
  BY <1>3, SealOpenShape
<1>4. CASE Record
  BY <1>4 DEF Record, Shape
<1>5. CASE Repair
  BY <1>5 DEF Repair, Shape
<1>6. ASSUME NEW kind, Begin(kind) PROVE Shape'
  BY <1>6, BegunLike, CallShape DEF Begin
<1>7. ASSUME NEW f \in FileSet, IngestFile(f) \/ Edit(f) PROVE Shape'
  <2>1. CASE IngestFile(f)
    <3>1. PICK read :
            op' = [Idle EXCEPT !.kind = "file", !.todo = <<f>>, !.then = "index",
                               !.read = read, !.at = "read"]
      BY <2>1 DEF IngestFile
    <3>2. CallLike(op')
      BY <3>1, BegunLike
    <3> QED BY <2>1, <3>2, CallShape DEF IngestFile
  <2>2. CASE Edit(f)
    <3>1. PICK read : op' \in {op, [op EXCEPT !.read = read]}
      BY <2>2 DEF Edit
    <3>2. CallLike(op')
      BY <3>1 DEF Shape, CallLike
    <3> QED BY <2>2, <3>2, CallShape DEF Edit
  <2> QED BY <1>7, <2>1, <2>2
<1>8. CASE Plan
  BY <1>8, CurrentTyped DEF Plan, Shape, CallLike
<1>9. CASE SealChunk
  BY <1>9, SealChunkShape
<1>10. CASE SealRaises
  BY <1>10 DEF SealRaises, Shape
<1>11. CASE Sealed
  BY <1>11 DEF Sealed, Shape, CallLike
<1>12. CASE OpenIndex
  <2>1. ring' = ring /\ cached' = cached
    BY <1>12 DEF OpenIndex
  <2>2. CallLike(op')
    <3>1. CASE op' = Idle
      BY <3>1
    <3>2. CASE op' = [op EXCEPT !.at = AfterIndex(op.kind)]
      BY <3>2 DEF Shape, CallLike
    <3>3. ASSUME NEW left, op' = [op EXCEPT !.at = "fill", !.left = left] PROVE CallLike(op')
      BY <3>3 DEF Shape, CallLike
    <3> QED BY <1>12, <3>1, <3>2, <3>3 DEF OpenIndex
  <2>3. StoreLike(store')
    BY <1>12 DEF OpenIndex, Shape, StoreLike
  <2>4. IndexLike(index')
    BY <1>12 DEF OpenIndex, Shape
  <2> QED BY <2>1, <2>2, <2>3, <2>4 DEF Shape
<1>13. CASE Embedded
  BY <1>13 DEF Embedded, AfterEmbedding, Shape, CallLike
<1>14. CASE IndexRecord
  BY <1>14 DEF IndexRecord, Shape, CallLike, StoreLike, IndexLike
<1>15. CASE IndexRecordRaises
  BY <1>15 DEF IndexRecordRaises, Shape, CallLike, IndexLike
<1>16. CASE Search
  BY <1>16 DEF Search, Shape, IndexLike
<1>17. CASE Reembed
  <2>1. CallLike(op')
    <3>1. PICK left : op' = [Idle EXCEPT !.kind = "reembed", !.at = "batch", !.left = left]
      BY <1>17 DEF Reembed
    <3> HIDE DEF Idle
    <3> QED BY <3>1 DEF CallLike
  <2> QED BY <1>17, <2>1 DEF Reembed, Shape, StoreLike
<1>18. CASE EmbedBatch
  BY <1>18 DEF EmbedBatch, Shape, CallLike, StoreLike
<1>19. CASE Reembedded
  BY <1>19 DEF Reembedded, Shape, CallLike, StoreLike
<1>20. CASE Crash
  BY <1>20 DEF Crash, durable, Shape
<1>21. CASE UNCHANGED vars
  BY <1>21 DEF vars, durable, Shape
<1>22. CASE \E changedOnly \in BOOLEAN : IngestPath(changedOnly)
  BY <1>6, <1>22 DEF IngestPath
<1>23. CASE ReadFile
  <2>1. PICK read : op' = [op EXCEPT !.read = read]
    BY <1>23 DEF ReadFile
  <2>2. CallLike(op')
    BY <2>1 DEF Shape, CallLike
  <2> QED BY <1>23, <2>2, CallShape DEF ReadFile
<1>24. CASE ReadAgain
  <2>1. PICK read, at : op' = [op EXCEPT !.read = read, !.at = at]
    BY <1>24 DEF ReadAgain
  <2>2. CallLike(op')
    BY <2>1 DEF Shape, CallLike
  <2> QED BY <1>24, <2>2, CallShape DEF ReadAgain
<1> QED BY <1>1, <1>2, <1>3, <1>4, <1>5, <1>6, <1>7, <1>8, <1>9, <1>10, <1>11, <1>12, <1>13,
           <1>14, <1>15, <1>16, <1>17, <1>18, <1>19, <1>20, <1>21, <1>22, <1>23, <1>24 DEF Next

-----------------------------------------------------------------------------
(* The store and its index.                                                 *)

LEMMA InitRows == Init => RowsInv
<1> SUFFICES ASSUME Init PROVE RowsInv
  OBVIOUS
<1>1. ring = <<>> /\ Len(ring) = 0 /\ store.rows = {} /\ index = Closed /\ op = Idle
  BY DEF Init, NoStore
<1> QED BY <1>1, IdleIs, ClosedIs DEF RowsInv, Pairs, RowsOf

\* A step that leaves the store alone; the chain may grow.
LEMMA RowsStay ==
    ASSUME Shape, RowsInv, Len(ring') \in {Len(ring), Len(ring) + 1},
           store' = store, index' = index \/ index' = Closed, torn' = torn,
           op.at # "batch", op'.at # "batch", op'.left \subseteq 1..Len(ring')
    PROVE  RowsInv'
<1>1. Len(ring) \in Nat /\ 1..Len(ring) \subseteq 1..Len(ring') /\ Pairs \subseteq Pairs'
  BY DEF Shape, Pairs
<1>2. CASE index' = index
  <2>1. /\ store'.rows \subseteq Pairs' /\ index'.pending \subseteq Pairs'
        /\ \A p \in index'.pending : p[1] \in torn'
        /\ index'.built => /\ index'.matrix \subseteq Visible'
                           /\ \A p \in Visible' \ index'.matrix : p[1] \in torn'
    BY <1>1, <1>2 DEF RowsInv, Visible
  <2>2. ASSUME NEW i \in (1..Len(ring')) \ torn' PROVE RowsOf(i, store'.rows) \in {{}, Whole(i)}
    <3>1. CASE i \in 1..Len(ring)
      BY <3>1 DEF RowsInv
    <3>2. CASE i \notin 1..Len(ring)
      BY <3>2 DEF RowsInv, Pairs, RowsOf
    <3> QED BY <3>1, <3>2
  <2> QED BY <2>1, <2>2 DEF RowsInv
<1>3. CASE index' = Closed
  <2>1. /\ store'.rows \subseteq Pairs' /\ index'.pending \subseteq Pairs'
        /\ \A p \in index'.pending : p[1] \in torn'
        /\ ~index'.built
    BY <1>1, <1>3, ClosedIs DEF RowsInv
  <2>2. ASSUME NEW i \in (1..Len(ring')) \ torn' PROVE RowsOf(i, store'.rows) \in {{}, Whole(i)}
    <3>1. CASE i \in 1..Len(ring)
      BY <3>1 DEF RowsInv
    <3>2. CASE i \notin 1..Len(ring)
      BY <3>2 DEF RowsInv, Pairs, RowsOf
    <3> QED BY <3>1, <3>2
  <2> QED BY <2>1, <2>2 DEF RowsInv
<1> QED BY <1>2, <1>3

LEMMA OpenIndexRows == Shape /\ RowsInv /\ OpenIndex => RowsInv'
<1> SUFFICES ASSUME Shape, RowsInv, OpenIndex PROVE RowsInv'
  OBVIOUS
<1>1. op.at = "index" /\ ring' = ring /\ CallLike(op)
  BY DEF OpenIndex, Shape
<1>2. CASE index.open
  <2>1. op' = [op EXCEPT !.at = AfterIndex(op.kind)] /\ UNCHANGED <<store, index, torn>>
    BY <1>2 DEF OpenIndex
  <2>2. op'.at # "batch" /\ op'.left = op.left
    BY <1>1, <2>1 DEF CallLike, AfterIndex
  <2> QED BY <1>1, <2>1, <2>2, RowsStay DEF RowsInv
<1>3. CASE ~index.open /\ (store.id = Wanted \/ Rebuildable(store.id))
  <2> DEFINE kept == IF store.id = Wanted THEN store.rows ELSE {}
  <2>1. /\ store' = [id |-> Wanted, rows |-> kept]
        /\ index' = [Closed EXCEPT !.open = TRUE]
        /\ op' = [op EXCEPT !.at = "fill", !.left = {i \in 1..Len(ring) : RowsOf(i, kept) = {}}]
        /\ torn' = IF store.id = Wanted THEN torn ELSE {}
    BY <1>3 DEF OpenIndex
  <2>2. op'.at = "fill" /\ op'.left \subseteq 1..Len(ring)
    BY <1>1, <2>1 DEF CallLike
  <2>3. index'.pending = {} /\ ~index'.built /\ store'.rows = kept
    BY <2>1, ClosedIs
  <2>4. kept \subseteq Pairs /\ Pairs' = Pairs
    BY <1>1 DEF RowsInv, Pairs
  <2>5. ASSUME NEW i \in (1..Len(ring)) \ torn' PROVE RowsOf(i, kept) \in {{}, Whole(i)}
    BY <1>1, <2>1 DEF RowsInv, RowsOf
  <2> HIDE DEF kept
  <2> QED BY <1>1, <2>2, <2>3, <2>4, <2>5 DEF RowsInv
<1>4. CASE ~index.open /\ ~(store.id = Wanted \/ Rebuildable(store.id))
  <2>1. op' = Idle /\ UNCHANGED <<store, index, torn>>
    BY <1>4 DEF OpenIndex
  <2> QED BY <1>1, <2>1, IdleIs, RowsStay
<1> QED BY <1>2, <1>3, <1>4

\* The record that is embedded next, and what of it the store already has.
LEMMA NextRecord ==
    ASSUME Shape, RowsInv, op.at \in {"fill", "embed"}, op.left # {}
    PROVE  /\ First(op.left) \in op.left /\ First(op.left) \in 1..Len(ring)
           /\ Visible \subseteq Pairs
           /\ RowsOf(First(op.left), Visible) \subseteq Whole(First(op.left))
<1>1. op.left \in SUBSET Nat /\ op.left \subseteq 1..Len(ring)
  BY DEF RowsInv, Shape
<1>2. First(op.left) \in op.left
  BY <1>1, FirstIs
<1>3. Visible \subseteq Pairs
  BY DEF RowsInv, Visible
<1> QED BY <1>1, <1>2, <1>3 DEF Pairs, RowsOf, Whole

LEMMA IndexRecordRows == Shape /\ RowsInv /\ IndexRecord => RowsInv'
<1> SUFFICES ASSUME Shape, RowsInv, IndexRecord PROVE RowsInv'
  OBVIOUS
<1> DEFINE i   == First(op.left)
           old == RowsOf(i, Visible)
           new == (Visible \ old) \cup Whole(i)
<1>1. /\ op.at \in {"fill", "embed"} /\ op.left # {} /\ ring' = ring
      /\ op' = [op EXCEPT !.left = @ \ {i}] /\ torn' = torn \ {i}
      /\ store' = [store EXCEPT !.rows = new]
      /\ index' = [index EXCEPT
            !.pending = {},
            !.built = @ /\ old = {},
            !.matrix = IF index.built /\ old = {} THEN @ \cup Whole(i) ELSE {}]
  BY DEF IndexRecord
<1>2. i \in op.left /\ i \in 1..Len(ring) /\ Visible \subseteq Pairs /\ old \subseteq Whole(i)
  BY <1>1, NextRecord
<1>3. CallLike(op) /\ StoreLike(store) /\ IndexLike(index)
  BY DEF Shape
<1> HIDE DEF i, old, new
<1>4. op'.at = op.at /\ op'.left = op.left \ {i}
  BY <1>1, <1>3 DEF CallLike
<1>5. store'.rows = new
  BY <1>1, <1>3 DEF StoreLike
<1>6. /\ index'.pending = {} /\ (index'.built <=> index.built /\ old = {})
      /\ index'.built => index'.matrix = index.matrix \cup Whole(i)
  BY <1>1, <1>3 DEF IndexLike
<1>7. Pairs' = Pairs /\ Whole(i) \subseteq Pairs
  BY <1>1, <1>2 DEF Pairs, Whole
<1>8. new \subseteq Pairs
  BY <1>2, <1>7 DEF new
<1>9. index'.built => /\ index'.matrix \subseteq Visible'
                      /\ \A p \in Visible' \ index'.matrix : p[1] \in torn'
  <2> SUFFICES ASSUME index.built, old = {}
               PROVE  /\ index.matrix \cup Whole(i) \subseteq new
                      /\ \A p \in new \ (index.matrix \cup Whole(i)) : p[1] \in torn \ {i}
    BY <1>1, <1>5, <1>6 DEF Visible
  <2>1. index.matrix \subseteq Visible /\ \A p \in Visible \ index.matrix : p[1] \in torn
    BY DEF RowsInv
  <2>2. \A p \in Visible : p[1] # i
    BY DEF old, RowsOf
  <2> QED BY <2>1, <2>2 DEF new
<1>10. ASSUME NEW j \in (1..Len(ring)) \ torn' PROVE RowsOf(j, new) \in {{}, Whole(j)}
  <2>1. CASE j = i
    <3>1. RowsOf(i, new) = Whole(i)
      BY <1>2 DEF RowsOf, new, old, Whole
    <3> QED BY <2>1, <3>1
  <2>2. CASE j # i
    <3>1. j \notin torn
      BY <1>1, <2>2
    <3>2. RowsOf(j, new) = RowsOf(j, store.rows)
      <4>1. \A p \in index.pending : p[1] # j
        BY <3>1 DEF RowsInv
      <4>2. \A p \in Whole(i) : p[1] # j
        BY <2>2 DEF Whole
      <4> QED BY <2>2, <4>1, <4>2 DEF RowsOf, new, old, Visible
    <3> QED BY <1>1, <3>1, <3>2 DEF RowsInv
  <2> QED BY <2>1, <2>2
<1> QED BY <1>1, <1>4, <1>5, <1>6, <1>7, <1>8, <1>9, <1>10 DEF RowsInv

LEMMA IndexRecordRaisesRows == Shape /\ RowsInv /\ IndexRecordRaises => RowsInv'
<1> SUFFICES ASSUME Shape, RowsInv, IndexRecordRaises PROVE RowsInv'
  OBVIOUS
<1> DEFINE i == First(op.left)
<1>1. PICK n \in 0..(Pieces - 1) :
        index' = [index EXCEPT !.pending = @ \cup ({i} \X (1..n))]
  BY DEF IndexRecordRaises
<1> DEFINE got == {i} \X (1..n)
<1>2. /\ op.at \in {"fill", "embed"} /\ op.left # {} /\ ring' = ring /\ store' = store
      /\ op' = [op EXCEPT !.left = @ \ {i}] /\ torn' = torn \cup {i}
  BY DEF IndexRecordRaises
<1>3. i \in op.left /\ i \in 1..Len(ring)
  BY <1>2, NextRecord
<1>4. CallLike(op) /\ IndexLike(index)
  BY DEF Shape
<1>5. got \subseteq Pairs /\ \A p \in got : p[1] = i
  <2>1. 1..n \subseteq 1..Pieces
    BY ConstantsAssumption
  <2> QED BY <1>3, <2>1 DEF Pairs
<1> HIDE DEF i, got
<1>6. op'.at = op.at /\ op'.left = op.left \ {i}
  BY <1>2, <1>4 DEF CallLike
<1>7. /\ index'.pending = index.pending \cup got /\ index'.built = index.built
      /\ index'.matrix = index.matrix
  BY <1>1, <1>4 DEF IndexLike, got
<1>8. Pairs' = Pairs /\ Visible' = Visible \cup got
  BY <1>2, <1>7 DEF Pairs, Visible
<1>9. index'.built => /\ index'.matrix \subseteq Visible'
                      /\ \A p \in Visible' \ index'.matrix : p[1] \in torn'
  BY <1>2, <1>5, <1>7, <1>8 DEF RowsInv
<1> QED BY <1>2, <1>5, <1>6, <1>7, <1>8, <1>9 DEF RowsInv

LEMMA ReembedRows == Shape /\ RowsInv /\ Reembed => RowsInv'
<1> SUFFICES ASSUME Shape, RowsInv, Reembed PROVE RowsInv'
  OBVIOUS
<1>1. /\ store' = [id |-> "session", rows |-> {}] /\ ring' = ring /\ torn' = {}
      /\ index' = [Closed EXCEPT !.open = TRUE]
      /\ op' = [Idle EXCEPT !.kind = "reembed", !.at = "batch", !.left = Pairs]
  BY DEF Reembed, Pairs
<1>2. index'.pending = {} /\ ~index'.built /\ store'.rows = {} /\ Pairs' = Pairs
  BY <1>1, ClosedIs DEF Pairs
<1>3. CallLike(Idle)
  BY IdleIs
<1>4. op'.at = "batch" /\ op'.kind = "reembed" /\ op'.left = Pairs
  BY <1>1, <1>3 DEF CallLike
<1> QED BY <1>1, <1>2, <1>4 DEF RowsInv

LEMMA EmbedBatchRows == Shape /\ RowsInv /\ EmbedBatch => RowsInv'
<1> SUFFICES ASSUME Shape, RowsInv, EmbedBatch PROVE RowsInv'
  OBVIOUS
<1> DEFINE B == Batch(op.left)
<1>1. PICK bad \in {{}} \cup {{i} : i \in {p[1] : p \in B}}, n \in 1..Pieces :
        LET failed == op.failed \cup bad
            done   == {p \in B : \/ p[1] \notin failed
                                 \/ (p[1] \in bad \ op.failed /\ p[2] < n)}
        IN /\ store' = [store EXCEPT !.rows = @ \cup done]
           /\ op' = [op EXCEPT !.left = @ \ B, !.failed = failed]
  BY DEF EmbedBatch
<1> DEFINE failed == op.failed \cup bad
           done == {p \in B : \/ p[1] \notin failed
                              \/ (p[1] \in bad \ op.failed /\ p[2] < n)}
<1>2. op.at = "batch" /\ ring' = ring /\ index' = index /\ torn' = torn
  BY DEF EmbedBatch
<1>3. B \subseteq op.left
  BY DEF Batch
<1>4. done \subseteq op.left /\ \A p \in B : p \in done \/ p[1] \in failed
  BY <1>3
<1>5. CallLike(op) /\ StoreLike(store)
  BY DEF Shape
<1>6. store' = [store EXCEPT !.rows = @ \cup done] /\ op' = [op EXCEPT !.left = @ \ B, !.failed = failed]
  BY <1>1
<1>7. op.failed \subseteq failed
  OBVIOUS
<1> HIDE DEF B, done, failed
<1>8. store'.rows = store.rows \cup done
  BY <1>5, <1>6 DEF StoreLike
<1>9. op'.at = op.at /\ op'.kind = op.kind /\ op'.left = op.left \ B /\ op'.failed = failed
  BY <1>5, <1>6 DEF CallLike
<1>10. Pairs' = Pairs
  BY <1>2 DEF Pairs
<1> QED BY <1>2, <1>3, <1>4, <1>7, <1>8, <1>9, <1>10 DEF RowsInv

LEMMA ReembeddedRows == Shape /\ RowsInv /\ Reembedded => RowsInv'
<1> SUFFICES ASSUME Shape, RowsInv, Reembedded PROVE RowsInv'
  OBVIOUS
<1> DEFINE rows == {r \in store.rows : r[1] \notin op.failed}
<1>1. /\ op.at = "batch" /\ op.left = {} /\ ring' = ring /\ index' = index /\ torn' = torn
      /\ store' = [store EXCEPT !.rows = rows] /\ op' = [op EXCEPT !.at = "record"]
  BY DEF Reembedded
<1>2. CallLike(op) /\ StoreLike(store)
  BY DEF Shape
<1>3. ASSUME NEW i \in 1..Len(ring) PROVE RowsOf(i, rows) \in {{}, Whole(i)}
  <2>1. CASE i \in op.failed
    <3>1. RowsOf(i, rows) = {}
      BY <2>1 DEF RowsOf
    <3> QED BY <3>1
  <2>2. CASE i \notin op.failed
    <3>1. Whole(i) \subseteq rows
      BY <1>1, <2>2 DEF RowsInv, Pairs, Whole
    <3>2. RowsOf(i, rows) \subseteq Whole(i)
      BY <1>1 DEF RowsInv, Pairs, Whole, RowsOf
    <3>3. RowsOf(i, rows) = Whole(i)
      BY <3>1, <3>2 DEF RowsOf, Whole
    <3> QED BY <3>3
  <2> QED BY <2>1, <2>2
<1>4. rows \subseteq Pairs /\ Pairs' = Pairs
  BY <1>1 DEF RowsInv, Pairs
<1> HIDE DEF rows
<1>5. store'.rows = rows /\ op'.at = "record" /\ op'.left = {}
  BY <1>1, <1>2 DEF StoreLike, CallLike
<1> QED BY <1>1, <1>3, <1>4, <1>5 DEF RowsInv

LEMMA CrashRows == Shape /\ RowsInv /\ Crash => RowsInv'
<1> SUFFICES ASSUME Shape, RowsInv, Crash PROVE RowsInv'
  OBVIOUS
<1>1. /\ ring' = ring /\ store' = store /\ index' = Closed /\ op' = Idle
      /\ torn' = IF op.at = "batch"
                 THEN {i \in 1..Len(ring) : RowsOf(i, store.rows) # Whole(i)} ELSE torn
  BY DEF Crash, durable
<1>2. CASE op.at = "batch"
  <2>1. \A i \in (1..Len(ring)) \ torn' : RowsOf(i, store.rows) \in {{}, Whole(i)}
    BY <1>1, <1>2
  <2>2. Pairs' = Pairs
    BY <1>1 DEF Pairs
  <2> QED BY <1>1, <2>1, <2>2, IdleIs, ClosedIs DEF RowsInv
<1>3. CASE op.at # "batch"
  BY <1>1, <1>3, IdleIs, RowsStay
<1> QED BY <1>2, <1>3

LEMMA NextRows == Shape /\ RowsInv /\ [Next]_vars => RowsInv'
<1> SUFFICES ASSUME Shape, RowsInv, [Next]_vars PROVE RowsInv'
  OBVIOUS
<1> USE IdleIs
<1>0. CallLike(op) /\ CallLike(Idle) /\ Len(ring) \in Nat
  BY DEF Shape
<1>1. ASSUME NEW kind, NEW todo, NEW read, Create(kind, todo, read) PROVE RowsInv'
  <2>1. ring' = ring /\ store' = store /\ index' = index /\ torn' = torn /\ op.at = "idle"
    BY <1>1 DEF Create
  <2>2. op'.at # "batch" /\ op'.left = {}
    BY <1>0, <1>1 DEF Create, CallLike
  <2> QED BY <2>1, <2>2, RowsStay
<1>2. ASSUME NEW f, NEW v, Upload(f, v) \/ IngestFile(f) PROVE RowsInv'
  <2>1. ring' = ring /\ store' = store /\ index' = index /\ torn' = torn /\ op.at = "idle"
    BY <1>2 DEF Upload, IngestFile
  <2>2. CASE Upload(f, v)
    <3>1. op'.at # "batch" /\ op'.left = {}
      BY <1>0, <2>2 DEF Upload, CallLike
    <3> QED BY <2>1, <3>1, RowsStay
  <2>3. CASE IngestFile(f)
    <3>1. op'.at # "batch" /\ op'.left = {}
      BY <1>0, <2>3 DEF IngestFile, CallLike
    <3> QED BY <2>1, <3>1, RowsStay
  <2> QED BY <1>2, <2>2, <2>3
<1>3. ASSUME NEW kind, Begin(kind) PROVE RowsInv'
  <2>1. ring' = ring /\ store' = store /\ index' = index /\ torn' = torn /\ op.at = "idle"
    BY <1>3 DEF Begin
  <2>2. op'.at # "batch" /\ op'.left = {}
    BY <1>0, <1>3 DEF Begin, CallLike
  <2> QED BY <2>1, <2>2, RowsStay
<1>4. CASE SealOpen
  <2>1. store' = store /\ index' = index /\ torn' = torn /\ op.at = "open"
    BY <1>4 DEF SealOpen
  <2>2. Len(ring') \in {Len(ring), Len(ring) + 1}
    BY <1>4, AppendIs DEF SealOpen, Append1, Shape
  <2>3. op'.at # "batch" /\ (op'.left = op.left \/ op'.left = {})
    BY <1>0, <1>4 DEF SealOpen, CallLike
  <2>4. op'.left \subseteq 1..Len(ring')
    BY <1>0, <2>1, <2>2, <2>3 DEF RowsInv
  <2> QED BY <2>1, <2>2, <2>3, <2>4, RowsStay
<1>5. CASE SealChunk
  <2>1. PICK st \in States, ver \in Versions, end \in BOOLEAN :
        /\ ring' = Append(ring, Block(Head(op.todo), ver, st))
        /\ op' = AfterChunk(st, ver, end)
    <3> DEFINE base == IF op.chunk = 1 THEN Current ELSE op.st
               st   == Advance(base, op.chunk = op.read.of)
    <3>1. base \in States
      BY CurrentTyped DEF Shape, CallLike
    <3>2. st \in States
      BY <3>1, AdvanceTyped
    <3> HIDE DEF base
    <3>3. \E ver \in Versions, end \in BOOLEAN :
            ring' = Append(ring, Block(Head(op.todo), ver, st)) /\ op' = AfterChunk(st, ver, end)
      BY <1>5 DEF SealChunk, Append1, base
    <3> HIDE DEF st
    <3> QED BY <3>2, <3>3
  <2>2. store' = store /\ index' = index /\ torn' = torn /\ op.at = "seal"
    BY <1>5 DEF SealChunk
  <2>3. Len(ring') = Len(ring) + 1
    BY <2>1, AppendIs DEF Shape
  <2>4. op'.at = "seal" /\ \A i \in op'.left : i \in op.left \/ i = Len(ring) + 1
    BY <1>0, <2>1, <2>2, AfterChunkLeft
  <2>5. op'.left \subseteq 1..Len(ring')
    BY <1>0, <2>2, <2>3, <2>4 DEF RowsInv
  <2> QED BY <2>2, <2>3, <2>4, <2>5, RowsStay
<1>6. CASE Record
  BY <1>6, RowsStay DEF Record
<1>7. CASE SealRaises
  BY <1>7, RowsStay DEF SealRaises
<1>8. CASE Repair
  <2>1. /\ ring' = ring /\ store' = store /\ torn' = torn /\ index' = Closed
        /\ op' = op /\ op.at = "idle"
    BY <1>8 DEF Repair
  <2> QED BY <1>0, <2>1, RowsStay DEF RowsInv
<1>9. CASE Search
  <2>1. /\ ring' = ring /\ store' = store /\ torn' = torn /\ op.at = "search" /\ op' = Idle
        /\ index' = IF index.built THEN index
                    ELSE [index EXCEPT !.built = Visible # {}, !.matrix = Visible]
    BY <1>9 DEF Search
  <2>2. CASE index.built
    BY <2>1, <2>2, RowsStay
  <2>3. CASE ~index.built
    <3>1. index'.pending = index.pending /\ index'.matrix = Visible
      BY <2>1, <2>3 DEF Shape, IndexLike
    <3>2. Visible' = Visible /\ Pairs' = Pairs
      BY <2>1, <3>1 DEF Visible, Pairs
    <3> QED BY <2>1, <3>1, <3>2 DEF RowsInv
  <2> QED BY <2>2, <2>3
<1>10. CASE Plan
  <2>1. ring' = ring /\ store' = store /\ index' = index /\ torn' = torn /\ op.at = "plan"
    BY <1>10 DEF Plan
  <2>2. op'.at # "batch" /\ op'.left = op.left
    BY <1>0, <1>10 DEF Plan, CallLike
  <2> QED BY <2>1, <2>2, RowsStay DEF RowsInv
<1>11. CASE Sealed
  <2>1. ring' = ring /\ store' = store /\ index' = index /\ torn' = torn /\ op.at = "seal"
    BY <1>11 DEF Sealed
  <2>2. op'.at = "embed" /\ op'.left \in {op.left, Missing}
    BY <1>0, <1>11 DEF Sealed, CallLike
  <2>3. op'.left \subseteq 1..Len(ring)
    BY <2>1, <2>2 DEF RowsInv, Missing
  <2> QED BY <2>1, <2>2, <2>3, RowsStay
<1>12. CASE Embedded
  <2>1. ring' = ring /\ store' = store /\ index' = index /\ torn' = torn
        /\ op.at \in {"fill", "embed"} /\ op.left = {}
    BY <1>12 DEF Embedded
  <2>2. op'.at # "batch" /\ op'.left = {}
    BY <1>0, <1>12, <2>1 DEF Embedded, AfterEmbedding, AfterIndex, CallLike
  <2> QED BY <2>1, <2>2, RowsStay
<1>13. ASSUME NEW f, Edit(f) PROVE RowsInv'
  <2>1. ring' = ring /\ store' = store /\ index' = index /\ torn' = torn
    BY <1>13 DEF Edit
  <2>2. PICK read : op' \in {op, [op EXCEPT !.read = read]}
    BY <1>13 DEF Edit
  <2>3. /\ op'.at = op.at /\ op'.left = op.left /\ op'.kind = op.kind /\ op'.failed = op.failed
    BY <1>0, <2>2 DEF CallLike
  <2> QED BY <2>1, <2>3 DEF RowsInv, Pairs, Visible
<1>14. CASE UNCHANGED vars
  BY <1>14 DEF vars, durable, RowsInv, Pairs, Visible
<1>15. CASE ReadFile \/ ReadAgain
  <2>1. /\ ring' = ring /\ store' = store /\ index' = index /\ torn' = torn
        /\ op.at \in {"seal", "read"}
    BY <1>15 DEF ReadFile, ReadAgain
  <2>2. op'.at # "batch" /\ op'.left = op.left
    <3>1. CASE ReadFile
      <4>1. PICK read : op' = [op EXCEPT !.read = read]
        BY <3>1 DEF ReadFile
      <4> QED BY <1>0, <2>1, <4>1 DEF CallLike
    <3>2. CASE ReadAgain
      <4> DEFINE at == IF HeadState.open THEN "index" ELSE "open"
      <4>1. at \in {"index", "open"}
        OBVIOUS
      <4>2. \E read : op' = [op EXCEPT !.read = read, !.at = at]
        BY <3>2 DEF ReadAgain
      <4> HIDE DEF at
      <4> QED BY <1>0, <4>1, <4>2 DEF CallLike
    <3> QED BY <1>15, <3>1, <3>2
  <2> QED BY <2>1, <2>2, RowsStay DEF RowsInv
<1> QED BY <1>1, <1>2, <1>3, <1>4, <1>5, <1>6, <1>7, <1>8, <1>9, <1>10, <1>11, <1>12, <1>13, <1>14, <1>15,
           OpenIndexRows, IndexRecordRows, IndexRecordRaisesRows, ReembedRows,
           EmbedBatchRows, ReembeddedRows, CrashRows DEF Next, IngestPath

\* A record is in the store with all its chunks or not at all, unless its
\* embedding was cut short, and the matrix is what a rebuild would give.
THEOREM WholeOrAbsent == Spec => []EmbeddedWhole
<1>1. Shape /\ RowsInv => EmbeddedWhole
  BY DEF RowsInv, EmbeddedWhole
<1>2. Init => Shape /\ RowsInv
  BY InitShape, InitRows
<1>3. Shape /\ RowsInv /\ [Next]_vars => (Shape /\ RowsInv)'
  BY NextShape, NextRows
<1> QED BY <1>1, <1>2, <1>3, PTL DEF Spec

LEMMA SemanticStep ==
    ASSUME Shape, RowsInv, [Next]_vars, store.id = "session", op'.kind # "reembed"
    PROVE  store'.id = "session" /\ store.rows \subseteq store'.rows
<1>1. CASE OpenIndex
  BY <1>1 DEF OpenIndex, Rebuildable
<1>2. CASE IndexRecord
  <2> DEFINE i   == First(op.left)
             new == (Visible \ RowsOf(i, Visible)) \cup Whole(i)
  <2>1. store' = [store EXCEPT !.rows = new] /\ op.at \in {"fill", "embed"} /\ op.left # {}
    BY <1>2 DEF IndexRecord
  <2>2. RowsOf(i, Visible) \subseteq Whole(i)
    BY <2>1, NextRecord
  <2>3. store.rows \subseteq new
    BY <2>2 DEF Visible
  <2> HIDE DEF new
  <2> QED BY <2>1, <2>3 DEF Shape, StoreLike
<1>3. CASE op.at = "batch" /\ (EmbedBatch \/ Reembedded)
  <2>1. op'.kind = op.kind
    BY <1>3 DEF EmbedBatch, Reembedded, Shape, CallLike
  <2> QED BY <1>3, <2>1 DEF RowsInv
<1>4. CASE Reembed
  <2>1. op'.kind = "reembed"
    <3>1. CallLike(Idle)
      BY IdleIs
    <3> QED BY <1>4, <3>1 DEF Reembed, CallLike
  <2> QED BY <2>1
<1>5. CASE store' = store
  BY <1>5
<1>6. OpenIndex \/ IndexRecord \/ EmbedBatch \/ Reembedded \/ Reembed \/ store' = store
  BY DEF Next, vars, durable, Create, Upload, SealOpen, Record, Repair, IngestPath, Begin,
         IngestFile, ReadAgain, Edit, Plan, ReadFile, SealChunk, SealRaises, Sealed,
         Embedded, IndexRecordRaises, Search, Crash
<1> QED BY <1>1, <1>2, <1>3, <1>4, <1>5, <1>6 DEF EmbedBatch, Reembedded

\* What was embedded by the session's model is kept, through restarts, other
\* embedders, failed saves and a repaired registry, until it is done again.
THEOREM KeepsSemantics == Spec => SemanticStoreKept
<1> DEFINE A == store.id = "session" /\ op'.kind # "reembed" =>
                  store'.id = "session" /\ store.rows \subseteq store'.rows
<1>1. Init => Shape /\ RowsInv
  BY InitShape, InitRows
<1>2. Shape /\ RowsInv /\ [Next]_vars => (Shape /\ RowsInv)'
  BY NextShape, NextRows
<1>3. Shape /\ RowsInv /\ [Next]_vars => [A]_vars
  BY SemanticStep
<1>4. SemanticStoreKept <=> [][A]_vars
  BY DEF SemanticStoreKept
<1> HIDE DEF A
<1> QED BY <1>1, <1>2, <1>3, <1>4, PTL DEF Spec

-----------------------------------------------------------------------------
(* What a call has read.                                                    *)

LEMMA UnreadIs ==
    /\ ReadLike(Unread) /\ Unread.ver = 0 /\ Unread.hash = 0
    /\ Unread.streamed = FALSE /\ Unread.edited = FALSE
BY DEF Unread, ReadLike

LEMMA ReadingIs ==
    \A v : /\ ReadLike(OneReading(v)) /\ OneReading(v).ver = v /\ OneReading(v).hash = v
           /\ OneReading(v).of = Chunks[v]
           /\ OneReading(v).streamed = FALSE /\ OneReading(v).edited = FALSE
<1> SUFFICES ASSUME NEW v
             PROVE  /\ ReadLike(OneReading(v)) /\ OneReading(v).ver = v
                    /\ OneReading(v).hash = v /\ OneReading(v).of = Chunks[v]
                    /\ OneReading(v).streamed = FALSE /\ OneReading(v).edited = FALSE
  OBVIOUS
<1> DEFINE of == Chunks[v]
<1>1. OneReading(v) = [Unread EXCEPT !.ver = v, !.hash = v, !.of = of]
  BY DEF OneReading
<1> HIDE DEF of
<1>2. /\ ReadLike(OneReading(v)) /\ OneReading(v).ver = v
      /\ OneReading(v).hash = v /\ OneReading(v).of = of
      /\ OneReading(v).streamed = FALSE /\ OneReading(v).edited = FALSE
  BY <1>1, UnreadIs DEF ReadLike
<1> QED BY <1>2 DEF of

\* Nothing is read yet, or no more.
LEMMA NothingRead ==
    ASSUME content' \in [FileSet -> Versions], ReadLike(op'.read), op'.read.hash = 0,
           op'.at # "read", ~(op'.chunk > 1)
    PROVE  ReadInv'
BY DEF ReadInv, ReadTruly

LEMMA CallReads ==
    ASSUME content' \in [FileSet -> Versions], op'.read = Unread, op'.at # "read",
           op'.chunk = 1
    PROVE  ReadInv'
BY UnreadIs, NothingRead

\* A step of the call that reads nothing.
LEMMA ReadStays ==
    ASSUME ReadInv, content' = content, op'.read = op.read, op'.todo = op.todo,
           op'.chunk = op.chunk, op.at # "read", op'.at # "read",
           Planning(op') => op.read.hash = 0
    PROVE  ReadInv'
BY DEF ReadInv, ReadTruly, Planning

LEMMA FilesAre == /\ \A v \in Versions : v # 0
                  /\ \A f : <<f>> # <<>> /\ Head(<<f>>) = f
BY ConstantsAssumption

LEMMA UploadReads ==
    ASSUME content' \in [FileSet -> Versions], NEW v \in Versions, NEW f,
           op'.read = OneReading(v), op'.todo = <<f>>, op'.kind = "upload",
           op'.at \in {"open", "index"}, op'.chunk = 1
    PROVE  ReadInv'
BY ReadingIs, FilesAre DEF ReadInv, ReadTruly, Planning, Walks

LEMMA IngestFileReads ==
    \A f \in FileSet : ReadInv /\ IngestFile(f) => ReadInv'
<1> SUFFICES ASSUME NEW f \in FileSet, ReadInv, IngestFile(f) PROVE ReadInv'
  OBVIOUS
<1>1. content' = content /\ content[f] \in Versions /\ content \in [FileSet -> Versions]
  BY DEF IngestFile, ReadInv
<1>2. PICK read \in {[OneReading(content[f]) EXCEPT !.hash = 0],
                     [Unread EXCEPT !.hash = content[f]]} :
        op' = [Idle EXCEPT !.kind = "file", !.todo = <<f>>, !.then = "index",
                           !.read = read, !.at = "read"]
  BY DEF IngestFile
<1>3. /\ ReadLike(read) /\ read.streamed = FALSE /\ read.edited = FALSE
      /\ IF read.ver = 0 THEN read.hash = content[f]
         ELSE read.ver = content[f] /\ read.of = Chunks[content[f]]
  <2> DEFINE v == content[f]
  <2>1. v # 0
    BY <1>1, FilesAre
  <2> HIDE DEF v
  <2>2. CASE read = [OneReading(v) EXCEPT !.hash = 0]
    BY <2>1, <2>2, ReadingIs DEF ReadLike, v
  <2>3. CASE read = [Unread EXCEPT !.hash = v]
    BY <2>1, <2>3, UnreadIs DEF ReadLike, v
  <2> QED BY <1>2, <2>2, <2>3 DEF v
<1> HIDE DEF Idle
<1>4. /\ op'.at = "read" /\ op'.kind = "file" /\ op'.todo = <<f>> /\ op'.read = read
      /\ op'.chunk = 1
  BY <1>2, IdleIs DEF CallLike
<1> QED BY <1>1, <1>3, <1>4, FilesAre DEF ReadInv, ReadTruly, Planning, Walks

LEMMA ReadAgainReads ==
    Shape /\ ReadInv /\ CountInv /\ ReadAgain => ReadInv'
<1> SUFFICES ASSUME Shape, ReadInv, CountInv, ReadAgain PROVE ReadInv'
  OBVIOUS
<1> DEFINE f == Head(op.todo)
           v == content[f]
           r == op.read
           n == Chunks[v]
           at == IF HeadState.open THEN "index" ELSE "open"
<1>1. /\ op.at = "read" /\ op.kind = "file" /\ op.todo # <<>> /\ op.chunk = 1
      /\ content' = content /\ CallLike(op) /\ ReadLike(r)
  BY DEF ReadAgain, ReadInv, CountInv, Shape, CallLike
<1> HIDE DEF at, r, v, n
<1>2. PICK read : /\ read = IF r.ver # 0 THEN [r EXCEPT !.hash = v]
                            ELSE [r EXCEPT !.ver = v, !.of = n]
                  /\ op' = [op EXCEPT !.read = read, !.at = at]
  BY DEF ReadAgain, at, r, v, n
<1>3. /\ op'.at \in {"index", "open"} /\ op'.kind = op.kind /\ op'.todo = op.todo
      /\ op'.chunk = op.chunk /\ op'.read = read
  BY <1>1, <1>2 DEF CallLike, at
<1>4. /\ ReadLike(read) /\ read.edited = r.edited /\ read.streamed = r.streamed
      /\ IF r.ver # 0 THEN read.ver = r.ver /\ read.hash = v /\ read.of = r.of
         ELSE read.ver = v /\ read.hash = r.hash /\ read.of = n
  BY <1>1, <1>2 DEF ReadLike
<1>5. ASSUME f \in FileSet, ~read.edited PROVE ReadTruly(op'.at, read, v)
  <2>1. ReadTruly("read", r, v) /\ v \in Versions
    BY <1>1, <1>4, <1>5 DEF ReadInv, r, v
  <2> QED BY <1>3, <1>4, <2>1 DEF ReadTruly, n
<1> QED BY <1>1, <1>3, <1>4, <1>5 DEF ReadInv, Planning, Walks, v

LEMMA ReadFileReads == Shape /\ ReadInv /\ ReadFile => ReadInv'
<1> SUFFICES ASSUME Shape, ReadInv, ReadFile PROVE ReadInv'
  OBVIOUS
<1> DEFINE f == Head(op.todo)
           v == content[f]
<1>1. /\ op.at = "seal" /\ op.todo # <<>> /\ op.read.hash = 0 /\ ~(op.chunk > 1)
      /\ content' = content /\ content \in [FileSet -> Versions] /\ CallLike(op)
  BY DEF ReadFile, ReadInv, Shape
<1> HIDE DEF v
<1>2. PICK read \in {OneReading(v), [OneReading(v) EXCEPT !.ver = 0, !.streamed = TRUE]} :
        op' = [op EXCEPT !.read = read]
  BY DEF ReadFile, v
<1>3. /\ ReadLike(read) /\ read.hash = v /\ read.of = Chunks[v] /\ read.edited = FALSE
      /\ read.streamed => read.ver = 0
      /\ ~read.streamed => read.ver = v
  <2>1. CASE read = OneReading(v)
    BY <2>1, ReadingIs
  <2>2. CASE read = [OneReading(v) EXCEPT !.ver = 0, !.streamed = TRUE]
    <3>1. PICK r : r = OneReading(v) /\ ReadLike(r) /\ r.hash = v /\ r.of = Chunks[v]
                   /\ r.edited = FALSE
      BY ReadingIs
    <3> DEFINE n == Chunks[v]
    <3>2. r.of = n /\ read = [r EXCEPT !.ver = 0, !.streamed = TRUE]
      BY <2>2, <3>1
    <3> HIDE DEF n
    <3>3. ReadLike(read) /\ read.hash = v /\ read.of = n /\ read.edited = FALSE
          /\ read.ver = 0 /\ read.streamed = TRUE
      BY <3>1, <3>2 DEF ReadLike
    <3> QED BY <3>3 DEF n
  <2> QED BY <1>2, <2>1, <2>2
<1>4. /\ op'.at = op.at /\ op'.todo = op.todo /\ op'.chunk = op.chunk /\ op'.read = read
  BY <1>1, <1>2 DEF CallLike
<1>5. f \in FileSet => v \in Versions /\ v # 0
  BY <1>1, FilesAre DEF v
<1>6. f \in FileSet => ReadTruly("seal", read, v)
  BY <1>3, <1>5 DEF ReadTruly
<1> QED BY <1>1, <1>3, <1>4, <1>6 DEF ReadInv, Planning, v

LEMMA SealChunkReads == Shape /\ ReadInv /\ SealChunk => ReadInv'
<1> SUFFICES ASSUME Shape, ReadInv, SealChunk PROVE ReadInv'
  OBVIOUS
<1>1. PICK st \in States, ver \in Versions, end \in BOOLEAN :
        /\ NextChunk(ver, end) /\ op' = AfterChunk(st, ver, end)
  <2> DEFINE base == IF op.chunk = 1 THEN Current ELSE op.st
             st   == Advance(base, op.chunk = op.read.of)
  <2>1. base \in States
    BY CurrentTyped DEF Shape, CallLike
  <2>2. st \in States
    BY <2>1, AdvanceTyped
  <2> HIDE DEF base
  <2>3. \E ver \in Versions, end \in BOOLEAN :
            NextChunk(ver, end) /\ op' = AfterChunk(st, ver, end)
    BY DEF SealChunk, base
  <2> HIDE DEF st
  <2> QED BY <2>2, <2>3
<1>2. /\ op.at = "seal" /\ op.todo # <<>> /\ op.read.hash # 0 /\ content' = content
      /\ content \in [FileSet -> Versions] /\ CallLike(op) /\ ReadLike(op.read)
  BY DEF SealChunk, ReadInv, Shape
<1>3. /\ op'.at = "seal"
      /\ end => op'.read = Unread /\ op'.chunk = 1
      /\ ~end => op'.read = [op.read EXCEPT !.ver = ver] /\ op'.todo = op.todo
  BY <1>1, <1>2, AfterChunkIs
<1>4. CASE end
  BY <1>2, <1>3, <1>4, CallReads
<1>5. CASE ~end
  <2>1. /\ ReadLike(op'.read) /\ op'.read.ver = ver /\ op'.read.hash = op.read.hash
        /\ op'.read.of = op.read.of /\ op'.read.streamed = op.read.streamed
        /\ op'.read.edited = op.read.edited
    BY <1>2, <1>3, <1>5 DEF ReadLike
  <2>2. ASSUME Head(op.todo) \in FileSet, ~op.read.edited
        PROVE  ReadTruly("seal", op'.read, content[Head(op.todo)])
    <3>1. ReadTruly("seal", op.read, content[Head(op.todo)])
      BY <1>2, <2>2 DEF ReadInv
    <3> QED BY <1>1, <1>2, <2>1, <3>1 DEF ReadTruly, NextChunk
  <2> QED BY <1>2, <1>3, <1>5, <2>1, <2>2 DEF ReadInv, Planning
<1> QED BY <1>4, <1>5

LEMMA EditReads == \A f \in FileSet : Shape /\ ReadInv /\ Edit(f) => ReadInv'
<1> SUFFICES ASSUME NEW f \in FileSet, Shape, ReadInv, Edit(f) PROVE ReadInv'
  OBVIOUS
<1>1. PICK v \in Versions : content' = [content EXCEPT ![f] = v]
  BY DEF Edit
<1>2. content' \in [FileSet -> Versions] /\ \A g \in FileSet \ {f} : content'[g] = content[g]
  BY <1>1 DEF ReadInv
<1>3. CASE ReadsAgain(f)
  <2>1. PICK read : read = [op.read EXCEPT !.edited = TRUE] /\ op' = [op EXCEPT !.read = read]
    BY <1>3 DEF Edit
  <2>2. /\ op'.at = op.at /\ op'.kind = op.kind /\ op'.todo = op.todo /\ op'.chunk = op.chunk
        /\ op'.read = read
    BY <2>1 DEF Shape, CallLike
  <2>3. ReadLike(read) /\ read.edited = TRUE /\ read.hash = op.read.hash
    BY <2>1 DEF ReadInv, ReadLike
  <2> QED BY <1>2, <2>2, <2>3 DEF ReadInv, Planning
<1>4. CASE ~ReadsAgain(f)
  <2>1. op' = op
    BY <1>4 DEF Edit
  <2>2. ASSUME op.todo # <<>>, Head(op.todo) \in FileSet, ~op.read.edited
        PROVE  ReadTruly(op.at, op.read, content'[Head(op.todo)])
    <3>1. ReadTruly(op.at, op.read, content[Head(op.todo)])
      BY <2>2 DEF ReadInv
    <3>2. CASE Head(op.todo) = f
      <4>1. op.at # "read" /\ ~op.read.streamed
        BY <1>4, <2>2, <3>2 DEF ReadsAgain
      <4> QED BY <3>1, <4>1 DEF ReadTruly
    <3>3. CASE Head(op.todo) # f
      BY <1>2, <2>2, <3>1, <3>3
    <3> QED BY <3>2, <3>3
  <2> QED BY <1>2, <2>1, <2>2 DEF ReadInv, Planning
<1> QED BY <1>3, <1>4

LEMMA InitRead == Init => ReadInv
<1> SUFFICES ASSUME Init PROVE ReadInv
  OBVIOUS
<1>1. op = Idle /\ content \in [FileSet -> Versions]
  BY DEF Init
<1> QED BY <1>1, IdleIs, UnreadIs DEF ReadInv, ReadTruly

LEMMA NextRead == Shape /\ ReadInv /\ CountInv /\ [Next]_vars => ReadInv'
<1> SUFFICES ASSUME Shape, ReadInv, CountInv, [Next]_vars PROVE ReadInv'
  OBVIOUS
<1>0. /\ CallLike(op) /\ CallLike(Idle) /\ op.chunk \in Nat \ {0}
      /\ content \in [FileSet -> Versions] /\ ReadLike(op.read)
  BY IdleIs DEF Shape, ReadInv, CallLike
<1>i. ASSUME content' = content, op' = Idle PROVE ReadInv'
  BY <1>0, <1>i, IdleIs, CallReads
<1>1. ASSUME NEW kind, NEW todo, NEW read, Create(kind, todo, read),
             \/ read = Unread
             \/ kind = "upload" /\ \E f : todo = <<f>> /\ \E v \in Versions : read = OneReading(v)
      PROVE  ReadInv'
  <2>1. CASE op' = Idle
    BY <1>1, <1>i, <2>1 DEF Create
  <2>2. CASE op' = [Idle EXCEPT !.kind = kind, !.todo = todo, !.read = read,
                               !.at = "open", !.then = "index"]
    <3>1. /\ op'.kind = kind /\ op'.todo = todo /\ op'.read = read /\ op'.at = "open"
          /\ op'.chunk = 1
      BY <1>0, <2>2, IdleIs DEF CallLike
    <3>2. content' \in [FileSet -> Versions]
      BY <1>0, <1>1 DEF Create
    <3> QED BY <1>1, <3>1, <3>2, CallReads, UploadReads
  <2> QED BY <1>1, <2>1, <2>2 DEF Create
<1>2. ASSUME NEW f \in FileSet, NEW v \in Versions, Upload(f, v) PROVE ReadInv'
  <2>1. /\ op'.kind = "upload" /\ op'.todo = <<f>> /\ op'.read = OneReading(v)
        /\ op'.at = "index" /\ op'.chunk = 1
    BY <1>0, <1>2, IdleIs DEF Upload, CallLike
  <2>2. content' \in [FileSet -> Versions]
    BY <1>0, <1>2 DEF Upload
  <2> QED BY <2>1, <2>2, UploadReads
<1>3. ASSUME NEW kind, Begin(kind) PROVE ReadInv'
  <2>1. op'.read = Unread /\ op'.at = "index" /\ op'.chunk = 1
    BY <1>0, <1>3, IdleIs DEF Begin, CallLike
  <2> QED BY <1>0, <1>3, <2>1, CallReads DEF Begin
<1>4. CASE SealOpen
  <2>1. content' = content /\ op.at = "open"
    BY <1>4 DEF SealOpen
  <2>2. CASE op' = [op EXCEPT !.at = op.then, !.st = Opened]
    <3>1. /\ op'.read = op.read /\ op'.todo = op.todo /\ op'.chunk = op.chunk
          /\ op'.kind = op.kind /\ op'.at \in {"idle", "index", "seal"}
      BY <1>0, <2>2 DEF CallLike
    <3>2. Planning(op') => op.read.hash = 0
      BY <2>1, <3>1 DEF Planning, ReadInv
    <3> QED BY <2>1, <3>1, <3>2, ReadStays
  <2> QED BY <1>4, <1>i, <2>1, <2>2 DEF SealOpen
<1>5. CASE Record \/ SealRaises \/ Crash \/ Search
  BY <1>5, <1>i DEF Record, SealRaises, Crash, Search
<1>6. CASE Repair
  BY <1>6, ReadStays DEF Repair, ReadInv
<1>7. CASE Plan
  <2>1. PICK at, st, todo : op' = [op EXCEPT !.at = at, !.then = "seal", !.st = st, !.todo = todo]
                            /\ at \in {"seal", "open"}
    BY <1>7 DEF Plan
  <2>2. op.read.hash = 0 /\ ~(op.chunk > 1) /\ content' = content
    BY <1>7 DEF Plan, ReadInv, Planning
  <2>3. op'.read = op.read /\ op'.chunk = op.chunk /\ op'.at = at
    BY <1>0, <2>1 DEF CallLike
  <2> QED BY <1>0, <2>1, <2>2, <2>3, NothingRead
<1>8. CASE Sealed
  <2>1. PICK left : op' = [op EXCEPT !.at = "embed", !.left = left]
    BY <1>8 DEF Sealed
  <2>2. op.todo = <<>> /\ op.read.hash = 0 /\ content' = content /\ op.at = "seal"
    BY <1>8 DEF Sealed, ReadInv
  <2>3. op'.read = op.read /\ op'.chunk = op.chunk /\ op'.at = "embed" /\ op'.todo = op.todo
    BY <1>0, <2>1 DEF CallLike
  <2> QED BY <2>2, <2>3, ReadStays
<1>9. CASE OpenIndex
  <2>1. content' = content /\ op.at = "index"
    BY <1>9 DEF OpenIndex
  <2>2. CASE op' = Idle
    BY <1>i, <2>1, <2>2
  <2>3. ASSUME NEW left, NEW at \in {"fill", AfterIndex(op.kind)},
               op' \in {[op EXCEPT !.at = at], [op EXCEPT !.at = at, !.left = left]}
        PROVE  ReadInv'
    <3>1. /\ op'.read = op.read /\ op'.todo = op.todo /\ op'.chunk = op.chunk
          /\ op'.kind = op.kind /\ op'.at = at
      BY <1>0, <2>3 DEF CallLike
    <3>2. at # "read" /\ (at = "plan" => op.kind \in Walks)
      BY <2>3 DEF AfterIndex, Walks
    <3>3. Planning(op') => op.read.hash = 0
      BY <2>1, <3>1, <3>2 DEF Planning, ReadInv
    <3> QED BY <2>1, <3>1, <3>2, <3>3, ReadStays
  <2>4. \/ op' = Idle
        \/ \E left : \E at \in {"fill", AfterIndex(op.kind)} :
             op' \in {[op EXCEPT !.at = at], [op EXCEPT !.at = at, !.left = left]}
    <3>1. op' \in {Idle, [op EXCEPT !.at = AfterIndex(op.kind)]}
          \/ \E left : op' = [op EXCEPT !.at = "fill", !.left = left]
      BY <1>9 DEF OpenIndex
    <3> QED BY <3>1
  <2> QED BY <2>2, <2>3, <2>4
<1>10. CASE Embedded
  <2>1. content' = content /\ op.at \in {"fill", "embed"}
    BY <1>10 DEF Embedded
  <2>2. CASE op' = Idle
    BY <1>i, <2>1, <2>2
  <2>3. ASSUME NEW at \in {"record", AfterIndex(op.kind)}, op' = [op EXCEPT !.at = at]
        PROVE  ReadInv'
    <3>1. /\ op'.read = op.read /\ op'.todo = op.todo /\ op'.chunk = op.chunk
          /\ op'.kind = op.kind /\ op'.at = at
      BY <1>0, <2>3 DEF CallLike
    <3>2. at # "read" /\ (at = "plan" => op.kind \in Walks)
      BY <2>3 DEF AfterIndex, Walks
    <3>3. Planning(op') => op.read.hash = 0
      BY <2>1, <3>1, <3>2 DEF Planning, ReadInv
    <3> QED BY <2>1, <3>1, <3>2, <3>3, ReadStays
  <2> QED BY <1>10, <2>2, <2>3 DEF Embedded, AfterEmbedding
<1>11. CASE IndexRecord \/ IndexRecordRaises
  <2>1. content' = content /\ op.at \in {"fill", "embed"}
    BY <1>11 DEF IndexRecord, IndexRecordRaises
  <2>2. PICK left : op' = [op EXCEPT !.left = left]
    BY <1>11 DEF IndexRecord, IndexRecordRaises
  <2>3. /\ op'.read = op.read /\ op'.todo = op.todo /\ op'.chunk = op.chunk
        /\ op'.kind = op.kind /\ op'.at = op.at
    BY <1>0, <2>2 DEF CallLike
  <2>4. Planning(op') => op.read.hash = 0
    BY <2>3 DEF Planning, ReadInv
  <2> QED BY <2>1, <2>3, <2>4, ReadStays
<1>12. CASE Reembed
  <2>1. PICK left : op' = [Idle EXCEPT !.kind = "reembed", !.at = "batch", !.left = left]
    BY <1>12 DEF Reembed
  <2>2. op'.read = Unread /\ op'.at = "batch" /\ op'.chunk = 1
    BY <1>0, <2>1, IdleIs DEF CallLike
  <2> QED BY <1>0, <1>12, <2>2, CallReads DEF Reembed
<1>13. CASE EmbedBatch \/ Reembedded
  <2>1. content' = content /\ op.at = "batch"
    BY <1>13 DEF EmbedBatch, Reembedded
  <2>2. PICK left, failed : op' \in {[op EXCEPT !.left = left, !.failed = failed],
                                     [op EXCEPT !.at = "record"]}
    BY <1>13 DEF EmbedBatch, Reembedded
  <2>3. /\ op'.read = op.read /\ op'.todo = op.todo /\ op'.chunk = op.chunk
        /\ op'.kind = op.kind /\ op'.at \in {"batch", "record"}
    BY <1>0, <2>1, <2>2 DEF CallLike
  <2>4. Planning(op') => op.read.hash = 0
    BY <2>1, <2>3 DEF Planning, ReadInv
  <2> QED BY <2>1, <2>3, <2>4, ReadStays
<1>14. CASE UNCHANGED vars
  BY <1>14 DEF vars, durable, ReadInv, Planning
<1>15. CASE Create("walk", <<>>, Unread)
  BY <1>1, <1>15
<1>16. ASSUME NEW f \in FileSet, NEW v \in Versions, Create("upload", <<f>>, OneReading(v))
       PROVE  ReadInv'
  BY <1>1, <1>16
<1> QED BY <1>2, <1>3, <1>4, <1>5, <1>6, <1>7, <1>8, <1>9, <1>10, <1>11, <1>12, <1>13, <1>14,
           <1>15, <1>16, IngestFileReads, ReadAgainReads, ReadFileReads, SealChunkReads, EditReads
           DEF Next, IngestPath

-----------------------------------------------------------------------------
(* The chain.                                                               *)

LEMMA InitChain == Init => ChainInv
<1> SUFFICES ASSUME Init PROVE ChainInv
  OBVIOUS
<1>1. ring = <<>> /\ Len(ring) = 0 /\ op = Idle /\ cached = Unopened
  BY DEF Init
<1> QED BY <1>1, IdleIs DEF ChainInv, CountInv, PartInv, WholeInv

\* A step between two files, or of another part of a call.
LEMMA ChainStays ==
    ASSUME Shape, ChainInv, ring' = ring, raised' = raised, cut' = cut,
           op.chunk = 1, op'.chunk = 1,
           cached' \in {cached, Unopened, Current}
    PROVE  ChainInv'
<1> USE DEF ChainInv
<1>1. HeadState' = HeadState /\ Len(ring') = Len(ring) /\ Len(ring) \in Nat
  BY DEF HeadState, Shape
<1>2. ~raised /\ cached'.open => Len(ring) > 0 /\ cached' = HeadState
  <2>1. HeadState.open => Len(ring) > 0
    <3>1. ring # <<>> => Len(ring) # 0
      BY DEF Shape
    <3> QED BY <1>1, <3>1, IdleIs DEF HeadState
  <2> QED BY <2>1, IdleIs DEF CountInv, Current
<1>3. CountInv'
  <2>1. \A k \in 1..Len(ring) : Tells(k) => Tells(k)'
    BY DEF Tells, Done, Ended, Opens
  <2> QED BY <1>1, <1>2, <2>1 DEF CountInv
<1>4. PartInv'
  BY DEF PartInv
<1>5. WholeInv'
  <2>1. \A f, last : LastOf(f, last)' => LastOf(f, last)
    BY DEF LastOf, Blocks
  <2>2. \A f, last : WholeAt(f, last) => WholeAt(f, last)'
    BY DEF WholeAt, IsChunk
  <2>3. \A f : ~InProgress(f)
    BY DEF InProgress
  <2> QED BY <1>1, <2>1, <2>2, <2>3 DEF WholeInv
<1> QED BY <1>3, <1>4, <1>5

LEMMA EditChain == \A f \in FileSet : Shape /\ ReadInv /\ ChainInv /\ Edit(f) => ChainInv'
<1> SUFFICES ASSUME NEW f \in FileSet, Shape, ReadInv, ChainInv, Edit(f) PROVE ChainInv'
  OBVIOUS
<1>1. ring' = ring /\ raised' = raised /\ cut' = cut /\ cached' = cached
  BY DEF Edit
<1>2. \/ op' = op
      \/ \E read : read = [op.read EXCEPT !.edited = TRUE]
                   /\ op' = [op EXCEPT !.read = read]
  BY DEF Edit
<1>3. /\ op'.chunk = op.chunk /\ op'.at = op.at /\ op'.todo = op.todo /\ op'.st = op.st
      /\ op' = op \/ op'.read = [op.read EXCEPT !.edited = TRUE]
  BY <1>2 DEF Shape, CallLike
<1>4. CountInv'
  <2>1. HeadState' = HeadState /\ \A k : Tells(k)' <=> Tells(k)
    BY <1>1 DEF HeadState, Tells, Done, Ended, Opens
  <2>2. CountInv
    BY DEF ChainInv
  <2> QED BY <1>1, <1>3, <2>1, <2>2 DEF CountInv
<1>5. PartInv'
  <2>1. op' = op \/ op'.read.edited = TRUE
    BY <1>3 DEF ReadInv, ReadLike
  <2> QED BY <1>1, <1>3, <2>1 DEF ChainInv, PartInv, IsChunk
<1>6. WholeInv'
  BY <1>1, <1>3 DEF ChainInv, WholeInv, LastOf, Blocks, InProgress, WholeAt, IsChunk
<1> QED BY <1>4, <1>5, <1>6 DEF ChainInv

\* A call that ends while it seals: what it had of its file is known to be cut
\* short, and the cache is behind only if an append raised.
LEMMA CallEnds ==
    ASSUME Shape, ChainInv, ring' = ring, op' = Idle, CutShort,
           cached' \in {cached, Unopened}, ~raised' => ~raised,
           op.chunk > 1 /\ ~raised' => cached' = Unopened
    PROVE  ChainInv'
<1> USE DEF ChainInv
<1>0. op.chunk \in Nat \ {0} /\ op'.chunk = 1 /\ Len(ring) \in Nat
  BY IdleIs DEF Shape, CallLike
<1>1. HeadState' = HeadState
  BY DEF HeadState
<1>6. ~raised' => ~raised
  OBVIOUS
<1>2. ~raised' /\ cached'.open => Len(ring) > 0 /\ cached' = HeadState
  <2> SUFFICES ASSUME ~raised', cached'.open PROVE Len(ring) > 0 /\ cached' = HeadState
    OBVIOUS
  <2>1. cached' = cached
    BY IdleIs
  <2>2. op.chunk = 1
    BY <1>0, <1>6, <2>1, IdleIs
  <2> QED BY <1>6, <2>1, <2>2 DEF CountInv
<1>3. CountInv'
  <2>1. \A k \in 1..Len(ring) : Tells(k) => Tells(k)'
    BY DEF Tells, Done, Ended, Opens
  <2>2. ~raised' => \A k \in 1..Len(ring) : Tells(k)'
    BY <1>6, <2>1 DEF CountInv
  <2> QED BY <1>0, <1>1, <1>2, <2>2 DEF CountInv
<1>4. PartInv'
  BY <1>0 DEF PartInv
<1>5. WholeInv'
  <2>1. \A f, last : LastOf(f, last)' => LastOf(f, last)
    BY DEF LastOf, Blocks
  <2>2. \A f, last : WholeAt(f, last) => WholeAt(f, last)'
    BY DEF WholeAt, IsChunk
  <2>3. \A f \in FileSet \ cut' : f \in FileSet \ cut /\ ~InProgress(f)
    BY DEF InProgress, CutShort, CountInv
  <2> QED BY <2>1, <2>2, <2>3 DEF WholeInv
<1> QED BY <1>3, <1>4, <1>5

\* What a record added to the chain leaves as it was.
LEMMA Grows ==
    ASSUME Shape, NEW r, ring' = Append(ring, r)
    PROVE  /\ Len(ring) \in Nat /\ Len(ring') = Len(ring) + 1 /\ ring'[Len(ring) + 1] = r
           /\ \A i \in 1..Len(ring) : ring'[i] = ring[i]
           /\ HeadState' = r.st
           /\ \A k \in 1..Len(ring) : Tells(k) => Tells(k)'
           /\ \A f, v, i, k : i \in 1..Len(ring) /\ IsChunk(i, f, v, k) => IsChunk(i, f, v, k)'
           /\ \A f, last : last \in 1..Len(ring) /\ WholeAt(f, last) => WholeAt(f, last)'
           /\ \A f : \A i \in 1..Len(ring) : i \in Blocks(f)' <=> i \in Blocks(f)
<1>1. /\ Len(ring) \in Nat /\ Len(ring') = Len(ring) + 1 /\ ring'[Len(ring) + 1] = r
      /\ \A i \in 1..Len(ring) : ring'[i] = ring[i]
  BY AppendIs DEF Shape
<1>2. HeadState' = r.st
  <2>1. ring' # <<>>
    BY <1>1
  <2> QED BY <1>1, <2>1 DEF HeadState
<1>3. ASSUME NEW k \in 1..Len(ring) PROVE Tells(k) => Tells(k)'
  <2>1. \A i \in 1..k : ring'[i] = ring[i]
    BY <1>1
  <2>2. Opens(k)' = Opens(k)
    BY <2>1 DEF Opens
  <2>3. Done(k)' = Done(k)
    BY <2>1, <2>2 DEF Done
  <2>4. Ended(k)' = Ended(k)
    BY <2>1, <2>3 DEF Ended, Done
  <2> QED BY <1>1, <2>3, <2>4 DEF Tells
<1>4. \A f, v, i, k : i \in 1..Len(ring) /\ IsChunk(i, f, v, k) => IsChunk(i, f, v, k)'
  BY <1>1 DEF IsChunk
<1>5. ASSUME NEW f, NEW last \in 1..Len(ring), WholeAt(f, last) PROVE WholeAt(f, last)'
  <2> DEFINE v == ring[last].hash
             n == Chunks[v]
  <2>1. v \in Versions /\ n \in 1..last /\ ring'[last] = ring[last]
    BY <1>1, <1>5 DEF WholeAt
  <2>2. ASSUME NEW k \in 1..n PROVE IsChunk((last - n) + k, f, v, k)'
    <3>1. IsChunk((last - n) + k, f, v, k)
      BY <1>5 DEF WholeAt
    <3>2. (last - n) + k \in 1..Len(ring)
      <4> HIDE DEF n
      <4> QED BY <1>1, <2>1
    <3> QED BY <1>4, <3>1, <3>2
  <2> QED BY <2>1, <2>2 DEF WholeAt
<1>6. \A f : \A i \in 1..Len(ring) : i \in Blocks(f)' <=> i \in Blocks(f)
  BY <1>1 DEF Blocks
<1> QED BY <1>1, <1>2, <1>3, <1>4, <1>5, <1>6

LEMMA SealOpenChain == Shape /\ ChainInv /\ SealOpen => ChainInv'
<1> SUFFICES ASSUME Shape, ChainInv, SealOpen PROVE ChainInv'
  OBVIOUS
<1> USE DEF ChainInv
<1> DEFINE r == [kind |-> "task_open", file |-> NoFile, hash |-> 0, body |-> 0,
                 chunk |-> 0, of |-> 0, st |-> Opened]
<1>0. PICK n : n = Len(ring)
  OBVIOUS
<1>1. op.at = "open" /\ op.chunk = 1 /\ raised' = raised /\ cut' = cut
  <2>1. op.chunk \in Nat \ {0}
    BY DEF Shape, CallLike
  <2> QED BY <2>1 DEF SealOpen, CountInv
<1>2. CASE ring' = Append(ring, r) /\ cached' = Opened
           /\ op' = [op EXCEPT !.at = op.then, !.st = Opened]
  <2>1. op'.chunk = 1
    BY <1>1, <1>2 DEF Shape, CallLike
  <2>2. /\ n \in Nat /\ Len(ring') = n + 1 /\ ring'[n + 1] = r
        /\ HeadState' = r.st
        /\ \A k \in 1..n : Tells(k) => Tells(k)'
        /\ \A f, last : last \in 1..n /\ WholeAt(f, last) => WholeAt(f, last)'
        /\ \A f : \A i \in 1..n : i \in Blocks(f)' <=> i \in Blocks(f)
    <3> HIDE DEF r
    <3> QED BY <1>0, <1>2, Grows
  <2>3. Tells(n + 1)'
    <3>1. n + 1 \in Opens(n + 1)'
      BY <2>2 DEF Opens
    <3>2. Done(n + 1)' = {}
      <4>1. ASSUME NEW i \in Done(n + 1)' PROVE FALSE
        <5>1. i \in 1..(n + 1) /\ n + 1 < i
          BY <3>1 DEF Done
        <5> QED BY <2>2, <5>1
      <4> QED BY <4>1
    <3>3. Ended(n + 1)' = {}
      BY <3>2 DEF Ended
    <3>4. ring'[n + 1].st = Opened
      BY <2>2
    <3>5. Cardinality({}) = 0
      BY FS_EmptySet
    <3> QED BY <3>2, <3>3, <3>4, <3>5, IdleIs DEF Tells
  <2>4. CountInv'
    <3>1. ~raised => \A k \in 1..(n + 1) : Tells(k)'
      <4> SUFFICES ASSUME ~raised, NEW k \in 1..(n + 1) PROVE Tells(k)'
        OBVIOUS
      <4>1. k \in 1..n => Tells(k)'
        BY <1>0, <2>2 DEF CountInv
      <4>2. k = n + 1 => Tells(k)'
        BY <2>3
      <4>3. k \in 1..n \/ k = n + 1
        BY <2>2
      <4> QED BY <4>1, <4>2, <4>3
    <3> QED BY <1>0, <1>1, <1>2, <2>1, <2>2, <3>1 DEF CountInv
  <2>5. PartInv'
    BY <1>1, <2>1 DEF PartInv
  <2>6. WholeInv'
    <3> SUFFICES ASSUME NEW f \in FileSet \ cut, NEW last \in 1..(n + 1), LastOf(f, last)'
                 PROVE  WholeAt(f, last)'
      BY <1>0, <1>1, <2>2 DEF WholeInv
    <3>1. n + 1 \notin Blocks(f)'
      BY <2>2 DEF Blocks
    <3>2. last \in 1..n
      BY <2>2, <3>1 DEF LastOf
    <3>3. LastOf(f, last)
      BY <1>0, <2>2, <3>2 DEF LastOf, Blocks
    <3>4. ~InProgress(f)
      BY <1>1 DEF InProgress
    <3> QED BY <1>0, <2>2, <3>2, <3>3, <3>4 DEF WholeInv
  <2> QED BY <1>1, <2>4, <2>5, <2>6
<1>3. CASE op' = Idle /\ UNCHANGED <<ring, cached>>
  BY <1>1, <1>3, IdleIs, ChainStays
<1> QED BY <1>2, <1>3 DEF SealOpen, Append1

LEMMA GreatestNumber ==
    ASSUME NEW n \in Nat, NEW S \in SUBSET (1..n), S # {}
    PROVE  \E m \in S : \A k \in S : k <= m
<1> DEFINE T == {k \in Nat : n - k \in S}
<1>1. T # {}
  <2>1. PICK x \in S : TRUE
    OBVIOUS
  <2>2. n - x \in Nat /\ n - (n - x) = x
    BY <2>1
  <2> QED BY <2>1, <2>2
<1>2. PICK k \in T : \A j \in T : k <= j
  <2>1. T \in SUBSET Nat
    OBVIOUS
  <2> HIDE DEF T
  <2> QED BY <1>1, <2>1, LeastNumber
<1>3. ASSUME NEW x \in S PROVE x <= n - k
  <2>1. n - x \in Nat /\ n - (n - x) = x
    BY <1>3
  <2>2. n - x \in T
    BY <1>3, <2>1
  <2> QED BY <1>2, <2>1, <2>2
<1> QED BY <1>2, <1>3

\* One block of a file: what a count gives up to it.
LEMMA OneMore ==
    ASSUME Shape, NEW r, ring' = Append(ring, r), r.kind = "continuum",
           NEW n, n = Len(ring), n > 0, Tells(n),
           NEW st \in States, st = HeadState, st.open,
           NEW last \in BOOLEAN, last <=> r.chunk = r.of, r.st = Advance(st, last)
    PROVE  Tells(n + 1)'
<1>1. /\ n \in Nat \ {0} /\ ring'[n + 1] = r /\ \A i \in 1..n : ring'[i] = ring[i]
  BY Grows
<1>2. ring # <<>> /\ st = ring[n].st
  <2>1. ring # <<>>
    BY <1>1
  <2> QED BY <2>1 DEF HeadState
<1>3. Opens(n + 1)' = Opens(n)
  BY <1>1 DEF Opens
<1>4. Done(n + 1)' = Done(n) \cup {n + 1}
  <2>1. ASSUME NEW i \in 1..(n + 1) PROVE i \in Done(n + 1)' <=> i \in Done(n) \cup {n + 1}
    <3>1. CASE i = n + 1
      <4>1. \A j \in Opens(n) : j < n + 1
        BY <1>1 DEF Opens
      <4> QED BY <1>1, <1>3, <3>1, <4>1 DEF Done
    <3>2. CASE i \in 1..n
      BY <1>1, <1>3, <3>2 DEF Done
    <3> QED BY <1>1, <3>1, <3>2
  <2>2. Done(n + 1)' \subseteq 1..(n + 1) /\ Done(n) \cup {n + 1} \subseteq 1..(n + 1)
    BY <1>1 DEF Done
  <2> QED BY <2>1, <2>2
<1>5. Ended(n + 1)' = IF last THEN Ended(n) \cup {n + 1} ELSE Ended(n)
  <2>1. \A i \in Done(n) : i \in 1..n /\ i # n + 1
    BY <1>1 DEF Done
  <2>2. \A i \in Done(n) : ring'[i] = ring[i]
    BY <1>1, <2>1
  <2> QED BY <1>1, <1>4, <2>2, ZenonT(40) DEF Ended
<1>6. /\ IsFiniteSet(Done(n)) /\ IsFiniteSet(Ended(n))
      /\ n + 1 \notin Done(n) /\ n + 1 \notin Ended(n)
  <2>1. Done(n) \subseteq 1..n /\ Ended(n) \subseteq 1..n
    BY DEF Done, Ended
  <2>2. IsFiniteSet(1..n)
    BY <1>1, FS_Interval
  <2> QED BY <1>1, <2>1, <2>2, FS_Subset
<1>7. Cardinality(Done(n + 1)') = Cardinality(Done(n)) + 1
  BY <1>4, <1>6, FS_AddElement
<1>8. Cardinality(Ended(n + 1)') = IF last THEN Cardinality(Ended(n)) + 1
                                   ELSE Cardinality(Ended(n))
  <2>1. CASE last
    BY <1>5, <1>6, <2>1, FS_AddElement
  <2>2. CASE ~last
    BY <1>5, <2>2
  <2> QED BY <2>1, <2>2
<1>9. st.blocks = Cardinality(Done(n)) /\ st.items = Cardinality(Ended(n))
  BY <1>2 DEF Tells
<1>10. /\ r.st.open = st.open /\ r.st.blocks = st.blocks + 1
       /\ r.st.items = IF last THEN st.items + 1 ELSE st.items
  BY AdvanceTyped
<1>11. /\ ring'[n + 1].st.open /\ ring'[n + 1].st.blocks = Cardinality(Done(n + 1)')
       /\ ring'[n + 1].st.items = Cardinality(Ended(n + 1)')
  BY <1>1, <1>7, <1>8, <1>9, <1>10, ZenonT(40)
<1> QED BY <1>11 DEF Tells

LEMMA SealChunkChain == Shape /\ ReadInv /\ ChainInv /\ SealChunk => ChainInv'
<1> SUFFICES ASSUME Shape, ReadInv, ChainInv, SealChunk PROVE ChainInv'
  OBVIOUS
<1> USE DEF ChainInv
<1>0. PICK f, c, n : f = Head(op.todo) /\ c = op.chunk /\ n = Len(ring)
  OBVIOUS
<1>01. PICK hash, of, edited : hash = op.read.hash /\ of = op.read.of /\ edited = op.read.edited
  OBVIOUS
<1>02. PICK base : base = IF c = 1 THEN Current ELSE op.st
  OBVIOUS
<1>03. PICK last \in BOOLEAN : last <=> c = of
  OBVIOUS
<1>04. PICK st : st = Advance(base, last)
  OBVIOUS
<1> USE <1>0, <1>01
<1>1. base \in States /\ c \in Nat \ {0} /\ CallLike(op) /\ ReadLike(op.read)
  BY <1>02, CurrentTyped DEF Shape, CallLike, ReadInv
<1>05. PICK ver \in Versions, end \in BOOLEAN :
        /\ NextChunk(ver, end)
        /\ ring' = Append(ring, Block(f, ver, st))
        /\ cached' = IF end THEN st ELSE cached
        /\ op' = AfterChunk(st, ver, end)
        /\ cut' = IF ~end THEN cut ELSE IF edited THEN cut \cup {f} ELSE cut \ {f}
  <2>1. last = (c = of)
    BY <1>03
  <2> QED BY <1>02, <1>04, <2>1 DEF SealChunk, Append1
<1>06. PICK r : r = Block(f, ver, st)
  OBVIOUS
<1>2. /\ op.at = "seal" /\ op.todo # <<>> /\ hash # 0 /\ base.open
      /\ ring' = Append(ring, r) /\ raised' = raised /\ st \in States
  <2>1. base.open
    BY <1>02 DEF SealChunk
  <2>2. st \in States
    BY <1>04, <1>1, AdvanceTyped
  <2> QED BY <1>05, <1>06, <2>1, <2>2 DEF SealChunk
<1>3. /\ op'.st = st /\ op'.at = "seal"
      /\ end => op'.chunk = 1
      /\ ~end => /\ op'.chunk = c + 1 /\ op'.todo = op.todo
                 /\ op'.read.hash = hash /\ op'.read.edited = edited
  <2>1. /\ op'.st = st /\ op'.at = op.at
        /\ end => op'.chunk = 1
        /\ ~end => /\ op'.read = [op.read EXCEPT !.ver = ver]
                   /\ op'.chunk = c + 1 /\ op'.todo = op.todo
    BY <1>05, <1>1, <1>2, AfterChunkIs
  <2> QED BY <1>1, <1>2, <2>1 DEF ReadLike
<1>4. /\ r.kind = "continuum" /\ r.file = f /\ r.hash = hash /\ r.body = ver
      /\ r.chunk = c /\ r.of = of /\ r.st = st
  BY <1>06 DEF Block
<1>5. last \in BOOLEAN /\ (last <=> r.chunk = r.of)
  BY <1>03, <1>4
<1>6. /\ n \in Nat /\ Len(ring') = n + 1 /\ ring'[n + 1] = r
      /\ \A i \in 1..n : ring'[i] = ring[i]
      /\ HeadState' = r.st
      /\ \A k \in 1..n : Tells(k) => Tells(k)'
      /\ \A g, v, i, k : i \in 1..n /\ IsChunk(i, g, v, k) => IsChunk(i, g, v, k)'
      /\ \A g, i : i \in 1..n /\ WholeAt(g, i) => WholeAt(g, i)'
      /\ \A g : \A i \in 1..n : i \in Blocks(g)' <=> i \in Blocks(g)
  BY <1>2, Grows
<1>7. ~raised => n > 0 /\ base = HeadState
  <2> SUFFICES ASSUME ~raised PROVE n > 0 /\ base = HeadState
    OBVIOUS
  <2>1. CASE c = 1
    <3>1. CASE cached.open
      BY <1>02, <2>1, <3>1 DEF CountInv, Current
    <3>2. CASE ~cached.open
      <4>1. base = HeadState
        BY <1>02, <2>1, <3>2 DEF Current
      <4>2. n # 0
        <5>1. ring # <<>>
          BY <1>2, <4>1, IdleIs DEF HeadState
        <5> QED BY <5>1 DEF Shape
      <4> QED BY <1>6, <4>1, <4>2
    <3> QED BY <3>1, <3>2
  <2>2. CASE c # 1
    BY <1>02, <1>1, <2>2 DEF CountInv
  <2> QED BY <2>1, <2>2
<1>8. ~raised => \A k \in 1..(n + 1) : Tells(k)'
  <2> SUFFICES ASSUME ~raised, NEW k \in 1..(n + 1) PROVE Tells(k)'
    OBVIOUS
  <2>1. CASE k \in 1..n
    BY <1>6, <2>1 DEF CountInv
  <2>2. CASE k = n + 1
    <3>1. Tells(n)
      BY <1>6, <1>7 DEF CountInv
    <3>2. Tells(n + 1)'
      <4>1. /\ n > 0 /\ base = HeadState /\ base.open /\ base \in States
            /\ ring' = Append(ring, r)
        BY <1>1, <1>2, <1>7
      <4>2. r.kind = "continuum" /\ r.st = Advance(base, last)
        BY <1>4, <1>04
      <4> QED BY <1>5, <3>1, <4>1, <4>2, OneMore
    <3> QED BY <2>2, <3>2
  <2> QED BY <1>6, <2>1, <2>2
<1>9. CountInv'
  <2>1. CASE end
    <3>1. ~(op'.chunk > 1) /\ cached' = st /\ HeadState' = st
      <4>1. ~(op'.chunk > 1)
        BY <1>3, <2>1
      <4>2. cached' = st
        BY <1>05, <2>1
      <4>3. HeadState' = st
        BY <1>4, <1>6
      <4> QED BY <4>1, <4>2, <4>3
    <3>2. n + 1 > 0 /\ Len(ring') = n + 1 /\ raised' = raised
      BY <1>2, <1>6
    <3> QED BY <1>8, <3>1, <3>2 DEF CountInv
  <2>2. CASE ~end
    <3>1. op'.chunk > 1 /\ op'.chunk # 1
      BY <1>1, <1>3, <2>2
    <3> QED BY <1>05, <1>2, <1>3, <1>4, <1>6, <1>8, <2>2, <3>1 DEF CountInv
  <2> QED BY <2>1, <2>2
\* A file that was not edited meanwhile: what comes is of the version that was
\* hashed, and all of it comes.
<1>10. f \in FileSet /\ ~edited =>
        /\ hash \in Versions /\ of = Chunks[hash] /\ ver = hash /\ (end => c = Chunks[hash])
  <2> SUFFICES ASSUME f \in FileSet, ~edited
               PROVE  /\ hash \in Versions /\ of = Chunks[hash] /\ ver = hash
                      /\ end => c = Chunks[hash]
    OBVIOUS
  <2>1. ReadTruly("seal", op.read, content[f])
    BY <1>2 DEF ReadInv
  <2>2. /\ hash \in Versions /\ of = Chunks[hash]
        /\ IF op.read.streamed THEN hash = content[f] /\ op.read.ver \in {0, content[f]}
           ELSE op.read.ver = hash
    BY <1>2, <2>1 DEF ReadTruly
  <2>3. CASE op.read.streamed
    <3>1. ver \in {op.read.ver, content[f]}
          /\ (end => c = Chunks[ver] \/ ver # content[f])
      BY <1>05, <2>3 DEF NextChunk
    <3>2. ver = hash
      BY <2>2, <2>3, <3>1, FilesAre
    <3>3. end => c = Chunks[hash]
      BY <2>2, <2>3, <3>1, <3>2
    <3> QED BY <2>2, <3>2, <3>3
  <2>4. CASE ~op.read.streamed
    BY <1>05, <2>2, <2>4 DEF NextChunk
  <2> QED BY <2>3, <2>4
\* What is sealed of f now, the new record with it.
<1>11. f \in FileSet /\ ~edited => /\ c <= n + 1
                        /\ \A k \in 1..c :
                             IsChunk((n + 1 - c) + k, f, hash, k)'
  <2> SUFFICES ASSUME f \in FileSet, ~edited
               PROVE  /\ c <= n + 1
                      /\ \A k \in 1..c :
                             IsChunk((n + 1 - c) + k, f, hash, k)'
    OBVIOUS
  <2>1. c <= n + 1
    BY <1>1, <1>6 DEF PartInv
  <2>2. ASSUME NEW k \in 1..c PROVE IsChunk((n + 1 - c) + k, f, hash, k)'
    <3>1. CASE k = c
      <4>1. (n + 1 - c) + k = n + 1
        BY <1>1, <1>6, <3>1
      <4>2. IsChunk(n + 1, f, hash, k)'
        BY <1>4, <1>6, <1>10, <3>1 DEF IsChunk
      <4> QED BY <4>1, <4>2
    <3>2. CASE k # c
      <4>1. /\ k \in 1..(c - 1) /\ c > 1
            /\ (n + 1 - c) + k = (n - (c - 1)) + k
            /\ (n + 1 - c) + k \in 1..n
        BY <1>1, <1>6, <2>1, <3>2
      <4>2. IsChunk((n - (c - 1)) + k, f, hash, k)
        BY <4>1 DEF PartInv
      <4>3. IsChunk((n + 1 - c) + k, f, hash, k)
        BY <4>1, <4>2
      <4> QED BY <1>6, <4>1, <4>3
    <3> QED BY <3>1, <3>2
  <2> QED BY <2>1, <2>2
<1>12. PartInv'
  <2>1. CASE end
    BY <1>3, <2>1 DEF PartInv
  <2>2. CASE ~end
    <3>1. op'.chunk > 1 /\ op'.chunk # 1 /\ op'.chunk - 1 = c /\ Head(op'.todo) = f
      BY <1>1, <1>3, <2>2
    <3>2. Len(ring') - (op'.chunk - 1) = n + 1 - c
      BY <1>1, <1>6, <3>1, SMTT(30)
    <3> QED BY <1>3, <1>6, <1>11, <2>2, <3>1, <3>2 DEF PartInv
  <2> QED BY <2>1, <2>2
<1>13. WholeInv'
  <2> SUFFICES ASSUME NEW g \in FileSet \ cut', NEW i \in 1..(n + 1), LastOf(g, i)',
                      ~InProgress(g)'
               PROVE  WholeAt(g, i)'
    BY <1>6 DEF WholeInv
  <2>1. CASE g = f
    <3>1. n + 1 \in Blocks(f)'
      BY <1>4, <1>6 DEF Blocks
    <3>2. i = n + 1
      BY <1>6, <2>1, <3>1 DEF LastOf
    <3>3. end
      <4> QED BY <1>1, <1>3, <2>1 DEF InProgress
    <3>4. ~edited
      BY <1>05, <2>1, <3>3
    <3>5. /\ ring'[n + 1].hash = hash /\ hash \in Versions /\ Chunks[hash] = c
          /\ c \in 1..(n + 1)
      BY <1>1, <1>4, <1>6, <1>10, <1>11, <2>1, <3>3, <3>4
    <3>6. \A k \in 1..c : IsChunk((n + 1 - c) + k, f, hash, k)'
      BY <1>11, <2>1, <3>4
    <3> QED BY <2>1, <3>2, <3>5, <3>6 DEF WholeAt
  <2>2. CASE g # f
    <3>1. n + 1 \notin Blocks(g)'
      BY <1>4, <1>6, <2>2 DEF Blocks
    <3>2. i \in 1..n
      BY <1>6, <3>1 DEF LastOf
    <3>3. LastOf(g, i)
      BY <1>6, <3>2 DEF LastOf, Blocks
    <3>4. ~InProgress(g) /\ g \notin cut
      BY <1>05, <2>2 DEF InProgress
    <3> QED BY <1>6, <3>2, <3>3, <3>4 DEF WholeInv
  <2> QED BY <2>1, <2>2
<1> QED BY <1>9, <1>12, <1>13

LEMMA NextChain == Shape /\ ReadInv /\ ChainInv /\ [Next]_vars => ChainInv'
<1> SUFFICES ASSUME Shape, ReadInv, ChainInv, [Next]_vars PROVE ChainInv'
  OBVIOUS
<1>0. /\ CallLike(op) /\ CallLike(Idle) /\ op.chunk \in Nat \ {0}
      /\ op.at # "seal" \/ op.todo = <<>> => op.chunk = 1
  BY IdleIs DEF Shape, ChainInv, CountInv, CallLike
<1>1. ASSUME NEW kind, NEW todo, NEW read, Create(kind, todo, read)
      PROVE  ChainInv'
  <2>1. op'.chunk = 1
    BY <1>0, <1>1, IdleIs DEF Create, CallLike
  <2>2. /\ ring' = ring /\ raised' = raised /\ cut' = cut
        /\ cached' = cached /\ op.at = "idle"
    BY <1>1 DEF Create
  <2> QED BY <1>0, <2>1, <2>2, ChainStays
<1>2. ASSUME NEW f \in FileSet, NEW v \in Versions, Upload(f, v) PROVE ChainInv'
  <2>1. op'.chunk = 1
    BY <1>0, <1>2, IdleIs DEF Upload, CallLike
  <2>2. /\ ring' = ring /\ raised' = raised /\ cut' = cut
        /\ cached' = cached /\ op.at = "idle"
    BY <1>2 DEF Upload
  <2> QED BY <1>0, <2>1, <2>2, ChainStays
<1>3. ASSUME NEW f \in FileSet, IngestFile(f) PROVE ChainInv'
  <2>1. op'.chunk = 1
    BY <1>0, <1>3, IdleIs DEF IngestFile, CallLike
  <2>2. /\ ring' = ring /\ raised' = raised /\ cut' = cut
        /\ cached' = cached /\ op.at = "idle"
    BY <1>3 DEF IngestFile
  <2> QED BY <1>0, <2>1, <2>2, ChainStays
<1>4. ASSUME NEW kind, Begin(kind) PROVE ChainInv'
  <2>1. op'.chunk = 1
    BY <1>0, <1>4, IdleIs DEF Begin, CallLike
  <2>2. /\ ring' = ring /\ raised' = raised /\ cut' = cut
        /\ cached' = cached /\ op.at = "idle"
    BY <1>4 DEF Begin
  <2> QED BY <1>0, <2>1, <2>2, ChainStays
<1>5. CASE Record
  <2>1. op' = Idle /\ op.at = "record"
    BY <1>5 DEF Record
  <2>2. /\ ring' = ring /\ raised' = raised /\ cut' = cut
        /\ cached' = cached
    BY <1>5 DEF Record
  <2> QED BY <1>0, <2>1, <2>2, IdleIs, ChainStays
<1>6. CASE Repair
  <2>1. op' = op /\ op.at = "idle"
    BY <1>6 DEF Repair
  <2>2. /\ ring' = ring /\ raised' = raised /\ cut' = cut
        /\ cached' = Unopened
    BY <1>6 DEF Repair
  <2> QED BY <1>0, <2>1, <2>2, ChainStays
<1>7. CASE Plan
  <2>1. op'.chunk = op.chunk /\ op.at = "plan"
    BY <1>0, <1>7 DEF Plan, CallLike
  <2>2. /\ ring' = ring /\ raised' = raised /\ cut' = cut
        /\ cached' = Current
    BY <1>7 DEF Plan
  <2> QED BY <1>0, <2>1, <2>2, ChainStays
<1>8. CASE SealRaises
  <2>1. /\ op' = Idle /\ CutShort /\ raised' = (raised \/ op.chunk > 1)
        /\ ring' = ring /\ cached' = cached
    BY <1>8 DEF SealRaises
  <2>2. (op.chunk > 1 => raised') /\ (raised => raised')
    BY <2>1
  <2> QED BY <2>1, <2>2, CallEnds
<1>9. CASE Crash
  <2>1. /\ op' = Idle /\ CutShort /\ raised' = raised
        /\ ring' = ring /\ cached' = Unopened
    BY <1>9 DEF Crash, durable
  <2> QED BY <2>1, CallEnds
<1>10. CASE Sealed
  <2>1. op'.chunk = op.chunk /\ op.todo = <<>>
    BY <1>0, <1>10 DEF Sealed, CallLike
  <2>2. /\ ring' = ring /\ raised' = raised /\ cut' = cut
        /\ cached' = cached
    BY <1>10 DEF Sealed
  <2> QED BY <1>0, <2>1, <2>2, ChainStays
<1>11. CASE OpenIndex
  <2>1. /\ op'.chunk \in {op.chunk, 1} /\ op.at = "index"
    BY <1>0, <1>11, IdleIs DEF OpenIndex, CallLike
  <2>2. /\ ring' = ring /\ raised' = raised /\ cut' = cut
        /\ cached' = cached
    BY <1>11 DEF OpenIndex
  <2> QED BY <1>0, <2>1, <2>2, ChainStays
<1>12. CASE Embedded \/ IndexRecord \/ IndexRecordRaises
  <2>1. op.at # "seal" /\ op'.chunk = 1
    <3>1. CASE Embedded
      BY <1>0, <3>1, IdleIs DEF Embedded, AfterEmbedding, CallLike
    <3>2. CASE IndexRecord
      BY <1>0, <3>2 DEF IndexRecord, CallLike
    <3>3. CASE IndexRecordRaises
      BY <1>0, <3>3 DEF IndexRecordRaises, CallLike
    <3> QED BY <1>12, <3>1, <3>2, <3>3
  <2>2. /\ ring' = ring /\ raised' = raised /\ cut' = cut
        /\ cached' = cached
    BY <1>12 DEF Embedded, IndexRecord, IndexRecordRaises
  <2> QED BY <1>0, <2>1, <2>2, ChainStays
<1>13. CASE Search \/ Reembed
  <2>1. op.at # "seal" /\ op'.chunk = 1
    <3>1. CASE Search
      BY <3>1, IdleIs DEF Search
    <3>2. CASE Reembed
      BY <1>0, <3>2, IdleIs DEF Reembed, CallLike
    <3> QED BY <1>13, <3>1, <3>2
  <2>2. /\ ring' = ring /\ raised' = raised /\ cut' = cut
        /\ cached' = cached
    BY <1>13 DEF Search, Reembed
  <2> QED BY <1>0, <2>1, <2>2, ChainStays
<1>14. CASE EmbedBatch \/ Reembedded
  <2>1. op.at # "seal" /\ op'.chunk = op.chunk
    <3>1. CASE EmbedBatch
      <4>1. PICK left, failed : op' = [op EXCEPT !.left = left, !.failed = failed]
        BY <3>1 DEF EmbedBatch
      <4> QED BY <1>0, <3>1, <4>1 DEF EmbedBatch, CallLike
    <3>2. CASE Reembedded
      BY <1>0, <3>2 DEF Reembedded, CallLike
    <3> QED BY <1>14, <3>1, <3>2
  <2>2. /\ ring' = ring /\ raised' = raised /\ cut' = cut
        /\ cached' = cached
    BY <1>14 DEF EmbedBatch, Reembedded
  <2> QED BY <1>0, <2>1, <2>2, ChainStays
<1>15. CASE UNCHANGED vars
  <2>1. /\ ring' = ring /\ raised' = raised /\ cut' = cut
        /\ cached' = cached /\ op' = op
    BY <1>15 DEF vars, durable
  <2>2. CountInv'
    BY <2>1, ZenonT(40) DEF ChainInv, CountInv, Tells, Done, Ended, Opens, HeadState
  <2>3. PartInv'
    BY <2>1 DEF ChainInv, PartInv, IsChunk
  <2>4. WholeInv'
    BY <2>1 DEF ChainInv, WholeInv, LastOf, Blocks, InProgress, WholeAt, IsChunk
  <2> QED BY <2>2, <2>3, <2>4 DEF ChainInv
<1>16. CASE ReadFile
  <2>1. PICK read : op' = [op EXCEPT !.read = read]
    BY <1>16 DEF ReadFile
  <2>2. op.chunk = 1
    BY <1>0, <1>16 DEF ReadFile, ReadInv
  <2>3. op'.chunk = 1
    BY <1>0, <2>1, <2>2 DEF CallLike
  <2> QED BY <1>16, <2>2, <2>3, ChainStays DEF ReadFile
<1>17. CASE ReadAgain
  <2>1. PICK read, at : op' = [op EXCEPT !.read = read, !.at = at]
    BY <1>17 DEF ReadAgain
  <2>2. op.chunk = 1
    BY <1>0, <1>17 DEF ReadAgain
  <2>3. op'.chunk = 1
    BY <1>0, <2>1, <2>2 DEF CallLike
  <2> QED BY <1>17, <2>2, <2>3, ChainStays DEF ReadAgain
<1> QED BY <1>1, <1>2, <1>3, <1>4, <1>5, <1>6, <1>7, <1>8, <1>9, <1>10, <1>11, <1>12, <1>13,
           <1>14, <1>15, <1>16, <1>17, SealOpenChain, SealChunkChain, EditChain DEF Next, IngestPath

LEMMA ChainTells == ChainInv => HeadTellsAll
BY DEF ChainInv, CountInv, Tells, Done, Ended, HeadTellsAll

LEMMA ChainWhole == Shape /\ ChainInv => SkippedIsWhole
<1> SUFFICES ASSUME Shape, ChainInv, NEW f \in FileSet \ cut, Latest(f) # 0,
                    ~(op.at = "seal" /\ op.chunk > 1)
             PROVE  LastIsWhole(f)
  BY DEF SkippedIsWhole
<1> DEFINE last == CHOOSE i \in Blocks(f) : \A j \in Blocks(f) : j <= i
           n    == Chunks[Latest(f)]
<1>1. Blocks(f) # {} /\ Latest(f) = ring[last].hash
  BY DEF Latest
<1>2. Len(ring) \in Nat /\ Blocks(f) \subseteq 1..Len(ring)
  BY DEF Shape, Blocks
<1>3. PICK m \in Blocks(f) : \A j \in Blocks(f) : j <= m
  BY <1>1, <1>2, GreatestNumber
<1>4. last \in Blocks(f) /\ \A j \in Blocks(f) : j <= last
  BY <1>3
<1> HIDE DEF last
<1>5. last \in 1..Len(ring) /\ LastOf(f, last) /\ ~InProgress(f)
  BY <1>2, <1>4 DEF LastOf, InProgress, ChainInv, CountInv
<1>6. WholeAt(f, last)
  BY <1>5 DEF ChainInv, WholeInv
<1>7. n \in 1..last /\ \A k \in 1..n : IsChunk((last - n) + k, f, Latest(f), k)
  BY <1>1, <1>6 DEF WholeAt
<1>8. last >= n
  <2> HIDE DEF n
  <2> QED BY <1>2, <1>5, <1>7
<1>9. \A k \in 1..n : /\ ring[(last - n) + k].file = f /\ ring[(last - n) + k].chunk = k
                      /\ ring[(last - n) + k].of = n
                      /\ ring[(last - n) + k].body = Latest(f)
  BY <1>7 DEF IsChunk
<1> QED BY <1>8, <1>9 DEF last, LastIsWhole

\* Every record carries what a count over the chain gives, so that a session
\* that starts from the head, whatever crashed, starts from the truth; only an
\* append that raised in the middle of a file breaks it.
THEOREM CountsAgree == Spec => []HeadTellsAll
<1>1. Init => Shape /\ ReadInv /\ ChainInv
  BY InitShape, InitRead, InitChain
<1>2. Shape /\ ReadInv /\ ChainInv /\ [Next]_vars => (Shape /\ ReadInv /\ ChainInv)'
  BY NextShape, NextRead, NextChain DEF ChainInv
<1> QED BY <1>1, <1>2, ChainTells, PTL DEF Spec

\* What a walk over the changed files skips is in the chain in full, of the
\* version its hash names, although text and hash are read at different times:
\* unless its last ingest was cut short, or the file was edited between them.
THEOREM SkipsOnlyWhole == Spec => []SkippedIsWhole
<1>1. Init => Shape /\ ReadInv /\ ChainInv
  BY InitShape, InitRead, InitChain
<1>2. Shape /\ ReadInv /\ ChainInv /\ [Next]_vars => (Shape /\ ReadInv /\ ChainInv)'
  BY NextShape, NextRead, NextChain DEF ChainInv
<1> QED BY <1>1, <1>2, ChainWhole, PTL DEF Spec

-----------------------------------------------------------------------------
(* How a text is cut.  The induction is over its lines: Cut says of the     *)
(* loop after i lines what WellCut says of the whole, of the chunks cut and *)
(* the one being filled together.                                           *)

LEMMA Induction ==
    ASSUME NEW T \in SUBSET Nat, 0 \in T, \A n \in T : n + 1 \in T
    PROVE  T = Nat
<1> SUFFICES ASSUME Nat \ T # {} PROVE FALSE
  OBVIOUS
<1>1. PICK m \in Nat \ T : \A k \in Nat \ T : m <= k
  BY LeastNumber
<1>2. m # 0 /\ m - 1 \in Nat
  BY <1>1
<1>3. m - 1 \in T
  BY <1>1, <1>2
<1> QED BY <1>1, <1>2, <1>3

\* The two loops are well defined.
LEMMA ScanStep ==
    ASSUME NEW text, Len(text) \in Nat
    PROVE  Scan(text) = [i \in 0..Len(text) |->
                            IF i = 0 THEN Start ELSE TakeLine(Scan(text)[i - 1], text[i])]
<1> DEFINE More(s, i) == TakeLine(s, text[i])
           Ok(f, n) == f = [k \in 0..n |-> IF k = 0 THEN Start ELSE More(f[k - 1], k)]
           T == {n \in Nat : \E f : Ok(f, n)}
<1> HIDE DEF More
<1>1. 0 \in T
  <2>1. PICK f : f = [k \in 0..0 |-> Start]
    OBVIOUS
  <2>2. Ok(f, 0)
    BY <2>1
  <2> QED BY <2>2
<1>2. ASSUME NEW n \in T PROVE n + 1 \in T
  <2>1. PICK f : Ok(f, n)
    OBVIOUS
  <2>2. PICK g : g = [k \in 0..(n + 1) |-> IF k = n + 1 THEN More(f[n], n + 1) ELSE f[k]]
    OBVIOUS
  <2>3. \A k \in 0..(n + 1) : g[k] = IF k = 0 THEN Start ELSE More(g[k - 1], k)
    <3>1. ASSUME NEW k \in 0..n PROVE g[k] = IF k = 0 THEN Start ELSE More(g[k - 1], k)
      <4>1. g[k] = f[k] /\ (k # 0 => g[k - 1] = f[k - 1])
        BY <2>2
      <4> QED BY <2>1, <4>1
    <3>2. g[n + 1] = More(g[n], n + 1) /\ n + 1 # 0 /\ (n + 1) - 1 = n
      BY <2>2
    <3>3. \A k \in 0..(n + 1) : k \in 0..n \/ k = n + 1
      OBVIOUS
    <3> QED BY <3>1, <3>2, <3>3
  <2>4. g = [k \in 0..(n + 1) |-> g[k]]
    BY <2>2
  <2>5. [k \in 0..(n + 1) |-> g[k]]
          = [k \in 0..(n + 1) |-> IF k = 0 THEN Start ELSE More(g[k - 1], k)]
    BY <2>3
  <2>6. Ok(g, n + 1)
    BY <2>4, <2>5
  <2> HIDE DEF Ok
  <2> QED BY <2>6
<1>3. \E f : Ok(f, Len(text))
  <2>1. T = Nat
    <3> HIDE DEF T
    <3>1. T \in SUBSET Nat
      BY DEF T
    <3> QED BY <1>1, <1>2, <3>1, Induction
  <2> QED BY <2>1
<1> QED BY <1>3 DEF Scan, More

LEMMA EndsStep ==
    ASSUME NEW text, Len(text) \in Nat
    PROVE  LineEnds(text) = [i \in 0..Len(text) |->
                                IF i = 0 THEN 0 ELSE LineEnds(text)[i - 1] + text[i]]
<1> DEFINE More(s, i) == s + text[i]
           Ok(f, n) == f = [k \in 0..n |-> IF k = 0 THEN 0 ELSE More(f[k - 1], k)]
           T == {n \in Nat : \E f : Ok(f, n)}
<1> HIDE DEF More
<1>1. 0 \in T
  <2>1. PICK f : f = [k \in 0..0 |-> 0]
    OBVIOUS
  <2>2. Ok(f, 0)
    BY <2>1
  <2> QED BY <2>2
<1>2. ASSUME NEW n \in T PROVE n + 1 \in T
  <2>1. PICK f : Ok(f, n)
    OBVIOUS
  <2>2. PICK g : g = [k \in 0..(n + 1) |-> IF k = n + 1 THEN More(f[n], n + 1) ELSE f[k]]
    OBVIOUS
  <2>3. \A k \in 0..(n + 1) : g[k] = IF k = 0 THEN 0 ELSE More(g[k - 1], k)
    <3>1. ASSUME NEW k \in 0..n PROVE g[k] = IF k = 0 THEN 0 ELSE More(g[k - 1], k)
      <4>1. g[k] = f[k] /\ (k # 0 => g[k - 1] = f[k - 1])
        BY <2>2
      <4> QED BY <2>1, <4>1
    <3>2. g[n + 1] = More(g[n], n + 1) /\ n + 1 # 0 /\ (n + 1) - 1 = n
      BY <2>2
    <3>3. \A k \in 0..(n + 1) : k \in 0..n \/ k = n + 1
      OBVIOUS
    <3> QED BY <3>1, <3>2, <3>3
  <2>4. g = [k \in 0..(n + 1) |-> g[k]]
    BY <2>2
  <2>5. [k \in 0..(n + 1) |-> g[k]]
          = [k \in 0..(n + 1) |-> IF k = 0 THEN 0 ELSE More(g[k - 1], k)]
    BY <2>3
  <2>6. Ok(g, n + 1)
    BY <2>4, <2>5
  <2> HIDE DEF Ok
  <2> QED BY <2>6
<1>3. \E f : Ok(f, Len(text))
  <2>1. T = Nat
    <3> HIDE DEF T
    <3>1. T \in SUBSET Nat
      BY DEF T
    <3> QED BY <1>1, <1>2, <3>1, Induction
  <2> QED BY <2>1
<1> QED BY <1>3 DEF LineEnds, More

\* Lines have at least one character.
Texts == Seq(Nat \ {0})

LEMMA EndsFacts ==
    ASSUME NEW text \in Texts
    PROVE  /\ Len(text) \in Nat /\ LineEnds(text)[0] = 0
           /\ \A i \in 1..Len(text) :
                /\ text[i] \in Nat \ {0}
                /\ LineEnds(text)[i - 1] \in Nat /\ LineEnds(text)[i] \in Nat
                /\ LineEnds(text)[i] = LineEnds(text)[i - 1] + text[i]
           /\ LineEnds(text)[Len(text)] \in Nat
           /\ text # <<>> => LineEnds(text)[Len(text)] > 0 /\ Len(text) > 0
<1> DEFINE at == LineEnds(text)
           T == {n \in Nat : n <= Len(text) => at[n] \in Nat}
<1>1. Len(text) \in Nat /\ \A i \in 1..Len(text) : text[i] \in Nat \ {0}
  BY DEF Texts
<1>2. at = [i \in 0..Len(text) |-> IF i = 0 THEN 0 ELSE at[i - 1] + text[i]]
  BY <1>1, EndsStep
<1> HIDE DEF at
<1>3. at[0] = 0 /\ \A i \in 1..Len(text) : at[i] = at[i - 1] + text[i]
  BY <1>1, <1>2
<1>4. 0 \in T
  BY <1>3
<1>5. ASSUME NEW n \in T PROVE n + 1 \in T
  <2>1. SUFFICES ASSUME n + 1 <= Len(text) PROVE at[n + 1] \in Nat
    OBVIOUS
  <2>2. n \in Nat /\ n + 1 \in 1..Len(text) /\ (n + 1) - 1 = n /\ at[n] \in Nat
    BY <1>1, <2>1
  <2> QED BY <1>1, <1>3, <2>2
<1>6. T = Nat
  <2>1. T \in SUBSET Nat
    OBVIOUS
  <2> HIDE DEF T
  <2> QED BY <1>4, <1>5, <2>1, Induction
<1>7. \A i \in 0..Len(text) : at[i] \in Nat
  BY <1>1, <1>6
<1>8. text # <<>> => Len(text) > 0
  BY DEF Texts
<1>9. Len(text) > 0 => at[Len(text)] > 0
  <2>1. SUFFICES ASSUME Len(text) > 0 PROVE at[Len(text)] > 0
    OBVIOUS
  <2>2. Len(text) \in 1..Len(text) /\ Len(text) - 1 \in 0..Len(text)
    BY <1>1, <2>1
  <2>3. at[Len(text)] = at[Len(text) - 1] + text[Len(text)]
    BY <1>3, <2>2
  <2> QED BY <1>1, <1>7, <2>2, <2>3
<1>10. \A i \in 1..Len(text) : i - 1 \in 0..Len(text) /\ i \in 0..Len(text)
  BY <1>1
<1> QED BY <1>1, <1>3, <1>7, <1>8, <1>9, <1>10 DEF at

-----------------------------------------------------------------------------
LEMMA TokensCeiling ==
    ASSUME NEW n \in Nat, NEW k \in Nat \ {0}
    PROVE  /\ Tokens(n) \in Nat \ {0}
           /\ Tokens(n) <= k <=> n < CharsPerToken * (k + 1)
<1>1. CharsPerToken \in Nat \ {0}
  BY ChunkerAssumption
<1> DEFINE c == CharsPerToken
<1> HIDE DEF c
<1>2. c \in Nat \ {0}
  BY <1>1 DEF c
<1>3. n \div c \in Nat /\ c * (n \div c) <= n /\ n < c * ((n \div c) + 1)
  BY <1>2, SMTT(60)
<1>4. n \div c <= k <=> n < c * (k + 1)
  BY <1>2, SMTT(60)
<1>5. CASE n < c
  <2>1. Tokens(n) = 1
    BY <1>5 DEF Tokens, c
  <2>2. c <= c * (k + 1)
    BY <1>2, SMTT(60)
  <2> QED BY <1>2, <1>5, <2>1, <2>2 DEF c
<1>6. CASE ~(n < c)
  <2>1. Tokens(n) = n \div c
    BY <1>6 DEF Tokens, c
  <2>2. n \div c # 0
    BY <1>2, <1>3, <1>6, SMTT(60)
  <2> QED BY <1>3, <1>4, <2>1, <2>2 DEF c
<1> QED BY <1>5, <1>6

LEMMA TokensGrow ==
    ASSUME NEW m \in Nat, NEW n \in Nat, m <= n
    PROVE  Tokens(m) <= Tokens(n)
<1>1. Tokens(n) \in Nat \ {0} /\ n < CharsPerToken * (Tokens(n) + 1)
  <2>1. Tokens(n) \in Nat \ {0}
    <3>1. 1 \in Nat \ {0}
      OBVIOUS
    <3> QED BY <3>1, TokensCeiling
  <2>2. Tokens(n) <= Tokens(n)
    BY <2>1
  <2> HIDE DEF Tokens
  <2> QED BY <2>1, <2>2, TokensCeiling
<1>2. CharsPerToken * (Tokens(n) + 1) \in Nat
  BY <1>1, ChunkerAssumption, SMTT(60)
<1>3. m < CharsPerToken * (Tokens(n) + 1)
  BY <1>1, <1>2
<1> QED BY <1>1, <1>3, TokensCeiling

-----------------------------------------------------------------------------
ChunkSet == [lo : Nat, hi : Nat, first : Nat, last : Nat]

\* The greatest size of a piece of a line that is cut.
PieceSize == MaxTokens * CharsPerToken

Long(text, i) == Tokens(text[i]) > MaxTokens

\* Chunk k of d is of whole lines, or it is a piece of one: of the greatest
\* size, or the rest after a piece of that size.
Made(text, d, k) ==
    IF Long(text, d[k].first)
      THEN d[k].last = d[k].first
      ELSE ~Long(text, d[k].last) /\ Size(d[k]) >= text[d[k].first]

Rest(text, d, k) ==
    Long(text, d[k].last) =>
        IF d[k].hi < LineEnds(text)[d[k].last]
          THEN Size(d[k]) = PieceSize
          ELSE k > 1 /\ Size(d[k - 1]) = PieceSize

Fits(text, d, k) == HoldsLines(text, d[k]) /\ Made(text, d, k) /\ Rest(text, d, k)

Joins(text, d, k) == d[k].hi = d[k + 1].lo /\ CutDue(text, d[k], d[k + 1])

\* What is cut so far.
Sound(text, d) ==
    /\ d \in Seq(ChunkSet)
    /\ d # <<>> => d[1].lo = 0
    /\ \A k \in 1..Len(d) : Fits(text, d, k)
    /\ \A k \in 1..(Len(d) - 1) : Joins(text, d, k)

LEMMA PieceFacts ==
    /\ PieceSize \in Nat \ {0}
    /\ CharsPerToken \in Nat \ {0} /\ MaxTokens \in Nat \ {0} /\ TargetTokens \in Nat \ {0}
    /\ MinTokens \in Nat \ {0} /\ MinTokens <= TargetTokens /\ TargetTokens <= MaxTokens
    /\ \A n \in Nat : n <= PieceSize => Tokens(n) <= MaxTokens
    /\ \A n \in Nat : Tokens(n) > MaxTokens => n > PieceSize
    /\ \A n \in Nat : n >= PieceSize => Tokens(n) >= MaxTokens
    /\ \A n \in Nat : Tokens(PieceSize + n) <= MaxTokens => n < CharsPerToken
<1>1. /\ CharsPerToken \in Nat \ {0} /\ MaxTokens \in Nat \ {0} /\ TargetTokens \in Nat \ {0}
      /\ MinTokens \in Nat \ {0} /\ MinTokens <= TargetTokens /\ TargetTokens <= MaxTokens
  BY ChunkerAssumption
<1>2. PieceSize \in Nat \ {0} /\ CharsPerToken * (MaxTokens + 1) = PieceSize + CharsPerToken
  BY <1>1, SMTT(60) DEF PieceSize
<1>3. \A n \in Nat : Tokens(n) \in Nat /\ (Tokens(n) <= MaxTokens <=> n < PieceSize + CharsPerToken)
  BY <1>1, <1>2, TokensCeiling
<1>4. ASSUME NEW n \in Nat, n >= PieceSize PROVE Tokens(n) >= MaxTokens
  <2>1. CASE MaxTokens = 1
    <3>1. Tokens(n) \in Nat \ {0}
      BY <1>1, TokensCeiling
    <3> QED BY <2>1, <3>1
  <2>2. CASE MaxTokens # 1
    <3>1. MaxTokens - 1 \in Nat \ {0} /\ (MaxTokens - 1) + 1 = MaxTokens
      BY <1>1, <2>2
    <3>2. CharsPerToken * MaxTokens = PieceSize
      BY <1>1, SMTT(60) DEF PieceSize
    <3>3. Tokens(n) <= MaxTokens - 1 <=> n < CharsPerToken * ((MaxTokens - 1) + 1)
      BY <3>1, TokensCeiling
    <3>4. ~(Tokens(n) <= MaxTokens - 1)
      BY <1>2, <1>4, <3>1, <3>2, <3>3
    <3> QED BY <1>1, <1>3, <3>4
  <2> QED BY <2>1, <2>2
<1>5. ASSUME NEW n \in Nat PROVE PieceSize + n \in Nat
  BY <1>2
<1> HIDE DEF PieceSize, Tokens
<1>6. \A n \in Nat : n <= PieceSize => Tokens(n) <= MaxTokens
  BY <1>1, <1>2, <1>3
<1>7. \A n \in Nat : Tokens(n) > MaxTokens => n > PieceSize
  BY <1>1, <1>2, <1>3
<1>8. \A n \in Nat : Tokens(PieceSize + n) <= MaxTokens => n < CharsPerToken
  BY <1>1, <1>2, <1>3, <1>5
<1> QED BY <1>1, <1>2, <1>4, <1>6, <1>7, <1>8

\* The pieces of a long line, from where it begins to where it ends.
InPieces(e, q, at, line, len) ==
    /\ e \in Seq(ChunkSet) /\ Len(e) = q
    /\ e[1].lo = at /\ e[q].hi = at + len
    /\ \A j \in 1..q : /\ e[j].first = line /\ e[j].last = line
                       /\ Size(e[j]) > 0 /\ Size(e[j]) <= PieceSize
                       /\ at <= e[j].lo /\ e[j].hi <= at + len
    /\ \A j \in 1..(q - 1) : /\ Size(e[j]) = PieceSize
                             /\ e[j].hi < at + len
                             /\ e[j].hi = e[j + 1].lo

LEMMA SlicesAre ==
    ASSUME NEW at \in Nat, NEW line \in Nat, NEW len \in Nat, len > PieceSize
    PROVE  \E q \in Nat \ {0, 1} : InPieces(Slices(at, line, len), q, at, line, len)
<1> DEFINE st == PieceSize
           q == (len + st - 1) \div st
           e == Slices(at, line, len)
           End(i) == IF i * st < len THEN i * st ELSE len
<1>1. st \in Nat \ {0} /\ len > st
  BY PieceFacts
<1>2. e = [i \in 1..q |-> [lo |-> at + (i - 1) * st, hi |-> at + End(i),
                           first |-> line, last |-> line]]
  BY DEF Slices, PieceSize
<1> HIDE DEF st, e
<1>3. q \in Nat /\ st * q <= len + st - 1 /\ len + st - 1 < st * (q + 1)
  <2>1. len + st - 1 \in Nat
    BY <1>1
  <2> DEFINE m == len + st - 1
  <2> HIDE DEF m
  <2>2. m \div st \in Nat /\ st * (m \div st) <= m /\ m < st * ((m \div st) + 1)
    BY <1>1, <2>1, SMTT(60) DEF m
  <2> QED BY <2>2 DEF m
<1> HIDE DEF q
<1>4. q * st >= len /\ (q - 1) * st < len /\ q > 1
  <2>1. st * (q + 1) = q * st + st /\ (q - 1) * st = q * st - st /\ st * q = q * st
    BY <1>1, <1>3, SMTT(60)
  <2>2. q * st \in Int
    BY <1>1, <1>3
  <2>3. q * st >= len /\ (q - 1) * st < len
    BY <1>1, <1>3, <2>1, <2>2
  <2>4. q # 0 /\ q # 1
    BY <1>1, <1>3, <2>3
  <2> QED BY <1>3, <2>3, <2>4
<1>5. ASSUME NEW i \in 1..(q - 1)
      PROVE  i * st \in Nat /\ i * st < len /\ i * st = (i - 1) * st + st /\ (i - 1) * st \in Nat
  <2>1. i * st = (i - 1) * st + st /\ i * st <= (q - 1) * st /\ i * st \in Nat /\ (i - 1) * st \in Nat
    BY <1>1, <1>3, SMTT(60)
  <2>2. (q - 1) * st \in Int
    BY <1>1, <1>3
  <2> QED BY <1>4, <2>1, <2>2
<1>6. ASSUME NEW i \in 1..(q - 1)
      PROVE  /\ e[i].lo = at + (i - 1) * st /\ e[i].hi = at + i * st
             /\ e[i].lo \in Nat /\ e[i].hi \in Nat
             /\ e[i] \in ChunkSet /\ e[i].first = line /\ e[i].last = line
             /\ Size(e[i]) = st /\ e[i].hi < at + len /\ at <= e[i].lo
             /\ e[i + 1].lo = at + i * st
  <2>1. End(i) = i * st
    BY <1>5
  <2>2. i \in 1..q /\ i + 1 \in 1..q /\ (i + 1) - 1 = i
    BY <1>3
  <2>3. e[i] = [lo |-> at + (i - 1) * st, hi |-> at + i * st, first |-> line, last |-> line]
    BY <1>2, <2>1, <2>2
  <2> HIDE DEF End
  <2>4. e[i + 1] = [lo |-> at + i * st, hi |-> at + End(i + 1), first |-> line, last |-> line]
    BY <1>2, <2>2
  <2> QED BY <1>1, <1>5, <2>3, <2>4 DEF ChunkSet, Size
<1>7. /\ e[q].lo = at + (q - 1) * st /\ e[q].hi = at + len
      /\ e[q] \in ChunkSet /\ e[q].first = line /\ e[q].last = line
      /\ Size(e[q]) > 0 /\ Size(e[q]) <= st /\ at <= e[q].lo
  <2>1. End(q) = len
    <3>1. q * st \in Int
      BY <1>1, <1>3
    <3> QED BY <1>1, <1>4, <3>1
  <2>2. q \in 1..q
    BY <1>3, <1>4
  <2>3. e[q] = [lo |-> at + (q - 1) * st, hi |-> at + len, first |-> line, last |-> line]
    BY <1>2, <2>1, <2>2
  <2>4. (q - 1) * st \in Nat /\ q * st = (q - 1) * st + st
    BY <1>1, <1>3, <1>4, SMTT(60)
  <2> QED BY <1>1, <1>4, <2>3, <2>4 DEF ChunkSet, Size
<1>8. \A i \in 1..q : i = q \/ i \in 1..(q - 1)
  BY <1>3
<1>9. e \in Seq(ChunkSet) /\ Len(e) = q
  <2>1. \A i \in 1..q : e[i] \in ChunkSet
    BY <1>6, <1>7, <1>8
  <2>2. e = [i \in 1..q |-> e[i]]
    BY <1>2
  <2>3. e \in [1..q -> ChunkSet]
    BY <2>1, <2>2
  <2> QED BY <1>3, <2>3
<1>10. e[1].lo = at
  <2>1. 1 \in 1..(q - 1) /\ (1 - 1) * st = 0
    BY <1>1, <1>3, <1>4
  <2> QED BY <1>6, <2>1
<1>11. \A i \in 1..(q - 1) : e[i].hi = e[i + 1].lo
  BY <1>6
<1>12. \A i \in 1..q : /\ e[i].first = line /\ e[i].last = line
                       /\ Size(e[i]) > 0 /\ Size(e[i]) <= st
                       /\ at <= e[i].lo /\ e[i].hi <= at + len
  <2>1. ASSUME NEW i \in 1..(q - 1) PROVE Size(e[i]) > 0 /\ Size(e[i]) <= st /\ e[i].hi <= at + len
    BY <1>1, <1>6
  <2>2. e[q].hi <= at + len
    BY <1>7
  <2> QED BY <1>6, <1>7, <1>8, <2>1, <2>2
<1> QED
  <2>1. q \in Nat \ {0, 1}
    BY <1>3, <1>4
  <2>2. \A i \in 1..(q - 1) : Size(e[i]) = st /\ e[i].hi < at + len
    BY <1>6
  <2>3. InPieces(e, q, at, line, len)
    BY <1>7, <1>9, <1>10, <1>11, <1>12, <2>2 DEF st, InPieces
  <2> QED BY <2>1, <2>3 DEF e

LEMMA SeqEndsIn ==
    ASSUME NEW S, NEW d \in Seq(S), NEW c \in S
    PROVE  LET t == Append(d, c) IN
           /\ t \in Seq(S) /\ Len(d) \in Nat /\ Len(t) = Len(d) + 1 /\ t # <<>>
           /\ t[Len(d) + 1] = c /\ \A k \in 1..Len(d) : t[k] = d[k]
OBVIOUS

\* What is sound stays so without its last chunk, and with one more that fits.
LEMMA SoundWithout ==
    ASSUME NEW text, NEW d \in Seq(ChunkSet), NEW c \in ChunkSet, Sound(text, Append(d, c))
    PROVE  Sound(text, d)
<1> DEFINE t == Append(d, c)
<1>1. /\ Len(d) \in Nat /\ Len(t) = Len(d) + 1
      /\ \A k \in 1..Len(d) : t[k] = d[k]
      /\ t # <<>>
  BY SeqEndsIn
<1>2. /\ t[1].lo = 0
      /\ \A k \in 1..Len(t) : Fits(text, t, k)
      /\ \A k \in 1..(Len(t) - 1) : Joins(text, t, k)
  BY <1>1 DEF Sound
<1> HIDE DEF t
<1>3. ASSUME NEW k \in 1..Len(d) PROVE Fits(text, d, k)
  <2>1. t[k] = d[k] /\ (k > 1 => t[k - 1] = d[k - 1]) /\ k \in 1..Len(t)
    BY <1>1
  <2>2. Fits(text, t, k)
    BY <1>2, <2>1
  <2>3. CASE k > 1
    BY <2>1, <2>2, <2>3 DEF Fits, Made, Rest
  <2>4. CASE ~(k > 1)
    BY <2>1, <2>2, <2>4 DEF Fits, Made, Rest
  <2> QED BY <2>3, <2>4
<1>4. ASSUME NEW k \in 1..(Len(d) - 1) PROVE Joins(text, d, k)
  <2>1. t[k] = d[k] /\ t[k + 1] = d[k + 1] /\ k \in 1..(Len(t) - 1)
    BY <1>1
  <2>2. Joins(text, t, k)
    BY <1>2, <2>1
  <2> QED BY <2>1, <2>2 DEF Joins
<1>5. d # <<>> => d[1].lo = 0
  <2>1. d # <<>> => 1 \in 1..Len(d)
    BY <1>1
  <2> QED BY <1>1, <1>2, <2>1
<1> QED BY <1>3, <1>4, <1>5 DEF Sound

LEMMA SoundWith ==
    ASSUME NEW text, NEW d \in Seq(ChunkSet), NEW e \in Seq(ChunkSet), e # <<>>,
           Sound(text, d),
           IF d = <<>> THEN e[1].lo = 0
           ELSE d[Len(d)].hi = e[1].lo /\ CutDue(text, d[Len(d)], e[1]),
           \A k \in 1..Len(e) : HoldsLines(text, e[k]) /\ Made(text, e, k),
           \A k \in 1..Len(e) : Rest(text, e, k),
           \A k \in 1..(Len(e) - 1) : Joins(text, e, k)
    PROVE  Sound(text, d \o e)
<1> DEFINE t == d \o e
           n == Len(d)
           m == Len(e)
<1>1. /\ n \in Nat /\ m \in Nat /\ m > 0 /\ t \in Seq(ChunkSet) /\ Len(t) = n + m
      /\ \A k \in 1..n : t[k] = d[k]
      /\ \A k \in 1..m : t[n + k] = e[k]
  OBVIOUS
<1>2. /\ \A k \in 1..n : Fits(text, d, k)
      /\ \A k \in 1..(n - 1) : Joins(text, d, k)
      /\ n > 0 => d[1].lo = 0
  <2>1. n > 0 => d # <<>>
    OBVIOUS
  <2> QED BY <2>1 DEF Sound
<1>3. IF n = 0 THEN e[1].lo = 0 ELSE d[n].hi = e[1].lo /\ CutDue(text, d[n], e[1])
  <2>1. n = 0 <=> d = <<>>
    OBVIOUS
  <2> QED BY <2>1
<1> HIDE DEF t, n, m
<1>4. ASSUME NEW k \in 1..n PROVE Fits(text, t, k)
  <2>1. t[k] = d[k] /\ (k > 1 => t[k - 1] = d[k - 1]) /\ Fits(text, d, k)
    BY <1>1, <1>2
  <2>2. CASE k > 1
    BY <2>1, <2>2 DEF Fits, Made, Rest
  <2>3. CASE ~(k > 1)
    BY <2>1, <2>3 DEF Fits, Made, Rest
  <2> QED BY <2>2, <2>3
<1>5. ASSUME NEW k \in 1..m PROVE Fits(text, t, n + k)
  <2>1. t[n + k] = e[k] /\ (k > 1 => t[(n + k) - 1] = e[k - 1] /\ n + k > 1)
    <3>1. k > 1 => k - 1 \in 1..m /\ n + (k - 1) = (n + k) - 1 /\ n + k > 1
      BY <1>1
    <3>2. k > 1 => t[n + (k - 1)] = e[k - 1]
      BY <1>1, <3>1
    <3> QED BY <1>1, <3>1, <3>2
  <2>2. HoldsLines(text, t[n + k]) /\ Made(text, t, n + k)
    BY <2>1 DEF Made, m
  <2>3. Rest(text, e, k)
    BY DEF m
  <2>4. Rest(text, t, n + k)
    BY <2>1, <2>3 DEF Rest
  <2> QED BY <2>2, <2>4 DEF Fits
<1>6. \A k \in 1..(n + m) : k \in 1..n \/ (k - n \in 1..m /\ n + (k - n) = k)
  BY <1>1
<1>7. \A k \in 1..(n + m) : Fits(text, t, k)
  BY <1>4, <1>5, <1>6
<1>8. ASSUME NEW k \in 1..((n + m) - 1) PROVE Joins(text, t, k)
  <2>0. n \in Nat /\ m \in Nat /\ m > 0 /\ k \in Nat /\ 1 <= k /\ k <= (n + m) - 1
    BY <1>1
  <2>1. CASE k < n
    <3>0. k \in 1..n /\ k + 1 \in 1..n /\ k \in 1..(n - 1)
      BY <2>0, <2>1
    <3>1. t[k] = d[k] /\ t[k + 1] = d[k + 1] /\ k \in 1..(n - 1)
      BY <1>1, <3>0
    <3>2. Joins(text, d, k)
      BY <1>2, <3>1
    <3> QED BY <3>1, <3>2 DEF Joins
  <2>2. CASE k = n
    <3>1. t[k] = d[n] /\ t[k + 1] = e[1] /\ n # 0
      <4>1. k \in 1..n /\ 1 \in 1..m
        BY <1>1, <2>2
      <4> QED BY <1>1, <2>2, <4>1
    <3> QED BY <1>3, <3>1 DEF Joins
  <2>3. CASE k > n
    <3>1. /\ k - n \in 1..(m - 1) /\ k - n \in 1..m /\ (k - n) + 1 \in 1..m
          /\ n + (k - n) = k /\ n + ((k - n) + 1) = k + 1
      <4> DEFINE h == k - n
      <4>1. h \in Nat /\ h >= 1 /\ h <= m - 1 /\ n + h = k
        BY <2>0, <2>3
      <4> HIDE DEF h
      <4>2. h \in 1..(m - 1) /\ h \in 1..m /\ h + 1 \in 1..m /\ n + (h + 1) = k + 1
        BY <2>0, <4>1
      <4> QED BY <4>1, <4>2 DEF h
    <3>2. t[k] = e[k - n] /\ t[k + 1] = e[(k - n) + 1]
      BY <1>1, <3>1
    <3>3. Joins(text, e, k - n)
      BY <3>1 DEF m
    <3> QED BY <3>2, <3>3 DEF Joins
  <2> QED BY <2>0, <2>1, <2>2, <2>3
<1>9. t[1].lo = 0
  <2>1. CASE n = 0
    <3>1. t[n + 1] = e[1] /\ n + 1 = 1
      <4>1. 1 \in 1..m
        BY <1>1
      <4> QED BY <1>1, <2>1, <4>1
    <3> QED BY <1>3, <2>1, <3>1
  <2>2. CASE n # 0
    <3>1. 1 \in 1..n
      BY <1>1, <2>2
    <3> QED BY <1>1, <1>2, <3>1
  <2> QED BY <2>1, <2>2
<1> QED BY <1>1, <1>7, <1>8, <1>9 DEF Sound, t

LEMMA SoundWithOne ==
    ASSUME NEW text, NEW d \in Seq(ChunkSet), NEW c \in ChunkSet, Sound(text, d),
           IF d = <<>> THEN c.lo = 0 ELSE d[Len(d)].hi = c.lo /\ CutDue(text, d[Len(d)], c),
           HoldsLines(text, c), ~Long(text, c.first), ~Long(text, c.last),
           Size(c) >= text[c.first]
    PROVE  Sound(text, Append(d, c))
<1> DEFINE e == <<c>>
<1>1. e \in Seq(ChunkSet) /\ e # <<>> /\ Len(e) = 1 /\ e[1] = c
  OBVIOUS
<1>2. Append(d, c) = d \o e
  OBVIOUS
<1> HIDE DEF e
<1>3. \A k \in 1..Len(e) : k = 1
  BY <1>1
<1>4. \A k \in 1..Len(e) : HoldsLines(text, e[k]) /\ Made(text, e, k) /\ Rest(text, e, k)
  BY <1>1, <1>3 DEF Made, Rest
<1>5. \A k \in 1..(Len(e) - 1) : Joins(text, e, k)
  BY <1>1
<1>6. IF d = <<>> THEN e[1].lo = 0 ELSE d[Len(d)].hi = e[1].lo /\ CutDue(text, d[Len(d)], e[1])
  BY <1>1
<1>7. Sound(text, d \o e)
  BY <1>1, <1>4, <1>5, <1>6, SoundWith
<1> QED BY <1>2, <1>7

LEMMA LastJoins ==
    ASSUME NEW text, NEW d \in Seq(ChunkSet), NEW c \in ChunkSet, Sound(text, Append(d, c))
    PROVE  /\ IF d = <<>> THEN c.lo = 0
              ELSE d[Len(d)].hi = c.lo /\ CutDue(text, d[Len(d)], c)
           /\ HoldsLines(text, c)
           /\ ~Long(text, c.first) => Size(c) >= text[c.first]
<1> DEFINE t == Append(d, c)
           n == Len(d)
<1>1. /\ n \in Nat /\ Len(t) = n + 1 /\ t # <<>> /\ t[n + 1] = c
      /\ \A k \in 1..n : t[k] = d[k]
  BY SeqEndsIn
<1>2. n = 0 <=> d = <<>>
  OBVIOUS
<1>3. /\ t[1].lo = 0 /\ Fits(text, t, n + 1)
      /\ \A k \in 1..n : Joins(text, t, k)
  <2>1. Sound(text, t)
    OBVIOUS
  <2> HIDE DEF t, n
  <2>2. n + 1 \in 1..Len(t) /\ 1..n = 1..(Len(t) - 1)
    BY <1>1
  <2> QED BY <1>1, <2>1, <2>2 DEF Sound
<1> HIDE DEF t, n
<1>4. HoldsLines(text, c) /\ (~Long(text, c.first) => Size(c) >= text[c.first])
  BY <1>1, <1>3 DEF Fits, Made
<1>5. CASE n = 0
  BY <1>1, <1>2, <1>3, <1>4, <1>5
<1>6. CASE n # 0
  <2>1. n \in 1..n
    BY <1>1, <1>6
  <2>2. Joins(text, t, n) /\ t[n] = d[n]
    BY <1>1, <1>3, <2>1
  <2> QED BY <1>1, <1>2, <1>4, <1>6, <2>2 DEF Joins, n
<1> QED BY <1>5, <1>6

-----------------------------------------------------------------------------
StateLike(s) ==
    /\ s = [done |-> s.done, cur |-> s.cur, at |-> s.at, line |-> s.line]
    /\ s.done \in Seq(ChunkSet) /\ s.cur \in ChunkSet
    /\ s.cur.hi = s.at /\ s.cur.lo <= s.cur.hi

\* The chunks cut, and the one being filled.
AllOf(s) == IF Size(s.cur) = 0 THEN s.done ELSE Append(s.done, s.cur)

Cut(text, i, s) ==
    /\ StateLike(s)
    /\ s.line = i /\ s.at = LineEnds(text)[i]
    /\ Sound(text, AllOf(s))
    /\ IF AllOf(s) = <<>> THEN i = 0 ELSE AllOf(s)[Len(AllOf(s))].hi = s.at
    /\ Size(s.cur) = 0 /\ s.done # <<>> => Long(text, s.done[Len(s.done)].last)
    /\ Size(s.cur) # 0 => /\ ~Long(text, s.cur.first) /\ ~Long(text, s.cur.last)
                          /\ s.cur.last = i

LEMMA FlushIs ==
    ASSUME NEW s, StateLike(s)
    PROVE  /\ Flush(s).done = AllOf(s) /\ AllOf(s) \in Seq(ChunkSet)
           /\ Flush(s).at = s.at /\ Flush(s).line = s.line
           /\ Flush(s).cur.lo = s.at
           /\ Flush(s).cur \in ChunkSet /\ Size(Flush(s).cur) = 0
           /\ Flush(s) = [done |-> Flush(s).done, cur |-> Flush(s).cur,
                          at |-> Flush(s).at, line |-> Flush(s).line]
<1>0. s.done \in Seq(ChunkSet) /\ s.cur \in ChunkSet /\ s.at \in Nat
  BY DEF StateLike, ChunkSet
<1>1. AllOf(s) \in Seq(ChunkSet)
  BY <1>0 DEF AllOf
<1>2. CASE Size(s.cur) = 0
  <2>1. Flush(s) = s /\ AllOf(s) = s.done
    BY <1>2 DEF Flush, AllOf
  <2>2. s.cur.lo = s.at
    BY <1>0, <1>2 DEF StateLike, Size, ChunkSet
  <2> QED BY <1>0, <1>1, <1>2, <2>1, <2>2 DEF StateLike
<1>3. CASE Size(s.cur) # 0
  <2>1. Flush(s) = [done |-> Append(s.done, s.cur), cur |-> Empty(s.at),
                    at |-> s.at, line |-> s.line]
    BY <1>3 DEF Flush, StateLike
  <2>2. Empty(s.at) \in ChunkSet /\ Size(Empty(s.at)) = 0 /\ Empty(s.at).lo = s.at
    BY <1>0 DEF Empty, ChunkSet, Size
  <2>3. AllOf(s) = Append(s.done, s.cur)
    BY <1>3 DEF AllOf
  <2> QED BY <1>1, <2>1, <2>2, <2>3
<1> QED BY <1>2, <1>3

\* A line that is cut into pieces.
LEMMA OversizedCut ==
    ASSUME NEW text \in Texts, NEW i \in 1..Len(text), NEW s, Cut(text, i - 1, s),
           Long(text, i)
    PROVE  Cut(text, i, Oversized(s, text[i]))
<1> DEFINE len == text[i]
           d == AllOf(s)
           e == Slices(s.at, s.line + 1, len)
           z == Oversized(s, len)
           E == LineEnds(text)
<1>1. /\ len \in Nat \ {0} /\ E[i - 1] \in Nat /\ E[i] \in Nat /\ E[i] = E[i - 1] + len
      /\ E[0] = 0
  BY EndsFacts
<1>2. /\ StateLike(s) /\ s.line = i - 1 /\ s.at = E[i - 1] /\ Sound(text, d)
      /\ IF d = <<>> THEN i - 1 = 0 ELSE d[Len(d)].hi = s.at
  BY DEF Cut
<1>3. s.line + 1 = i /\ i \in Nat
  BY <1>2
<1>4. Tokens(len) > MaxTokens /\ len > PieceSize
  BY <1>1, PieceFacts DEF Long
<1>5a. PICK q \in Nat \ {0, 1} : InPieces(e, q, s.at, i, len)
  <2>1. s.at \in Nat /\ len \in Nat /\ e = Slices(s.at, i, len)
    BY <1>1, <1>2, <1>3
  <2> HIDE DEF e, len
  <2> QED BY <1>3, <1>4, <2>1, SlicesAre
<1>5. /\ e \in Seq(ChunkSet) /\ Len(e) = q
      /\ e[1].lo = s.at /\ e[q].hi = s.at + len
      /\ \A j \in 1..q : /\ e[j].first = i /\ e[j].last = i
                         /\ Size(e[j]) > 0 /\ Size(e[j]) <= PieceSize
                         /\ s.at <= e[j].lo /\ e[j].hi <= s.at + len
      /\ \A j \in 1..(q - 1) : /\ Size(e[j]) = PieceSize
                               /\ e[j].hi < s.at + len
                               /\ e[j].hi = e[j + 1].lo
  <2> HIDE DEF e, len
  <2> QED BY <1>5a DEF InPieces
<1>6. z = [done |-> d \o e, cur |-> Empty(s.at + len), at |-> s.at + len, line |-> i]
  <2>1. /\ Flush(s).done = d /\ Flush(s).at = s.at /\ Flush(s).line = s.line
        /\ Flush(s) = [done |-> Flush(s).done, cur |-> Flush(s).cur,
                       at |-> Flush(s).at, line |-> Flush(s).line]
    BY <1>2, FlushIs
  <2>2. z = [Flush(s) EXCEPT !.done = @ \o e, !.cur = Empty(s.at + len),
                             !.at = @ + len, !.line = @ + 1]
    BY DEF Oversized
  <2> HIDE DEF z, d, e, len
  <2>3. z = [done |-> d \o e, cur |-> Empty(s.at + len), at |-> s.at + len, line |-> s.line + 1]
    BY <2>1, <2>2
  <2> QED BY <1>3, <2>3
<1>7. d \in Seq(ChunkSet)
  BY <1>2, FlushIs
<1> HIDE DEF e, d, z, E
<1>8. ASSUME NEW j \in 1..q
      PROVE  HoldsLines(text, e[j]) /\ Made(text, e, j) /\ Rest(text, e, j)
  <2>0. e[j] \in ChunkSet
    BY <1>5
  <2>1. /\ e[j].first = i /\ e[j].last = i /\ Size(e[j]) > 0 /\ Size(e[j]) <= PieceSize
        /\ E[i - 1] <= e[j].lo /\ e[j].hi <= E[i]
    BY <1>1, <1>2, <1>5
  <2>2. Size(e[j]) \in Nat /\ e[j].lo < e[j].hi /\ e[j].lo \in Nat /\ e[j].hi \in Nat
    BY <2>0, <2>1 DEF Size, ChunkSet
  <2>3. Tokens(Size(e[j])) <= MaxTokens
    BY <2>1, <2>2, PieceFacts
  <2>4. HoldsLines(text, e[j])
    BY <1>1, <2>1, <2>2, <2>3, SMTT(30) DEF HoldsLines, E
  <2>5. Made(text, e, j)
    BY <2>1 DEF Made
  <2>6. CASE j = q
    <3>1. j > 1 /\ j - 1 \in 1..(q - 1) /\ e[j].hi = E[i]
      BY <1>1, <1>2, <1>5, <2>6
    <3>2. Size(e[j - 1]) = PieceSize
      BY <1>5, <3>1
    <3> QED BY <1>1, <2>1, <2>4, <2>5, <3>1, <3>2 DEF Rest, E
  <2>7. CASE j # q
    <3>1. j \in 1..(q - 1)
      BY <2>7
    <3>2. Size(e[j]) = PieceSize /\ e[j].hi < E[i]
      BY <1>1, <1>2, <1>5, <3>1
    <3> QED BY <2>1, <2>4, <2>5, <3>2 DEF Rest, E
  <2> QED BY <2>6, <2>7
<1>9. ASSUME NEW j \in 1..(q - 1) PROVE Joins(text, e, j)
  <2>1. e[j].hi = e[j + 1].lo /\ e[j].last = i
    BY <1>5
  <2> QED BY <1>4, <2>1 DEF Joins, CutDue
<1>10. IF d = <<>> THEN e[1].lo = 0 ELSE d[Len(d)].hi = e[1].lo /\ CutDue(text, d[Len(d)], e[1])
  <2>1. CASE d = <<>>
    BY <1>1, <1>2, <1>3, <1>5, <2>1
  <2>2. CASE d # <<>>
    <3>1. Len(d) \in 1..Len(d) /\ d[Len(d)] \in ChunkSet
      BY <1>7, <2>2
    <3>2. Size(d[Len(d)]) > 0 /\ Size(d[Len(d)]) \in Int
      <4>1. Size(d[Len(d)]) > 0
        BY <1>2, <3>1 DEF Sound, Fits, HoldsLines
      <4> QED BY <3>1, <4>1 DEF Size, ChunkSet
    <3>3. 1 \in 1..q /\ e[1].first = i
      BY <1>5
    <3>4. Tokens(len) <= Tokens(Size(d[Len(d)]) + len)
      BY <1>1, <3>2, TokensGrow
    <3>5. /\ Tokens(len) \in Nat /\ Tokens(Size(d[Len(d)]) + len) \in Nat
          /\ MaxTokens \in Nat /\ TargetTokens \in Nat /\ TargetTokens <= MaxTokens
      <4>1. Size(d[Len(d)]) + len \in Nat /\ len \in Nat
        BY <1>1, <3>2
      <4>2. MaxTokens \in Nat \ {0}
        BY PieceFacts
      <4> QED BY <4>1, <4>2, TokensCeiling, PieceFacts
    <3>6. Tokens(Size(d[Len(d)]) + len) > TargetTokens
      BY <1>4, <3>4, <3>5
    <3> QED BY <1>2, <1>5, <2>2, <3>3, <3>6 DEF CutDue
  <2> QED BY <2>1, <2>2
<1>11. Sound(text, d \o e)
  <2>1. e # <<>>
    BY <1>5
  <2> QED BY <1>2, <1>5, <1>7, <1>8, <1>9, <1>10, <2>1, SoundWith
<1>12. /\ d \o e \in Seq(ChunkSet) /\ d \o e # <<>>
       /\ (d \o e)[Len(d \o e)] = e[q]
  BY <1>5, <1>7
<1>13. s.at + len = E[i] /\ Empty(E[i]) \in ChunkSet /\ Size(Empty(E[i])) = 0
  BY <1>1, <1>2 DEF Empty, ChunkSet, Size
<1>14. AllOf(z) = d \o e
  BY <1>6, <1>13 DEF AllOf
<1>15. StateLike(z)
  BY <1>1, <1>6, <1>12, <1>13 DEF StateLike, Empty
<1>16. e[q].hi = E[i] /\ e[q].last = i
  BY <1>5, <1>13
<1>17. z.line = i /\ z.at = E[i] /\ z.done = d \o e /\ Size(z.cur) = 0
  BY <1>6, <1>13
<1>18. Cut(text, i, z)
  <2>1. Long(text, z.done[Len(z.done)].last)
    BY <1>12, <1>16, <1>17
  <2> QED BY <1>11, <1>12, <1>14, <1>15, <1>16, <1>17, <2>1 DEF Cut, E
<1> QED BY <1>18 DEF z

\* The chunk being filled, with a line more.
LEMMA FilledCut ==
    ASSUME NEW text \in Texts, NEW i \in 1..Len(text), ~Long(text, i),
           NEW d \in Seq(ChunkSet), Sound(text, d),
           NEW c, c = [lo |-> c.lo, hi |-> LineEnds(text)[i], first |-> c.first, last |-> i],
           NEW z, z = [done |-> d, cur |-> c, at |-> LineEnds(text)[i], line |-> i],
           c.lo \in Nat, c.first \in 1..i, ~Long(text, c.first),
           LineEnds(text)[c.first - 1] <= c.lo, c.lo < LineEnds(text)[c.first],
           c.lo <= LineEnds(text)[i - 1],
           IF d = <<>> THEN c.lo = 0 ELSE d[Len(d)].hi = c.lo /\ CutDue(text, d[Len(d)], c),
           Tokens(Size(c)) <= MaxTokens, Size(c) >= text[c.first]
    PROVE  Cut(text, i, z)
<1> DEFINE E == LineEnds(text)
<1>1. /\ text[i] \in Nat \ {0} /\ E[i - 1] \in Nat /\ E[i] \in Nat /\ E[i] = E[i - 1] + text[i]
      /\ Len(text) \in Nat /\ i \in Nat
  BY EndsFacts
<1>2. c \in ChunkSet /\ c.hi = E[i] /\ c.last = i
  BY <1>1 DEF ChunkSet
<1>3. Size(c) > 0 /\ Size(c) # 0
  BY <1>1, <1>2, SMTT(30) DEF Size
<1>4. HoldsLines(text, c)
  <2>1. 1 <= c.first /\ c.first <= c.last /\ c.last <= Len(text)
    BY <1>1, <1>2
  <2>2. LineEnds(text)[c.last - 1] < c.hi /\ c.hi <= LineEnds(text)[c.last]
    BY <1>1, <1>2
  <2> QED BY <1>3, <2>1, <2>2 DEF HoldsLines
<1>5. Sound(text, Append(d, c))
  BY <1>2, <1>4, SoundWithOne
<1>6. /\ Append(d, c) \in Seq(ChunkSet) /\ Append(d, c) # <<>>
      /\ Append(d, c)[Len(Append(d, c))] = c
  BY <1>2, SeqEndsIn
<1>7. z.done = d /\ z.cur = c /\ z.at = E[i] /\ z.line = i
  OBVIOUS
<1>8. AllOf(z) = Append(d, c)
  BY <1>3, <1>7 DEF AllOf
<1>9. StateLike(z)
  BY <1>1, <1>2, <1>7 DEF StateLike
<1> QED BY <1>2, <1>3, <1>5, <1>6, <1>7, <1>8, <1>9 DEF Cut

\* The first line of a chunk.
LEMMA BegunCut ==
    ASSUME NEW text \in Texts, NEW i \in 1..Len(text), ~Long(text, i),
           Tokens(text[i]) <= MaxTokens,
           NEW d \in Seq(ChunkSet), Sound(text, d),
           IF d = <<>> THEN i - 1 = 0 ELSE d[Len(d)].hi = LineEnds(text)[i - 1],
           NEW c, c = [lo |-> LineEnds(text)[i - 1], hi |-> LineEnds(text)[i],
                       first |-> i, last |-> i],
           NEW z, z = [done |-> d, cur |-> c, at |-> LineEnds(text)[i], line |-> i],
           d # <<>> => CutDue(text, d[Len(d)], c)
    PROVE  Cut(text, i, z)
<1> DEFINE E == LineEnds(text)
<1>1. /\ text[i] \in Nat \ {0} /\ E[i - 1] \in Nat /\ E[i] \in Nat /\ E[i] = E[i - 1] + text[i]
      /\ E[0] = 0 /\ i \in Nat
  BY EndsFacts
<1>2. c.lo = E[i - 1] /\ c.hi = E[i] /\ c.first = i /\ c.last = i
  OBVIOUS
<1>3. Size(c) = text[i]
  BY <1>1, <1>2 DEF Size
<1>4. IF d = <<>> THEN c.lo = 0 ELSE d[Len(d)].hi = c.lo /\ CutDue(text, d[Len(d)], c)
  BY <1>1, <1>2
<1>5. E[c.first - 1] <= c.lo /\ c.lo < E[c.first] /\ c.lo <= E[i - 1] /\ c.lo \in Nat
  BY <1>1, <1>2
<1>6. c.first \in 1..i /\ ~Long(text, c.first)
  BY <1>1, <1>2
<1>7. Tokens(Size(c)) <= MaxTokens /\ Size(c) >= text[c.first]
  BY <1>1, <1>2, <1>3
<1>8. c = [lo |-> c.lo, hi |-> LineEnds(text)[i], first |-> c.first, last |-> i]
  BY <1>2
<1> QED BY <1>4, <1>5, <1>6, <1>7, <1>8, FilledCut

\* Any other line: it is the first of a chunk, or joins the one being filled.
LEMMA FittingCut ==
    ASSUME NEW text \in Texts, NEW i \in 1..Len(text), NEW s, Cut(text, i - 1, s),
           ~Long(text, i)
    PROVE  Cut(text, i, Fitting(s, text[i]))
<1> DEFINE len == text[i]
           z == Fitting(s, len)
           E == LineEnds(text)
           over == Tokens(Size(s.cur) + len) > TargetTokens
           Full(d, c) == z = [done |-> d, cur |-> c, at |-> E[i], line |-> i]
<1>1. /\ len \in Nat \ {0} /\ E[i - 1] \in Nat /\ E[i] \in Nat /\ E[i] = E[i - 1] + len
      /\ E[0] = 0
  BY EndsFacts
<1>2. /\ StateLike(s) /\ s.line = i - 1 /\ s.at = E[i - 1] /\ Sound(text, AllOf(s))
      /\ IF AllOf(s) = <<>> THEN i - 1 = 0 ELSE AllOf(s)[Len(AllOf(s))].hi = s.at
      /\ Size(s.cur) = 0 /\ s.done # <<>> => Long(text, s.done[Len(s.done)].last)
      /\ Size(s.cur) # 0 => /\ ~Long(text, s.cur.first) /\ ~Long(text, s.cur.last)
                            /\ s.cur.last = i - 1
  BY DEF Cut
<1>3. /\ s = [done |-> s.done, cur |-> s.cur, at |-> s.at, line |-> s.line]
      /\ s.done \in Seq(ChunkSet) /\ s.cur \in ChunkSet
      /\ s.cur.hi = s.at /\ s.cur.lo <= s.cur.hi
      /\ s.cur.lo \in Nat /\ s.cur.first \in Nat
      /\ Size(s.cur) \in Nat /\ Size(s.cur) = s.cur.hi - s.cur.lo
  BY <1>1, <1>2 DEF StateLike, ChunkSet, Size
<1>4. s.line + 1 = i /\ i \in Nat /\ s.at + len = E[i] /\ Len(text) \in Nat
  BY <1>1, <1>2, EndsFacts
<1>5. Tokens(len) <= MaxTokens
  <2>1. Tokens(len) \in Nat /\ MaxTokens \in Nat
    <3>1. len \in Nat /\ MaxTokens \in Nat \ {0}
      BY <1>1, PieceFacts
    <3> QED BY <3>1, TokensCeiling
  <2> QED BY <2>1 DEF Long
<1>8. /\ Flush(s).done = AllOf(s) /\ AllOf(s) \in Seq(ChunkSet)
      /\ Flush(s).at = s.at /\ Flush(s).line = s.line
      /\ Flush(s).cur.lo = s.at /\ Size(Flush(s).cur) = 0
      /\ Flush(s) = [done |-> Flush(s).done, cur |-> Flush(s).cur,
                     at |-> Flush(s).at, line |-> Flush(s).line]
  BY <1>2, FlushIs
<1>9. CASE Size(s.cur) = 0
  <2>1. Flush(s) = s /\ AllOf(s) = s.done
    BY <1>9 DEF Flush, AllOf
  <2> DEFINE c == [lo |-> E[i - 1], hi |-> E[i], first |-> i, last |-> i]
  <2>2. Full(s.done, c)
    <3>1. s.cur.lo = s.at
      BY <1>8, <2>1
    <3>2. z = [s EXCEPT !.cur = [lo |-> s.cur.lo, hi |-> s.at + len, last |-> s.line + 1,
                                 first |-> IF Size(s.cur) = 0 THEN s.line + 1 ELSE s.cur.first],
                        !.at = @ + len, !.line = @ + 1]
      BY <2>1 DEF Fitting
    <3> HIDE DEF z, len
    <3> QED BY <1>2, <1>3, <1>4, <1>9, <3>1, <3>2
  <2>3. s.done # <<>> => CutDue(text, s.done[Len(s.done)], c)
    BY <1>2, <1>9 DEF CutDue, Long
  <2>4. c = [lo |-> E[i - 1], hi |-> E[i], first |-> i, last |-> i]
    OBVIOUS
  <2>5. z = [done |-> s.done, cur |-> c, at |-> E[i], line |-> i]
    BY <2>2
  <2>6. /\ Sound(text, s.done)
        /\ IF s.done = <<>> THEN i - 1 = 0 ELSE s.done[Len(s.done)].hi = E[i - 1]
    BY <1>2, <2>1
  <2> HIDE DEF z, Full, c
  <2>13. Cut(text, i, z)
    BY <1>3, <1>5, <2>3, <2>4, <2>5, <2>6, BegunCut
  <2> QED BY <2>13 DEF z
<1>10. CASE Size(s.cur) # 0 /\ over
  <2> DEFINE c == [lo |-> E[i - 1], hi |-> E[i], first |-> i, last |-> i]
  <2>1. Full(AllOf(s), c)
    <3>1. z = [Flush(s) EXCEPT
                 !.cur = [lo |-> Flush(s).cur.lo, hi |-> s.at + len, last |-> s.line + 1,
                          first |-> IF Size(Flush(s).cur) = 0 THEN s.line + 1
                                    ELSE Flush(s).cur.first],
                 !.at = @ + len, !.line = @ + 1]
      BY <1>10 DEF Fitting
    <3> HIDE DEF z, len
    <3> QED BY <1>2, <1>4, <1>8, <3>1
  <2>2. AllOf(s) # <<>> /\ AllOf(s)[Len(AllOf(s))] = s.cur
    <3>1. AllOf(s) = Append(s.done, s.cur)
      BY <1>10 DEF AllOf
    <3> QED BY <1>3, <3>1, SeqEndsIn
  <2>3. CutDue(text, AllOf(s)[Len(AllOf(s))], c)
    BY <1>10, <2>2 DEF CutDue
  <2>4. c = [lo |-> E[i - 1], hi |-> E[i], first |-> i, last |-> i]
    OBVIOUS
  <2>5. z = [done |-> AllOf(s), cur |-> c, at |-> E[i], line |-> i]
    BY <2>1
  <2>6. IF AllOf(s) = <<>> THEN i - 1 = 0 ELSE AllOf(s)[Len(AllOf(s))].hi = E[i - 1]
    BY <1>2
  <2> HIDE DEF z, Full, c
  <2>13. Cut(text, i, z)
    BY <1>2, <1>5, <1>8, <2>3, <2>4, <2>5, <2>6, BegunCut
  <2> QED BY <2>13 DEF z
<1>11. CASE Size(s.cur) # 0 /\ ~over
  <2> DEFINE c == [lo |-> s.cur.lo, hi |-> E[i], first |-> s.cur.first, last |-> i]
  <2>1. AllOf(s) = Append(s.done, s.cur)
    BY <1>11 DEF AllOf
  <2>2. Sound(text, s.done)
    BY <1>2, <1>3, <2>1, SoundWithout
  <2>3. /\ IF s.done = <<>> THEN s.cur.lo = 0
           ELSE s.done[Len(s.done)].hi = s.cur.lo /\ CutDue(text, s.done[Len(s.done)], s.cur)
        /\ HoldsLines(text, s.cur)
        /\ Size(s.cur) >= text[s.cur.first]
    BY <1>2, <1>3, <1>11, <2>1, LastJoins
  <2>4. Full(s.done, c)
    <3>1. z = [s EXCEPT !.cur = [lo |-> s.cur.lo, hi |-> s.at + len, last |-> s.line + 1,
                                 first |-> IF Size(s.cur) = 0 THEN s.line + 1 ELSE s.cur.first],
                        !.at = @ + len, !.line = @ + 1]
      BY <1>11 DEF Fitting
    <3> HIDE DEF z, len
    <3> QED BY <1>2, <1>3, <1>4, <1>11, <3>1
  <2>5. IF s.done = <<>> THEN c.lo = 0
        ELSE s.done[Len(s.done)].hi = c.lo /\ CutDue(text, s.done[Len(s.done)], c)
    BY <2>3 DEF CutDue
  <2>6. Size(c) = Size(s.cur) + len
    <3>1. c.hi = E[i] /\ c.lo = s.cur.lo /\ s.cur.hi = E[i - 1]
      BY <1>2, <1>3
    <3> HIDE DEF c, E, len, z, over
    <3>2. Size(c) = E[i] - s.cur.lo
      BY <3>1 DEF Size
    <3>3. Size(s.cur) = E[i - 1] - s.cur.lo /\ s.cur.lo \in Nat
      BY <1>3, <3>1
    <3> QED BY <1>1, <3>2, <3>3
  <2>7. Tokens(Size(c)) <= MaxTokens
    <3>1. /\ Tokens(Size(s.cur) + len) \in Nat /\ TargetTokens \in Nat /\ MaxTokens \in Nat
          /\ TargetTokens <= MaxTokens
      <4>1. Size(s.cur) + len \in Nat /\ MaxTokens \in Nat \ {0}
        <5> HIDE DEF len, E, z, over
        <5>1. Size(s.cur) + len \in Nat
          BY <1>1, <1>3
        <5> QED BY <5>1, PieceFacts
      <4> QED BY <4>1, TokensCeiling, PieceFacts
    <3> HIDE DEF len
    <3> QED BY <1>11, <2>6, <3>1
  <2>8. /\ s.cur.first \in 1..i /\ s.cur.lo <= E[i - 1]
        /\ E[s.cur.first - 1] <= s.cur.lo /\ s.cur.lo < E[s.cur.first]
        /\ ~Long(text, s.cur.first)
    <3>1. s.cur.last = i - 1
      BY <1>2, <1>11
    <3> QED BY <1>2, <1>3, <1>4, <1>11, <2>3, <3>1 DEF HoldsLines
  <2>9. Size(c) >= text[c.first]
    <3>1. s.cur.first \in 1..Len(text)
      BY <1>4, <2>8
    <3>2. text[s.cur.first] \in Nat
      BY <3>1, EndsFacts
    <3>3. Size(s.cur) + len >= text[s.cur.first]
      BY <1>1, <1>3, <2>3, <3>2
    <3> QED BY <2>6, <3>3
  <2>10. c = [lo |-> c.lo, hi |-> E[i], first |-> c.first, last |-> i]
         /\ c.lo = s.cur.lo /\ c.first = s.cur.first
    OBVIOUS
  <2>11. z = [done |-> s.done, cur |-> c, at |-> E[i], line |-> i]
    BY <2>4
  <2>12. /\ c.lo \in Nat /\ c.first \in 1..i /\ ~Long(text, c.first)
         /\ E[c.first - 1] <= c.lo /\ c.lo < E[c.first] /\ c.lo <= E[i - 1]
    BY <1>3, <2>8, <2>10
  <2> HIDE DEF z, Full, c
  <2>13. Cut(text, i, z)
    BY <1>3, <2>2, <2>5, <2>7, <2>9, <2>10, <2>11, <2>12, FilledCut
  <2> QED BY <2>13 DEF z
<1> QED BY <1>9, <1>10, <1>11

LEMMA CutAlways ==
    ASSUME NEW text \in Texts
    PROVE  Cut(text, Len(text), Scan(text)[Len(text)])
<1> DEFINE s == Scan(text)
           T == {n \in Nat : n <= Len(text) => Cut(text, n, s[n])}
<1>1. Len(text) \in Nat /\ LineEnds(text)[0] = 0
  BY EndsFacts
<1>2. s = [i \in 0..Len(text) |-> IF i = 0 THEN Start ELSE TakeLine(s[i - 1], text[i])]
  BY <1>1, ScanStep
<1> HIDE DEF s
<1>3. s[0] = Start /\ \A i \in 1..Len(text) : s[i] = TakeLine(s[i - 1], text[i])
  BY <1>1, <1>2
<1>4. Cut(text, 0, Start)
  <2>1. /\ Start.done = <<>> /\ Start.cur = Empty(0) /\ Start.at = 0 /\ Start.line = 0
        /\ Start = [done |-> Start.done, cur |-> Start.cur, at |-> Start.at, line |-> Start.line]
    BY DEF Start
  <2>2. Empty(0) \in ChunkSet /\ Size(Empty(0)) = 0 /\ Empty(0).lo = 0 /\ Empty(0).hi = 0
    BY DEF Empty, ChunkSet, Size
  <2>3. AllOf(Start) = <<>>
    BY <2>1, <2>2 DEF AllOf
  <2>4. <<>> \in Seq(ChunkSet) /\ Len(<<>>) = 0
    OBVIOUS
  <2>5. Sound(text, <<>>)
    BY <2>4 DEF Sound
  <2>6. StateLike(Start)
    BY <2>1, <2>2, <2>4 DEF StateLike
  <2> QED BY <1>1, <2>1, <2>2, <2>3, <2>5, <2>6 DEF Cut
<1>5. 0 \in T
  BY <1>3, <1>4
<1>6. ASSUME NEW n \in T PROVE n + 1 \in T
  <2>1. SUFFICES ASSUME n + 1 <= Len(text) PROVE Cut(text, n + 1, s[n + 1])
    OBVIOUS
  <2>2. n \in Nat /\ n + 1 \in 1..Len(text) /\ (n + 1) - 1 = n /\ Cut(text, n, s[n])
    BY <1>1, <2>1
  <2>3. s[n + 1] = TakeLine(s[n], text[n + 1])
    BY <1>3, <2>2
  <2>4. CASE Long(text, n + 1)
    <3>1. s[n + 1] = Oversized(s[n], text[n + 1])
      BY <2>3, <2>4 DEF TakeLine, Long
    <3> QED BY <2>2, <2>4, <3>1, OversizedCut
  <2>5. CASE ~Long(text, n + 1)
    <3>1. s[n + 1] = Fitting(s[n], text[n + 1])
      BY <2>3, <2>5 DEF TakeLine, Long
    <3> QED BY <2>2, <2>5, <3>1, FittingCut
  <2> QED BY <2>4, <2>5
<1>7. T = Nat
  <2>1. T \in SUBSET Nat
    OBVIOUS
  <2> HIDE DEF T
  <2> QED BY <1>5, <1>6, <2>1, Induction
<1> QED BY <1>1, <1>7 DEF s

LEMMA EndsGrow ==
    ASSUME NEW text \in Texts, NEW i \in 0..Len(text), NEW j \in 0..Len(text), i <= j
    PROVE  LineEnds(text)[i] <= LineEnds(text)[j]
<1> DEFINE E == LineEnds(text)
           T == {n \in Nat : i + n <= Len(text) => E[i] <= E[i + n]}
<1>1. /\ Len(text) \in Nat /\ E[0] = 0
      /\ \A k \in 1..Len(text) : /\ text[k] \in Nat \ {0}
                                 /\ E[k - 1] \in Nat /\ E[k] \in Nat /\ E[k] = E[k - 1] + text[k]
  BY EndsFacts
<1> HIDE DEF E
<1>2. \A k \in 0..Len(text) : E[k] \in Nat
  <2>1. \A k \in 0..Len(text) : k = 0 \/ k \in 1..Len(text)
    BY <1>1
  <2> QED BY <1>1, <2>1
<1>3. 0 \in T
  BY <1>2
<1>4. ASSUME NEW n \in T PROVE n + 1 \in T
  <2>1. SUFFICES ASSUME i + (n + 1) <= Len(text) PROVE E[i] <= E[i + (n + 1)]
    OBVIOUS
  <2>2. n \in Nat /\ i + (n + 1) \in 1..Len(text) /\ (i + (n + 1)) - 1 = i + n /\ E[i] <= E[i + n]
    BY <1>1, <2>1
  <2>3. E[i + (n + 1)] = E[i + n] + text[i + (n + 1)] /\ E[i + n] \in Nat
        /\ text[i + (n + 1)] \in Nat
    BY <1>1, <2>2
  <2> QED BY <1>2, <2>2, <2>3
<1>5. T = Nat
  <2>1. T \in SUBSET Nat
    OBVIOUS
  <2> HIDE DEF T
  <2> QED BY <1>3, <1>4, <2>1, Induction
<1>6. j - i \in Nat /\ i + (j - i) = j
  BY <1>1
<1>7. j - i \in T
  BY <1>5, <1>6
<1>8. E[i] <= E[j]
  BY <1>1, <1>6, <1>7
<1> QED BY <1>8 DEF E

\* When the last two chunks were joined and the result is still small, it is
\* of two rests: the one before them is a piece of the greatest size.
LEMMA SmallTail ==
    ASSUME NEW text \in Texts, NEW d, Sound(text, d), Len(d) >= 2,
           d[Len(d)].hi = LineEnds(text)[Len(text)],
           NEW a \in Nat, a = Size(d[Len(d) - 1]), NEW b \in Nat, b = Size(d[Len(d)]),
           Tokens(a + b) < MinTokens, Len(d) > 2,
           Tokens(Size(d[Len(d) - 2]) + (a + b)) <= MaxTokens
    PROVE  a + b < CharsPerToken
<1> DEFINE n == Len(d)
           E == LineEnds(text)
<1>1. n \in Nat /\ d \in Seq(ChunkSet)
  BY DEF Sound
<1>2. n > 2 /\ n - 1 \in 1..(n - 1) /\ n - 1 \in 1..n /\ n \in 1..n /\ (n - 1) + 1 = n
      /\ (n - 1) - 1 = n - 2 /\ n - 1 > 1
  BY <1>1
<1>3. /\ Fits(text, d, n) /\ Fits(text, d, n - 1)
      /\ Joins(text, d, n - 1)
  BY <1>2 DEF Sound
<1> HIDE DEF n
<1>4. CutDue(text, d[n - 1], d[n])
  BY <1>2, <1>3 DEF Joins
<1>5. /\ MaxTokens \in Nat /\ TargetTokens \in Nat /\ MinTokens \in Nat
      /\ MinTokens <= TargetTokens /\ TargetTokens <= MaxTokens /\ PieceSize \in Nat
      /\ \A k \in Nat : k >= PieceSize => Tokens(k) >= MaxTokens
      /\ \A k \in Nat : Tokens(PieceSize + k) <= MaxTokens => k < CharsPerToken
  BY PieceFacts
<1>6. \A k \in Nat : Tokens(k) \in Nat
  <2>1. 1 \in Nat \ {0}
    OBVIOUS
  <2> QED BY <2>1, TokensCeiling
<1>7. a # PieceSize
  <2>1. SUFFICES ASSUME a = PieceSize PROVE FALSE
    OBVIOUS
  <2>2. a + b \in Nat /\ a + b >= PieceSize
    BY <1>5, <2>1
  <2>3. Tokens(a + b) >= MaxTokens /\ Tokens(a + b) \in Nat
    BY <1>5, <1>6, <2>2
  <2> QED BY <1>5, <2>3
<1>8. CASE Long(text, d[n - 1].last)
  <2>1. Size(d[n - 2]) = PieceSize
    BY <1>2, <1>3, <1>7, <1>8 DEF Fits, Rest, n
  <2> QED BY <1>5, <2>1 DEF n
<1>9. CASE ~Long(text, d[n - 1].last)
  <2>1. Tokens(a + text[d[n].first]) > TargetTokens
    BY <1>4, <1>9 DEF CutDue, Long, n
  <2>2. /\ 1 <= d[n].first /\ d[n].first <= d[n].last /\ d[n].last <= Len(text)
        /\ d[n].first \in Nat /\ d[n].last \in Nat /\ d[n].hi <= E[d[n].last]
    <3>1. d[n] \in ChunkSet
      BY <1>1, <1>2 DEF n
    <3> QED BY <1>3, <3>1 DEF Fits, HoldsLines, ChunkSet
  <2>3. Len(text) \in Nat /\ d[n].first \in 1..Len(text) /\ d[n].last \in 1..Len(text)
    <3> DEFINE w == Len(text)
               f == d[n].first
               l == d[n].last
    <3>1. w \in Nat /\ f \in Nat /\ l \in Nat /\ 1 <= f /\ f <= l /\ l <= w
      BY <2>2, EndsFacts
    <3> HIDE DEF w, f, l
    <3>2. w \in Nat /\ f \in 1..w /\ l \in 1..w
      BY <3>1
    <3> QED BY <3>2 DEF w, f, l
  <2>4. CASE Long(text, d[n].first)
    <3>1. d[n].last = d[n].first
      BY <1>3, <2>4 DEF Fits, Made
    <3>2. ~(d[n].hi < E[d[n].last])
      <4>1. E[d[n].last] <= E[Len(text)]
        <5>1. d[n].last \in 0..Len(text) /\ Len(text) \in 0..Len(text) /\ d[n].last <= Len(text)
          BY <2>2, <2>3
        <5> QED BY <5>1, EndsGrow
      <4>2. E[d[n].last] \in Nat /\ E[Len(text)] \in Nat /\ d[n].hi = E[Len(text)]
        BY <2>3, EndsFacts DEF n
      <4> HIDE DEF E
      <4> QED BY <4>1, <4>2, SMTT(30)
    <3>3. Size(d[n - 1]) = PieceSize
      BY <1>3, <2>4, <3>1, <3>2 DEF Fits, Rest
    <3> QED BY <1>7, <3>3 DEF n
  <2>5. CASE ~Long(text, d[n].first)
    <3>1. b >= text[d[n].first]
      BY <1>3, <2>5 DEF Fits, Made, n
    <3>2. text[d[n].first] \in Nat
      BY <2>3, EndsFacts
    <3> DEFINE x == text[d[n].first]
    <3>3. x \in Nat /\ b >= x /\ Tokens(a + x) > TargetTokens
      BY <2>1, <3>1, <3>2
    <3> HIDE DEF x
    <3>4. a + x \in Nat /\ a + b \in Nat /\ a + x <= a + b
      BY <3>3, SMTT(30)
    <3>5. Tokens(a + x) <= Tokens(a + b) /\ Tokens(a + x) \in Nat /\ Tokens(a + b) \in Nat
      BY <1>6, <3>4, TokensGrow
    <3> QED BY <1>5, <3>3, <3>5
  <2> QED BY <2>4, <2>5
<1> QED BY <1>8, <1>9

LEMMA WholeSound ==
    ASSUME NEW text \in Texts, NEW d, d = Flush(Scan(text)[Len(text)]).done
    PROVE  /\ Sound(text, d)
           /\ IF d = <<>> THEN text = <<>>
              ELSE d[Len(d)].hi = LineEnds(text)[Len(text)]
<1> DEFINE s == Scan(text)[Len(text)]
<1>1. Cut(text, Len(text), s)
  BY CutAlways
<1> HIDE DEF s
<1>2. d = AllOf(s)
  BY <1>1, FlushIs DEF Cut, s
<1>3. Len(text) = 0 => text = <<>>
  BY DEF Texts
<1> QED BY <1>1, <1>2, <1>3 DEF Cut

LEMMA MergedIs ==
    ASSUME NEW d \in Seq(ChunkSet), Len(d) >= 2, NEW j \in ChunkSet
    PROVE  LET c == Append(SubSeq(d, 1, Len(d) - 2), j)
               m == Len(d) - 1
           IN  /\ c \in Seq(ChunkSet) /\ Len(c) = m /\ c[m] = j
               /\ \A k \in 1..(m - 1) : c[k] = d[k]
<1> DEFINE e == SubSeq(d, 1, Len(d) - 2)
<1>1. Len(d) \in Nat /\ Len(d) - 2 \in Nat
  OBVIOUS
<1>2. /\ e \in Seq(ChunkSet) /\ Len(e) = Len(d) - 2
      /\ \A k \in 1..(Len(d) - 2) : e[k] = d[k]
  <2> DEFINE l == Len(d) - 2
  <2>1. l \in Nat /\ l <= Len(d)
    BY <1>1
  <2> HIDE DEF l
  <2>2. \A k \in 1..l : d[k] \in ChunkSet /\ 1 + k - 1 = k
    BY <1>1, <2>1
  <2>3. SubSeq(d, 1, l) = [k \in 1..l |-> d[k]]
    BY <1>1, <2>1, <2>2
  <2>4. [k \in 1..l |-> d[k]] \in [1..l -> ChunkSet]
    BY <2>2
  <2>5. e = [k \in 1..l |-> d[k]]
    BY <2>3 DEF l
  <2> HIDE DEF e
  <2>6. e \in Seq(ChunkSet) /\ Len(e) = l /\ \A k \in 1..l : e[k] = d[k]
    BY <2>1, <2>4, <2>5
  <2> QED BY <2>6 DEF l
<1> HIDE DEF e
<1>3. /\ Append(e, j) \in Seq(ChunkSet) /\ Len(Append(e, j)) = Len(e) + 1
      /\ Append(e, j)[Len(e) + 1] = j /\ \A k \in 1..Len(e) : Append(e, j)[k] = e[k]
  BY <1>2, SeqEndsIn
<1>4. Len(e) + 1 = Len(d) - 1 /\ (Len(d) - 1) - 1 = Len(d) - 2
  BY <1>1, <1>2
<1> QED BY <1>2, <1>3, <1>4 DEF e

\* What is said of a text whose chunks are c.
WellCutAs(text, c) ==
    LET n == Len(c) IN
    /\ c[1].lo = 0 /\ c[n].hi = LineEnds(text)[Len(text)]
    /\ \A i \in 1..(n - 1) : c[i].hi = c[i + 1].lo /\ CutDue(text, c[i], c[i + 1])
    /\ text # <<>> => \A i \in 1..n : HoldsLines(text, c[i])
    /\ n > 1 /\ Tokens(Size(c[n])) < MinTokens =>
        \/ Tokens(Size(c[n - 1]) + Size(c[n])) > MaxTokens
        \/ Size(c[n]) < CharsPerToken

LEMMA UnmergedCut ==
    ASSUME NEW text \in Texts, NEW d, Sound(text, d), d # <<>>,
           d[Len(d)].hi = LineEnds(text)[Len(text)],
           ~ /\ Len(d) >= 2 /\ Tokens(Size(d[Len(d)])) < MinTokens
             /\ Tokens(Size(d[Len(d) - 1]) + Size(d[Len(d)])) <= MaxTokens
    PROVE  WellCutAs(text, d)
<1> DEFINE n == Len(d)
<1>1. n \in Nat /\ d \in Seq(ChunkSet) /\ n > 0
  BY DEF Sound
<1>2. /\ d[1].lo = 0 /\ \A k \in 1..n : HoldsLines(text, d[k])
      /\ \A k \in 1..(n - 1) : d[k].hi = d[k + 1].lo /\ CutDue(text, d[k], d[k + 1])
  BY DEF Sound, Fits, Joins
<1>3. ASSUME n > 1, Tokens(Size(d[n])) < MinTokens
      PROVE  Tokens(Size(d[n - 1]) + Size(d[n])) > MaxTokens
  <2>1. n \in 1..n /\ n - 1 \in 1..n
    BY <1>1, <1>3
  <2>2. d[n] \in ChunkSet /\ d[n - 1] \in ChunkSet
    BY <1>1, <2>1
  <2>3. Size(d[n]) \in Nat /\ Size(d[n - 1]) \in Nat
    <3>1. Size(d[n]) > 0 /\ Size(d[n - 1]) > 0
      BY <1>2, <2>1 DEF HoldsLines
    <3> DEFINE x == d[n]
               y == d[n - 1]
    <3>2. x \in ChunkSet /\ y \in ChunkSet /\ Size(x) > 0 /\ Size(y) > 0
      BY <2>2, <3>1
    <3> HIDE DEF x, y
    <3>3. Size(x) \in Nat /\ Size(y) \in Nat
      BY <3>2, SMTT(30) DEF Size, ChunkSet
    <3> QED BY <3>3 DEF x, y
  <2>4. MaxTokens \in Nat \ {0}
    BY PieceFacts
  <2> DEFINE x == Size(d[n - 1]) + Size(d[n])
  <2>5. x \in Nat
    <3> HIDE DEF n
    <3> QED BY <2>3
  <2>6. ~(Tokens(x) <= MaxTokens)
    BY <1>1, <1>3
  <2> HIDE DEF x
  <2>7. Tokens(x) \in Nat
    BY <2>4, <2>5, TokensCeiling
  <2>8. Tokens(x) > MaxTokens
    BY <2>4, <2>6, <2>7
  <2> QED BY <2>8 DEF x
<1> HIDE DEF n
<1>4. d[n].hi = LineEnds(text)[Len(text)]
  BY DEF n
<1> QED BY <1>2, <1>3, <1>4 DEF WellCutAs, n

LEMMA MergedCut ==
    ASSUME NEW text \in Texts, NEW d, Sound(text, d), Len(d) >= 2,
           d[Len(d)].hi = LineEnds(text)[Len(text)],
           Tokens(Size(d[Len(d) - 1]) + Size(d[Len(d)])) <= MaxTokens
    PROVE  WellCutAs(text, Append(SubSeq(d, 1, Len(d) - 2), Joined(d[Len(d) - 1], d[Len(d)])))
<1> DEFINE n == Len(d)
           E == LineEnds(text)
           p == d[n - 1]
           q == d[n]
           j == Joined(p, q)
           c == Append(SubSeq(d, 1, n - 2), j)
           m == n - 1
<1>1. n \in Nat /\ d \in Seq(ChunkSet) /\ n >= 2
  BY DEF Sound
<1>2. /\ d[1].lo = 0 /\ \A k \in 1..n : HoldsLines(text, d[k])
      /\ \A k \in 1..(n - 1) : d[k].hi = d[k + 1].lo /\ CutDue(text, d[k], d[k + 1])
  <2>1. d # <<>>
    BY <1>1
  <2> QED BY <2>1 DEF Sound, Fits, Joins
<1>3. n \in 1..n /\ n - 1 \in 1..n /\ n - 1 \in 1..(n - 1) /\ (n - 1) + 1 = n
  BY <1>1
<1>4. p \in ChunkSet /\ q \in ChunkSet /\ HoldsLines(text, p) /\ HoldsLines(text, q) /\ p.hi = q.lo
  <2> HIDE DEF n
  <2>1. d[n - 1].hi = d[(n - 1) + 1].lo
    BY <1>2, <1>3
  <2>2. d[(n - 1) + 1] = d[n]
    BY <1>3
  <2>3. p \in ChunkSet /\ q \in ChunkSet
    <3>1. \A k \in 1..n : d[k] \in ChunkSet
      BY <1>1 DEF n
    <3> QED BY <1>3, <3>1
  <2>4. HoldsLines(text, p) /\ HoldsLines(text, q)
    BY <1>2, <1>3
  <2>5. p.hi = q.lo
    BY <2>1, <2>2
  <2> QED BY <2>3, <2>4, <2>5
<1>5. q.hi = E[Len(text)]
  OBVIOUS
<1>6. Tokens(Size(p) + Size(q)) <= MaxTokens
  OBVIOUS
<1> HIDE DEF n, p, q
<1>7. /\ j \in ChunkSet /\ j.lo = p.lo /\ j.hi = q.hi /\ j.first = p.first /\ j.last = q.last
      /\ p.lo \in Nat /\ p.hi \in Nat /\ q.hi \in Nat /\ p.first \in Nat /\ q.last \in Nat
      /\ q.first \in Nat /\ p.last \in Nat
  BY <1>4 DEF Joined, ChunkSet
<1> HIDE DEF j, E
<1>8. /\ Size(p) \in Nat \ {0} /\ Size(q) \in Nat \ {0} /\ Size(j) = Size(p) + Size(q)
      /\ p.lo < p.hi /\ p.hi < q.hi
  <2>1. Size(p) > 0 /\ Size(q) > 0
    BY <1>4 DEF HoldsLines
  <2>2. Size(p) = p.hi - p.lo /\ Size(q) = q.hi - q.lo /\ Size(j) = j.hi - j.lo
    BY DEF Size
  <2>3. q.lo = p.hi /\ j.lo = p.lo /\ j.hi = q.hi
    BY <1>4, <1>7
  <2> DEFINE x == p.lo
             y == p.hi
             z == q.hi
  <2>4. /\ x \in Nat /\ y \in Nat /\ z \in Nat
        /\ Size(p) = y - x /\ Size(q) = z - y /\ Size(j) = z - x
    BY <1>7, <2>2, <2>3
  <2> HIDE DEF x, y, z
  <2>5. /\ Size(p) \in Nat \ {0} /\ Size(q) \in Nat \ {0} /\ Size(j) = Size(p) + Size(q)
        /\ x < y /\ y < z
    BY <2>1, <2>4, SMTT(30)
  <2> QED BY <2>5 DEF x, y, z
<1>9. /\ Len(text) \in Nat /\ \A i \in 1..Len(text) : E[i - 1] \in Nat /\ E[i] \in Nat
  BY EndsFacts DEF E
<1>10. /\ 1 <= p.first /\ p.first <= p.last /\ p.last <= Len(text)
       /\ 1 <= q.first /\ q.first <= q.last /\ q.last <= Len(text)
       /\ E[p.first - 1] <= p.lo /\ p.lo < E[p.first]
       /\ E[q.last - 1] < q.hi /\ q.hi <= E[q.last]
  BY <1>4 DEF HoldsLines, E
<1>11. p.first <= q.last
  <2>1. SUFFICES ASSUME q.last < p.first PROVE FALSE
    BY <1>7
  <2>2. /\ q.last \in 0..Len(text) /\ p.first - 1 \in 0..Len(text) /\ q.last <= p.first - 1
        /\ q.last \in 1..Len(text) /\ p.first \in 1..Len(text)
    <3>1. Len(text) \in Nat /\ p.first \in Nat /\ q.last \in Nat
      BY <1>7, <1>9
    <3> DEFINE f == p.first
               l == q.last
               w == Len(text)
    <3>2. /\ w \in Nat /\ f \in Nat /\ l \in Nat /\ 1 <= f /\ f <= w /\ 1 <= l /\ l <= w
          /\ l < f
      <4>1. p.first <= Len(text) /\ 1 <= q.last
        <5> DEFINE pl == p.last
                   qf == q.first
        <5>1. pl \in Nat /\ qf \in Nat /\ f <= pl /\ pl <= w /\ 1 <= qf /\ qf <= l
          BY <1>7, <1>10
        <5>2. w \in Nat /\ f \in Nat /\ l \in Nat
          BY <3>1
        <5> HIDE DEF pl, qf, f, l, w
        <5>3. f <= w /\ 1 <= l
          BY <5>1, <5>2
        <5> QED BY <5>3 DEF f, l, w
      <4> QED BY <1>10, <2>1, <3>1, <4>1
    <3> HIDE DEF f, l, w
    <3>3. /\ l \in 0..w /\ f - 1 \in 0..w /\ l <= f - 1 /\ l \in 1..w /\ f \in 1..w
      BY <3>2
    <3> QED BY <3>3 DEF f, l, w
  <2>3. E[q.last] <= E[p.first - 1]
    BY <2>2, EndsGrow DEF E
  <2>4. E[q.last] \in Nat /\ E[p.first - 1] \in Nat
    BY <1>9, <2>2
  <2> DEFINE x == E[q.last]
             y == E[p.first - 1]
  <2>5. x \in Nat /\ y \in Nat /\ x <= y /\ y <= p.lo /\ q.hi <= x
    BY <1>10, <2>3, <2>4
  <2> HIDE DEF x, y
  <2> QED BY <1>7, <1>8, <2>5, SMTT(30)
<1>12. HoldsLines(text, j)
  <2>1. Size(j) > 0 /\ Tokens(Size(j)) <= MaxTokens
    BY <1>6, <1>8
  <2> QED BY <1>7, <1>10, <1>11, <2>1 DEF HoldsLines, E
<1>13. /\ c \in Seq(ChunkSet) /\ Len(c) = m /\ c[m] = j
       /\ \A k \in 1..(m - 1) : c[k] = d[k]
  BY <1>1, <1>7, MergedIs DEF n
<1> HIDE DEF c
<1>14. m \in Nat /\ m >= 1 /\ m = n - 1
  BY <1>1
<1>15. c[1].lo = 0
  <2>1. CASE m = 1
    <3>1. n - 1 = 1
      BY <1>14, <2>1
    <3>2. p = d[1]
      BY <3>1 DEF p
    <3> QED BY <1>2, <1>7, <1>13, <2>1, <3>2
  <2>2. CASE m # 1
    <3>1. 1 \in 1..(m - 1)
      BY <1>1, <1>14, <2>2
    <3> QED BY <1>2, <1>13, <3>1
  <2> QED BY <2>1, <2>2
<1>16. c[m].hi = E[Len(text)]
  BY <1>5, <1>7, <1>13
<1>17. ASSUME NEW k \in 1..(m - 1) PROVE c[k].hi = c[k + 1].lo /\ CutDue(text, c[k], c[k + 1])
  <2>1. k \in 1..(n - 1) /\ (k + 1 \in 1..(m - 1) \/ k + 1 = m)
    BY <1>14
  <2>2. d[k].hi = d[k + 1].lo /\ CutDue(text, d[k], d[k + 1]) /\ c[k] = d[k]
    BY <1>2, <1>13, <2>1
  <2>3. CASE k + 1 \in 1..(m - 1)
    BY <1>13, <2>2, <2>3
  <2>4. CASE k + 1 = m
    <3>1. c[k + 1] = j /\ d[k + 1] = p
      BY <1>13, <2>4 DEF p
    <3> QED BY <1>7, <2>2, <3>1 DEF CutDue
  <2> QED BY <2>1, <2>3, <2>4
<1>18. ASSUME NEW k \in 1..m PROVE HoldsLines(text, c[k])
  <2>1. k = m \/ (k \in 1..(m - 1) /\ k \in 1..n)
    BY <1>1, <1>14
  <2> QED BY <1>2, <1>12, <1>13, <2>1
<1>19. ASSUME m > 1, Tokens(Size(c[m])) < MinTokens
       PROVE  \/ Tokens(Size(c[m - 1]) + Size(c[m])) > MaxTokens
              \/ Size(c[m]) < CharsPerToken
  <2>1. c[m] = j /\ c[m - 1] = d[n - 2] /\ n > 2 /\ n - 2 \in 1..n
    <3>1. m - 1 \in 1..(m - 1) /\ m - 1 = n - 2 /\ n > 2 /\ n - 2 \in 1..n
      BY <1>1, <1>14, <1>19
    <3> QED BY <1>13, <3>1
  <2> DEFINE a == Size(p)
             b == Size(q)
  <2>2. a \in Nat /\ b \in Nat /\ Size(j) = a + b /\ a + b \in Nat
    BY <1>8
  <2> HIDE DEF a, b
  <2>3. SUFFICES ASSUME ~(Tokens(Size(d[n - 2]) + (a + b)) > MaxTokens) PROVE a + b < CharsPerToken
    BY <2>1, <2>2
  <2>4. Size(d[n - 2]) \in Nat
    <3>1. d[n - 2] \in ChunkSet
      <4>1. n = Len(d)
        BY DEF n
      <4> QED BY <1>1, <2>1, <4>1
    <3>2. Size(d[n - 2]) > 0
      BY <1>2, <2>1 DEF HoldsLines
    <3> QED BY <3>1, <3>2 DEF Size, ChunkSet
  <2> DEFINE x == Size(d[n - 2])
  <2>5. Tokens(x + (a + b)) <= MaxTokens
    <3>1. x \in Nat
      BY <2>4
    <3> HIDE DEF x
    <3>2. x + (a + b) \in Nat /\ MaxTokens \in Nat \ {0}
      BY <2>2, <3>1, PieceFacts
    <3>3. Tokens(x + (a + b)) \in Nat
      BY <3>2, TokensCeiling
    <3>4. ~(Tokens(x + (a + b)) > MaxTokens)
      BY <2>3 DEF x
    <3> QED BY <3>2, <3>3, <3>4
  <2>6. Tokens(a + b) < MinTokens
    BY <1>19, <2>1, <2>2
  <2>7. Len(d) >= 2 /\ Len(d) > 2 /\ a = Size(d[Len(d) - 1]) /\ b = Size(d[Len(d)])
        /\ d[Len(d)].hi = LineEnds(text)[Len(text)]
    BY <1>1, <2>1 DEF a, b, p, q, n
  <2>8. Tokens(Size(d[Len(d) - 2]) + (a + b)) <= MaxTokens
    BY <2>5 DEF n
  <2> QED BY <2>2, <2>6, <2>7, <2>8, SmallTail
<1> HIDE DEF m
<1>20. WellCutAs(text, c)
  <2>1. Len(c) = m
    BY <1>13
  <2> QED BY <1>15, <1>16, <1>17, <1>18, <1>19, <2>1 DEF WellCutAs, E
<1> QED BY <1>20 DEF c, j, p, q, n

\* Every text, of any number of lines of any length, is cut into chunks that
\* are the text in order and nothing twice, none above the ceiling, each with
\* the lines it says, none ended before it had to be, and no last one that is
\* too small and could have joined its predecessor but the join of two rests
\* that make less than a token (iter_chunks_with_lines).
THEOREM EveryTextWellCut == \A text \in Texts : WellCut(text)
<1> SUFFICES ASSUME NEW text \in Texts PROVE WellCut(text)
  OBVIOUS
<1>1. PICK d : d = Flush(Scan(text)[Len(text)]).done
  OBVIOUS
<1>2. /\ Sound(text, d)
      /\ IF d = <<>> THEN text = <<>> ELSE d[Len(d)].hi = LineEnds(text)[Len(text)]
  BY <1>1, WholeSound
<1>3. ChunkLines(text) = IF d = <<>> THEN <<[lo |-> 0, hi |-> 0, first |-> 1, last |-> 1]>>
                         ELSE MergeTail(d)
  BY <1>1 DEF ChunkLines
<1>4. CASE d = <<>>
  <2> DEFINE e == [lo |-> 0, hi |-> 0, first |-> 1, last |-> 1]
             c == <<e>>
  <2>1. ChunkLines(text) = c /\ Len(c) = 1 /\ c[1] = e /\ e.lo = 0 /\ e.hi = 0
    BY <1>3, <1>4
  <2>2. text = <<>> /\ LineEnds(text)[Len(text)] = 0
    <3>1. text = <<>>
      BY <1>2, <1>4
    <3>2. Len(text) = 0
      BY <3>1
    <3>3. LineEnds(text)[0] = 0
      BY EndsFacts
    <3> QED BY <3>1, <3>2, <3>3
  <2> HIDE DEF c, e
  <2>3. WellCutAs(text, c)
    BY <2>1, <2>2 DEF WellCutAs
  <2> QED BY <2>1, <2>3 DEF WellCut, WellCutAs
<1>5. CASE d # <<>>
  <2> DEFINE merged == /\ Len(d) >= 2 /\ Tokens(Size(d[Len(d)])) < MinTokens
                       /\ Tokens(Size(d[Len(d) - 1]) + Size(d[Len(d)])) <= MaxTokens
  <2>1. CASE merged
    <3>1. ChunkLines(text) = Append(SubSeq(d, 1, Len(d) - 2), Joined(d[Len(d) - 1], d[Len(d)]))
      BY <1>3, <1>5, <2>1 DEF MergeTail
    <3>2. WellCutAs(text, ChunkLines(text))
      BY <1>2, <1>5, <2>1, <3>1, MergedCut
    <3> QED BY <3>2 DEF WellCut, WellCutAs
  <2>2. CASE ~merged
    <3>1. ChunkLines(text) = d
      BY <1>3, <1>5, <2>2 DEF MergeTail
    <3>2. WellCutAs(text, ChunkLines(text))
      BY <1>2, <1>5, <2>2, <3>1, UnmergedCut
    <3> QED BY <3>2 DEF WellCut, WellCutAs
  <2> QED BY <2>1, <2>2
<1> QED BY <1>4, <1>5

LEMMA ShortTextsAre == ShortTexts \subseteq Texts
<1>1. LineLengths \subseteq Nat \ {0} /\ MaxLines \in Nat
  BY ChunkerAssumption
<1>2. ASSUME NEW n \in 0..MaxLines, NEW text \in [1..n -> LineLengths] PROVE text \in Texts
  <2>1. n \in Nat
    BY <1>1
  <2>2. text \in [1..n -> Nat \ {0}]
    BY <1>1
  <2> QED BY <2>1, <2>2 DEF Texts
<1> QED BY <1>2 DEF ShortTexts

LEMMA CutIsWell == TextsAreWellCut
BY EveryTextWellCut, ShortTextsAre DEF TextsAreWellCut

\* The short texts are among them.
THEOREM TextsCutWell == Spec => []TextsAreWellCut
BY CutIsWell, PTL
=============================================================================
