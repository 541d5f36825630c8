-------------------------- MODULE AgentTurn_proofs --------------------------
(***************************************************************************)
(* Theorems about an agent's life on its chain.                            *)
(*                                                                         *)
(* That a chain is as the program leaves it (AsLeft) is inductive once the *)
(* reflection in progress is known to begin where the last one on the      *)
(* chain ended (SliceInv); records are only added, so what a step says of  *)
(* a record it can say of the chain it is added to (Follows, Grows).  What *)
(* a turn has read stays where it was read (ReadInv) and is what its       *)
(* record will refer to (RefsInv).  A pointer is in one place of three: on *)
(* the chain, with the turn or staged (PlacesInv), and the file says the   *)
(* same as memory until a write of it fails.                               *)
(*                                                                         *)
(* The cut to the prompt's budget is a recursive function: that it keeps a *)
(* part of what it was given needs its recursion to be well defined        *)
(* (GreedyStep), which is an induction like that on its value.  What it    *)
(* leaves out is known once what was kept when a record came up is seen to *)
(* be what is kept in the end of the records before it (GreedyParts).      *)
(***************************************************************************)
EXTENDS AgentFunctions, WellFoundedInduction, FiniteSetTheorems, TLAPS

TurnInv ==
    \/ turn = NoTurn
    \/ /\ turn.pc = "reflecting"
       /\ turn = [pc |-> "reflecting", lo |-> turn.lo, hi |-> turn.hi, taken |-> {}]
       /\ turn.lo \in Nat /\ turn.hi \in Nat
    \/ /\ InTurn
       /\ turn = [pc |-> turn.pc, context |-> turn.context, read |-> turn.read,
                  taken |-> turn.taken, rounds |-> turn.rounds, retried |-> turn.retried,
                  extra |-> turn.extra]
       /\ turn.read \in Nat

ChainInv == chain # <<>> /\ AsLeft(chain)

PromptInv ==
    \E s \in OfType("system_prompt") :
       /\ chain[s].text = prompt
       /\ \A t \in OfType("system_prompt") : t <= s

SliceInv ==
    turn.pc = "reflecting" =>
       /\ 1 <= turn.lo /\ turn.lo <= turn.hi /\ turn.hi <= Len(chain)
       /\ \/ turn.lo = 1
          \/ turn.lo - 1 \in OfType("reflection")
          \/ turn.hi - turn.lo + 1 = MaxReflect
       /\ \A t \in OfType("reflection") : t < turn.lo

ReadInv ==
    InTurn =>
       /\ turn.read <= Len(chain)
       /\ turn.context \subseteq 1 .. turn.read
       /\ informed \subseteq DOMAIN chain \ Quarantined(chain)

RefsInv ==
    /\ turn.pc \in {"asking", "tools", "answered"} =>
          recalled \subseteq informed /\ informed \subseteq turn.context \cup recalled
    /\ turn.pc = "committing" =>
          turn.extra \subseteq informed /\ informed \subseteq turn.context \cup turn.extra

PlacesInv ==
    /\ faults \in Nat
    /\ ~unsaved =>
          /\ disk = staged
          /\ \A a \in Uploads :
               /\ \A p, q \in DOMAIN chain :
                    a \in chain[p].attachments /\ a \in chain[q].attachments => p = q
               /\ a \in staged => \A p \in DOMAIN chain : a \notin chain[p].attachments
               /\ InTurn /\ a \in turn.taken =>
                    a \notin staged /\ \A p \in DOMAIN chain : a \notin chain[p].attachments

-----------------------------------------------------------------------------
(* Induction on the natural numbers, from the library's theorem that < is   *)
(* well-founded on them.  A set takes the place of a predicate.             *)

LEMMA LeastNumber ==
    ASSUME NEW T \in SUBSET Nat, T # {}
    PROVE  \E m \in T : \A k \in T : m <= k
<1>1. PICK R : R = OpToRel(<, Nat)
  OBVIOUS
<1>2. IsWellFoundedOn(R, Nat)
  BY <1>1, NatLessThanWellFounded
<1>3. \A x, y \in Nat : x < y => <<x, y>> \in R
  BY <1>1 DEF OpToRel
<1>4. PICK m \in T : \A k \in T : ~ (<<k, m>> \in R)
  BY <1>2, WFMin
<1>5. \A k \in T : ~(k < m)
  BY <1>3, <1>4
<1> QED BY <1>4, <1>5

LEMMA Induction ==
    ASSUME NEW T \in SUBSET Nat, 0 \in T, \A n \in T : n + 1 \in T
    PROVE  T = Nat
<1> SUFFICES ASSUME Nat \ T # {} PROVE FALSE
  OBVIOUS
<1>1. PICK m \in Nat \ T : \A k \in Nat \ T : m <= k
  BY LeastNumber
<1>2. m # 0 /\ m - 1 \in Nat
  BY <1>1
<1>3. m - 1 \in T
  BY <1>1, <1>2
<1> QED BY <1>1, <1>2, <1>3

\* A set of bounded numbers has a greatest element, and Max is it.
LEMMA MaxFacts ==
    ASSUME NEW n \in Nat, NEW S \in SUBSET (0..n), S # {}
    PROVE  Max(S) \in S /\ \A x \in S : x <= Max(S)
<1> DEFINE T == {k \in Nat : n - k \in S}
<1>1. T # {}
  <2>1. PICK x \in S : TRUE
    OBVIOUS
  <2>2. n - x \in Nat /\ n - (n - x) = x
    BY <2>1
  <2> QED BY <2>1, <2>2
<1>2. PICK k \in T : \A j \in T : k <= j
  <2>1. T \in SUBSET Nat
    OBVIOUS
  <2> HIDE DEF T
  <2> QED BY <1>1, <2>1, LeastNumber
<1>3. n - k \in S
  BY <1>2
<1>4. ASSUME NEW x \in S PROVE n - k >= x
  <2>1. n - x \in T
    <3>1. x \in Nat /\ x <= n
      BY <1>4
    <3>2. n - x \in Nat /\ n - (n - x) = x
      BY <3>1
    <3> QED BY <1>4, <3>2
  <2> QED BY <1>2, <1>4, <2>1
<1>5. \E x \in S : \A y \in S : x >= y
  BY <1>3, <1>4
<1>6. Max(S) \in S /\ \A y \in S : Max(S) >= y
  BY <1>5 DEF Max
<1> QED BY <1>6

LEMMA MaxOfTwo ==
    ASSUME NEW x \in Int, NEW y \in Int
    PROVE  Max({x, y}) = IF x >= y THEN x ELSE y
<1>1. \E m \in {x, y} : \A k \in {x, y} : m >= k
  OBVIOUS
<1>2. Max({x, y}) \in {x, y} /\ \A k \in {x, y} : Max({x, y}) >= k
  BY <1>1 DEF Max
<1> QED BY <1>2

LEMMA AtMostOne ==
    ASSUME NEW S, \A x, y \in S : x = y
    PROVE  Cardinality(S) <= 1
<1>1. CASE S = {}
  BY <1>1, FS_EmptySet
<1>2. CASE S # {}
  <2>1. PICK x \in S : S = {x}
    BY <1>2
  <2> QED BY <2>1, FS_Singleton
<1> QED BY <1>1, <1>2


-----------------------------------------------------------------------------
(* Records.                                                                 *)

LEMMA Fields ==
    /\ GenesisRecord.type = "genesis" /\ GenesisRecord.attachments = {}
    /\ \A text : LET r == PromptRecord(text) IN
          r.type = "system_prompt" /\ r.attachments = {} /\ r.text = text
    /\ \A refs, attachments, meta : LET r == ResponseRecord(refs, attachments, meta) IN
          r.type = "response" /\ r.attachments = attachments /\ r.refs = refs
    /\ \A lo, hi : LET r == ReflectionRecord(lo, hi) IN
          r.type = "reflection" /\ r.attachments = {} /\ r.covers[1] = lo /\ r.covers[2] = hi
    /\ \A p : LET r == RevisionRecord(p) IN
          r.type = "revision" /\ r.attachments = {} /\ r.supersedes = p
    /\ SynthesisRecord.type = "synthesis" /\ SynthesisRecord.attachments = {}
<1>1. \A text : LET r == PromptRecord(text) IN
          r.type = "system_prompt" /\ r.attachments = {} /\ r.text = text
  BY DEF PromptRecord, Blank
<1>2. \A refs, attachments, meta : LET r == ResponseRecord(refs, attachments, meta) IN
          r.type = "response" /\ r.attachments = attachments /\ r.refs = refs
  BY DEF ResponseRecord, Blank
<1>3. \A lo, hi : LET r == ReflectionRecord(lo, hi) IN
          r.type = "reflection" /\ r.attachments = {} /\ r.covers[1] = lo /\ r.covers[2] = hi
  BY DEF ReflectionRecord, Blank
<1>4. \A p : LET r == RevisionRecord(p) IN
          r.type = "revision" /\ r.attachments = {} /\ r.supersedes = p
  BY DEF RevisionRecord, Blank
<1>5. /\ GenesisRecord.type = "genesis" /\ GenesisRecord.attachments = {}
      /\ SynthesisRecord.type = "synthesis" /\ SynthesisRecord.attachments = {}
  BY DEF GenesisRecord, SynthesisRecord, Blank
<1> QED BY <1>1, <1>2, <1>3, <1>4, <1>5

\* What an agent writes of its own accord is never quarantined.
LEMMA Unmarked ==
    /\ ~IsQuarantined(SynthesisRecord)
    /\ \A p : ~IsQuarantined(RevisionRecord(p))
<1>1. ~IsQuarantined(SynthesisRecord)
  BY DEF SynthesisRecord, Blank, IsQuarantined, ReadMeta, BuildMeta, DefaultExposure,
         Quarantine, Private, Summary
<1>2. ASSUME NEW p PROVE ~IsQuarantined(RevisionRecord(p))
  <2>1. RevisionRecord(p).meta.exposure = Private
    BY DEF RevisionRecord, Blank, BuildMeta, DefaultExposure
  <2>2. "meta" \in DOMAIN RevisionRecord(p)
    BY DEF RevisionRecord, Blank
  <2> QED BY <2>1, <2>2 DEF IsQuarantined, ReadMeta, Quarantine, Private
<1> QED BY <1>1, <1>2

-----------------------------------------------------------------------------
(* The cut is a part of what it cuts.                                       *)

LEMMA GreedyStep ==
    ASSUME NEW ch, NEW ps, IsFiniteSet(ps), NEW pinned, NEW budget
    PROVE  /\ Greedy(ch, ps, pinned, budget)[0] = {}
           /\ \A n \in 1..Cardinality(ps) :
                Greedy(ch, ps, pinned, budget)[n] =
                  Greedy(ch, ps, pinned, budget)[n - 1]
                    \cup Taken(ch, ps, pinned, budget, Greedy(ch, ps, pinned, budget)[n - 1], n)
<1> DEFINE More(K, n) == K \cup Taken(ch, ps, pinned, budget, K, n)
           Ok(f, n) == f = [k \in 0..n |-> IF k = 0 THEN {} ELSE More(f[k - 1], k)]
           T == {n \in Nat : \E f : Ok(f, n)}
<1> HIDE DEF More
<1>1. Cardinality(ps) \in Nat
  BY FS_CardinalityType
<1>3. 0 \in T
  <2>1. PICK f : f = [k \in 0..0 |-> {}]
    OBVIOUS
  <2>2. Ok(f, 0)
    BY <2>1
  <2> QED BY <2>2
<1>4. ASSUME NEW n \in T PROVE n + 1 \in T
  <2>1. PICK f : Ok(f, n)
    OBVIOUS
  <2>2. PICK g : g = [k \in 0..(n + 1) |-> IF k = n + 1 THEN More(f[n], n + 1) ELSE f[k]]
    OBVIOUS
  <2>3. \A k \in 0..(n + 1) : g[k] = IF k = 0 THEN {} ELSE More(g[k - 1], k)
    <3>1. ASSUME NEW k \in 0..n PROVE g[k] = IF k = 0 THEN {} ELSE More(g[k - 1], k)
      <4>1. g[k] = f[k] /\ (k # 0 => g[k - 1] = f[k - 1])
        BY <2>2
      <4> QED BY <2>1, <4>1
    <3>2. g[n + 1] = More(g[n], n + 1) /\ n + 1 # 0 /\ (n + 1) - 1 = n
      BY <2>2
    <3>3. \A k \in 0..(n + 1) : k \in 0..n \/ k = n + 1
      OBVIOUS
    <3> QED BY <3>1, <3>2, <3>3
  <2>4. g = [k \in 0..(n + 1) |-> g[k]]
    BY <2>2
  <2>5. [k \in 0..(n + 1) |-> g[k]]
          = [k \in 0..(n + 1) |-> IF k = 0 THEN {} ELSE More(g[k - 1], k)]
    BY <2>3
  <2>6. Ok(g, n + 1)
    BY <2>4, <2>5
  <2> HIDE DEF Ok
  <2> QED BY <2>6
<1>5. \E f : Ok(f, Cardinality(ps))
  <2>1. T = Nat
    <3> HIDE DEF T
    <3>1. T \in SUBSET Nat
      BY DEF T
    <3> QED BY <1>3, <1>4, <3>1, Induction
  <2> QED BY <1>1, <2>1
<1>6. Greedy(ch, ps, pinned, budget) =
        [k \in 0..Cardinality(ps) |->
           IF k = 0 THEN {} ELSE More(Greedy(ch, ps, pinned, budget)[k - 1], k)]
  BY <1>5 DEF Greedy, More
<1>7. 0 \in 0..Cardinality(ps) /\ \A k \in 1..Cardinality(ps) : k \in 0..Cardinality(ps) /\ k # 0
  BY <1>1
<1>8. /\ Greedy(ch, ps, pinned, budget)[0] = {}
      /\ \A k \in 1..Cardinality(ps) :
            Greedy(ch, ps, pinned, budget)[k] = More(Greedy(ch, ps, pinned, budget)[k - 1], k)
  BY <1>6, <1>7
<1> QED BY <1>8 DEF More

LEMMA CutIsPart ==
    ASSUME NEW ch, NEW ps, IsFiniteSet(ps), NEW pinned, NEW budget
    PROVE  TruncateToBudget(ch, ps, pinned, budget) \subseteq ps
<1> DEFINE N == Cardinality(ps)
           kept == Greedy(ch, ps, pinned, budget)
           T == {n \in Nat : n <= N => kept[n] \subseteq ps}
<1>1. N \in Nat
  BY FS_CardinalityType
<1>2. kept[0] = {} /\ \A n \in 1..N : kept[n] \subseteq kept[n - 1] \cup ps
  <2>1. ASSUME NEW n \in 1..N PROVE kept[n] \subseteq kept[n - 1] \cup ps
    <3>1. kept[n] = kept[n - 1] \cup Taken(ch, ps, pinned, budget, kept[n - 1], n)
      BY GreedyStep
    <3>2. Taken(ch, ps, pinned, budget, kept[n - 1], n) \subseteq ps
      BY DEF Taken
    <3> QED BY <3>1, <3>2
  <2>2. kept[0] = {}
    BY GreedyStep
  <2> QED BY <2>1, <2>2
<1> HIDE DEF N, kept
<1>3. 0 \in T
  BY <1>2
<1>4. ASSUME NEW n \in T PROVE n + 1 \in T
  <2>1. SUFFICES ASSUME n + 1 <= N PROVE kept[n + 1] \subseteq ps
    OBVIOUS
  <2>2. n \in Nat /\ n + 1 \in 1..N /\ (n + 1) - 1 = n /\ kept[n] \subseteq ps
    BY <1>1, <2>1
  <2> QED BY <1>2, <2>2
<1>5. N \in T
  <2>1. T \in SUBSET Nat
    OBVIOUS
  <2> HIDE DEF T
  <2>2. T = Nat
    BY <1>3, <1>4, <2>1, Induction
  <2> QED BY <1>1, <2>2
<1>6. kept[N] \subseteq ps
  BY <1>1, <1>5
<1> QED BY <1>6 DEF TruncateToBudget, N, kept

LEMMA AppendFacts ==
    ASSUME NEW s, s \in Seq(ToSet(s)), NEW x
    PROVE  LET t == Append(s, x) IN
           /\ t \in Seq(ToSet(t)) /\ Len(s) \in Nat
           /\ Len(t) = Len(s) + 1
           /\ DOMAIN t = 1..(Len(s) + 1) /\ DOMAIN s = 1..Len(s)
           /\ t[Len(s) + 1] = x
           /\ \A i \in 1..Len(s) : t[i] = s[i]
<1> DEFINE t == Append(s, x)
           S == ToSet(s) \cup {x}
<1>1. Len(s) \in Nat /\ DOMAIN s = 1..Len(s)
  OBVIOUS
<1>2. s \in Seq(S) /\ x \in S
  <2>1. s \in [1..Len(s) -> S]
    <3>1. s = [i \in 1..Len(s) |-> s[i]]
      BY <1>1
    <3>2. \A i \in 1..Len(s) : s[i] \in S
      BY <1>1 DEF ToSet
    <3> HIDE DEF S
    <3> QED BY <3>1, <3>2
  <2> HIDE DEF S
  <2>2. x \in S
    BY DEF S
  <2> QED BY <1>1, <2>1, <2>2
<1> HIDE DEF S
<1>3. /\ t \in Seq(S) /\ Len(t) = Len(s) + 1
      /\ t[Len(s) + 1] = x /\ \A i \in 1..Len(s) : t[i] = s[i]
  BY <1>1, <1>2
<1> HIDE DEF t
<1>4. DOMAIN t = 1..Len(t) /\ t = [i \in 1..Len(t) |-> t[i]] /\ Len(t) \in Nat
  BY <1>1, <1>3
<1>5. t \in Seq(ToSet(t))
  <2>1. \A i \in 1..Len(t) : t[i] \in ToSet(t)
    BY <1>4 DEF ToSet
  <2>2. t \in [1..Len(t) -> ToSet(t)]
    BY <1>4, <2>1
  <2> QED BY <1>4, <2>2
<1> QED BY <1>1, <1>3, <1>4, <1>5 DEF t


-----------------------------------------------------------------------------
(* The chain.                                                               *)

Reflections(ch) == {p \in DOMAIN ch : ch[p].type = "reflection"}

\* A record that may be written after the others.
Follows(ch, rec) ==
    /\ rec.type = "genesis" => ch = <<>>
    /\ rec.type = "revision" =>
          /\ rec.supersedes \in DOMAIN ch
          /\ ch[rec.supersedes].type \notin ProtectedTypes
          /\ ~IsQuarantined(rec)
    /\ rec.type = "reflection" =>
          LET lo == rec.covers[1]
              hi == rec.covers[2]
          IN  /\ lo \in 1..hi /\ hi \in 1..Len(ch)
              /\ lo = 1 \/ lo - 1 \in Reflections(ch) \/ hi - lo + 1 = MaxReflect
              /\ \A t \in Reflections(ch) : t < lo

LEMMA AsLeftAdd ==
    ASSUME NEW ch, AsLeft(ch), NEW rec, Follows(ch, rec)
    PROVE  AsLeft(Append(ch, rec))
<1> DEFINE new == Append(ch, rec)
           n == Len(ch)
<1>1. /\ new \in Seq(ToSet(new)) /\ n \in Nat
      /\ DOMAIN new = 1..(n + 1) /\ DOMAIN ch = 1..n
      /\ new[n + 1] = rec /\ \A i \in 1..n : new[i] = ch[i]
  BY AppendFacts DEF AsLeft
<1> HIDE DEF new, n
<1>2. \A p \in 1..(n + 1) : p \in 1..n \/ p = n + 1
  BY <1>1
<1>3. 1..n \subseteq 1..(n + 1) /\ n + 1 \in 1..(n + 1) /\ n + 1 \notin 1..n
  BY <1>1
<1>4. VerifySemantic(new)
  <2>1. ASSUME NEW p \in 1..n
        PROVE  /\ ch[p].type = "revision" => ch[p].supersedes \in 1..n
               /\ ch[p].type = "reflection" => /\ ch[p].covers[1] \in 1..n
                                               /\ ch[p].covers[2] \in 1..n
                                               /\ ch[p].covers[1] =< ch[p].covers[2]
    BY <1>1 DEF AsLeft, VerifySemantic
  <2>2. /\ rec.type = "revision" => rec.supersedes \in 1..n
        /\ rec.type = "reflection" => /\ rec.covers[1] \in 1..n
                                      /\ rec.covers[2] \in 1..n
                                      /\ rec.covers[1] =< rec.covers[2]
    <3>1. rec.type = "revision" => rec.supersedes \in 1..n
      BY <1>1 DEF Follows
    <3>2. ASSUME rec.type = "reflection"
          PROVE  /\ rec.covers[1] \in 1..n /\ rec.covers[2] \in 1..n
                 /\ rec.covers[1] =< rec.covers[2]
      <4>1. rec.covers[1] \in 1..rec.covers[2] /\ rec.covers[2] \in 1..n
        BY <3>2 DEF Follows, n
      <4> QED BY <1>1, <4>1
    <3> QED BY <3>1, <3>2
  <2>3. ASSUME NEW p \in 1..(n + 1)
        PROVE  /\ new[p].type = "revision" => new[p].supersedes \in 1..(n + 1)
               /\ new[p].type = "reflection" => /\ new[p].covers[1] \in 1..(n + 1)
                                                /\ new[p].covers[2] \in 1..(n + 1)
                                                /\ new[p].covers[1] =< new[p].covers[2]
    <3>1. CASE p \in 1..n
      BY <1>1, <1>3, <2>1, <3>1
    <3>2. CASE p = n + 1
      BY <1>1, <1>3, <2>2, <3>2
    <3> QED BY <1>2, <3>1, <3>2
  <2> QED BY <1>1, <2>3 DEF VerifySemantic
<1>5. ASSUME NEW p \in 1..(n + 1), new[p].type = "genesis" PROVE p = 1
  <2>1. CASE p \in 1..n
    BY <1>1, <1>5, <2>1 DEF AsLeft
  <2>2. CASE p = n + 1
    <3>1. rec.type = "genesis"
      BY <1>1, <1>5, <2>2
    <3>2. ch = <<>>
      BY <3>1 DEF Follows
    <3>3. n = 0
      BY <3>2 DEF n
    <3> QED BY <2>2, <3>3
  <2> QED BY <1>2, <2>1, <2>2
<1>6. ASSUME NEW p \in 1..(n + 1), new[p].type = "revision"
      PROVE  ~IsQuarantined(new[p]) /\ new[new[p].supersedes].type \notin ProtectedTypes
  <2>1. CASE p \in 1..n
    <3>1. /\ ch[p].supersedes \in 1..n
          /\ ~IsQuarantined(ch[p]) /\ ch[ch[p].supersedes].type \notin ProtectedTypes
      BY <1>1, <1>6, <2>1 DEF AsLeft, VerifySemantic
    <3> QED BY <1>1, <2>1, <3>1
  <2>2. CASE p = n + 1
    <3>1. /\ rec.supersedes \in 1..n
          /\ ~IsQuarantined(rec) /\ ch[rec.supersedes].type \notin ProtectedTypes
      BY <1>1, <1>6, <2>2 DEF Follows
    <3> QED BY <1>1, <2>2, <3>1
  <2> QED BY <1>2, <2>1, <2>2
<1>7. ASSUME NEW r \in Reflections(new)
      PROVE  /\ new[r].covers[2] < r
             /\ \/ new[r].covers[1] = 1 \/ new[r].covers[1] - 1 \in Reflections(new)
                \/ new[r].covers[2] - new[r].covers[1] + 1 = MaxReflect
             /\ \A t \in Reflections(new) : t < r => t < new[r].covers[1]
  <2>0. r \in 1..(n + 1) /\ new[r].type = "reflection"
    BY <1>1 DEF Reflections
  <2>1. Reflections(ch) \subseteq 1..n /\ Reflections(ch) \subseteq Reflections(new)
    BY <1>1, <1>3 DEF Reflections
  <2>2. \A t \in Reflections(new) : t \in Reflections(ch) \/ t = n + 1
    BY <1>1, <1>2 DEF Reflections
  <2>3. CASE r \in 1..n
    <3>1. r \in Reflections(ch)
      BY <1>1, <2>0, <2>3 DEF Reflections
    <3>2. /\ ch[r].covers[2] < r
          /\ \/ ch[r].covers[1] = 1 \/ ch[r].covers[1] - 1 \in Reflections(ch)
             \/ ch[r].covers[2] - ch[r].covers[1] + 1 = MaxReflect
          /\ \A t \in Reflections(ch) : t < r => t < ch[r].covers[1]
      BY <3>1 DEF AsLeft, Reflections
    <3>3. new[r] = ch[r]
      BY <1>1, <2>3
    <3>4. ~ (n + 1 < r)
      BY <1>1, <2>3
    <3> QED BY <2>1, <2>2, <3>2, <3>3, <3>4
  <2>4. CASE r = n + 1
    <3>1. new[r] = rec /\ rec.type = "reflection"
      BY <1>1, <2>0, <2>4
    <3>2. /\ rec.covers[1] \in 1..rec.covers[2] /\ rec.covers[2] \in 1..n
          /\ \/ rec.covers[1] = 1 \/ rec.covers[1] - 1 \in Reflections(ch)
             \/ rec.covers[2] - rec.covers[1] + 1 = MaxReflect
          /\ \A t \in Reflections(ch) : t < rec.covers[1]
      BY <3>1 DEF Follows, n
    <3>3. rec.covers[2] < r /\ ~(n + 1 < r)
      BY <1>1, <2>4, <3>2
    <3> QED BY <2>1, <2>2, <2>4, <3>1, <3>2, <3>3
  <2> QED BY <1>2, <2>0, <2>3, <2>4
<1>8. AsLeft(new)
  BY <1>1, <1>4, <1>5, <1>6, <1>7 DEF AsLeft, Reflections
<1> QED BY <1>8 DEF new

\* The last system prompt of a chain.
Says(ch, s, text) ==
    /\ s \in DOMAIN ch /\ ch[s].type = "system_prompt" /\ ch[s].text = text
    /\ \A t \in DOMAIN ch : ch[t].type = "system_prompt" => t <= s

LEMMA SaysAdd ==
    ASSUME NEW ch, ch \in Seq(ToSet(ch)), NEW rec, NEW s, NEW text, Says(ch, s, text),
           rec.type # "system_prompt"
    PROVE  Says(Append(ch, rec), s, text)
<1>1. LET new == Append(ch, rec)
          n == Len(ch)
      IN  /\ n \in Nat
          /\ DOMAIN new = 1..(n + 1) /\ DOMAIN ch = 1..n
          /\ new[n + 1] = rec /\ \A i \in 1..n : new[i] = ch[i]
  BY AppendFacts
<1> QED BY <1>1 DEF Says

LEMMA SaysNew ==
    ASSUME NEW ch, ch \in Seq(ToSet(ch)), NEW text
    PROVE  Says(Append(ch, PromptRecord(text)), Len(ch) + 1, text)
<1>1. LET new == Append(ch, PromptRecord(text))
          n == Len(ch)
      IN  /\ n \in Nat
          /\ DOMAIN new = 1..(n + 1)
          /\ new[n + 1] = PromptRecord(text)
  BY AppendFacts
<1> QED BY <1>1, Fields DEF Says

LEMMA BootFacts ==
    ASSUME NEW ch, AsLeft(ch), NEW text
    PROVE  /\ AsLeft(Booted(ch, text)) /\ Booted(ch, text) # <<>>
           /\ \E s : Says(Booted(ch, text), s, text)
           /\ ch # <<>> => \/ Booted(ch, text) = ch
                           \/ Booted(ch, text) = Append(ch, PromptRecord(text))
           /\ ch = <<>> => Booted(ch, text) = Append(<<GenesisRecord>>, PromptRecord(text))
<1> DEFINE founded == IF ch = <<>> THEN <<GenesisRecord>> ELSE ch
           prior == {p \in DOMAIN founded : founded[p].type = "system_prompt"}
<1>1. Booted(ch, text) = IF prior # {} /\ founded[Max(prior)].text = text
                         THEN founded ELSE Append(founded, PromptRecord(text))
  BY DEF Booted
<1>2. AsLeft(founded) /\ founded # <<>>
  <2>1. CASE ch = <<>>
    <3>1. Follows(ch, GenesisRecord)
      BY <2>1, Fields DEF Follows
    <3>2. Append(ch, GenesisRecord) = <<GenesisRecord>>
      BY <2>1
    <3>3. AsLeft(<<GenesisRecord>>)
      BY <3>1, <3>2, AsLeftAdd
    <3> QED BY <2>1, <3>3
  <2>2. CASE ch # <<>>
    BY <2>2
  <2> QED BY <2>1, <2>2
<1>3. founded \in Seq(ToSet(founded))
  BY <1>2 DEF AsLeft
<1>4. ch = <<>> => prior = {} /\ founded = <<GenesisRecord>>
  <2> SUFFICES ASSUME ch = <<>>
               PROVE  prior = {} /\ founded = <<GenesisRecord>>
    OBVIOUS
  <2>1. founded = <<GenesisRecord>>
    OBVIOUS
  <2> HIDE DEF founded
  <2>2. \A p \in DOMAIN founded : founded[p].type = "genesis"
    BY <2>1, Fields
  <2>3. prior = {}
    BY <2>2
  <2> QED BY <2>1, <2>3
<1> HIDE DEF founded
<1>5. CASE prior # {} /\ founded[Max(prior)].text = text
  <2>1. Len(founded) \in Nat /\ DOMAIN founded = 1..Len(founded)
    BY <1>3
  <2>2. prior \in SUBSET (0..Len(founded))
    BY <2>1
  <2> HIDE DEF prior
  <2>3. Max(prior) \in prior /\ \A x \in prior : x <= Max(prior)
    BY <1>5, <2>1, <2>2, MaxFacts
  <2>4. Says(founded, Max(prior), text)
    BY <1>5, <2>3 DEF Says, prior
  <2> QED BY <1>1, <1>2, <1>4, <1>5, <2>4 DEF founded
<1>6. CASE ~(prior # {} /\ founded[Max(prior)].text = text)
  <2> HIDE DEF prior
  <2>1. Booted(ch, text) = Append(founded, PromptRecord(text))
    BY <1>1, <1>6
  <2>2. Follows(founded, PromptRecord(text))
    BY Fields DEF Follows
  <2>3. AsLeft(Append(founded, PromptRecord(text)))
    BY <1>2, <2>2, AsLeftAdd
  <2>4. Says(Append(founded, PromptRecord(text)), Len(founded) + 1, text)
    BY <1>3, SaysNew
  <2>5. Append(founded, PromptRecord(text)) # <<>>
    <3>1. Len(Append(founded, PromptRecord(text))) = Len(founded) + 1 /\ Len(founded) \in Nat
      BY <1>3, AppendFacts
    <3>2. Len(<<>>) = 0
      OBVIOUS
    <3> QED BY <3>1, <3>2
  <2> QED BY <1>4, <2>1, <2>3, <2>4, <2>5 DEF founded
<1> QED BY <1>5, <1>6


-----------------------------------------------------------------------------
(* What a step does to the turn and to the chain.                           *)

LEMMA TurnShapes ==
    ASSUME TurnInv
    PROVE  /\ turn.pc = "idle" => turn = NoTurn
           /\ turn.pc = "reflecting" =>
                /\ turn = [pc |-> "reflecting", lo |-> turn.lo, hi |-> turn.hi, taken |-> {}]
                /\ turn.lo \in Nat /\ turn.hi \in Nat
           /\ InTurn =>
                /\ turn = [pc |-> turn.pc, context |-> turn.context, read |-> turn.read,
                           taken |-> turn.taken, rounds |-> turn.rounds,
                           retried |-> turn.retried, extra |-> turn.extra]
                /\ turn.read \in Nat
           /\ turn.pc \in {"idle", "reflecting", "asking", "tools", "answered", "committing"}
<1>1. NoTurn.pc = "idle"
  BY DEF NoTurn
<1> QED BY <1>1 DEF TurnInv, InTurn

\* Where a reflection starts.
LEMMA StartFacts ==
    ASSUME ChainInv, EnoughToReflect
    PROVE  /\ EffectiveStart \in Nat /\ Len(chain) \in Nat
           /\ 1 <= EffectiveStart /\ EffectiveStart <= Len(chain)
           /\ \/ EffectiveStart = 1
              \/ EffectiveStart - 1 \in OfType("reflection")
              \/ Len(chain) - EffectiveStart + 1 = MaxReflect
           /\ \A t \in OfType("reflection") : t < EffectiveStart
<1> DEFINE R == OfType("reflection")
           n == Len(chain)
<1>1. n \in Nat /\ DOMAIN chain = 1..n /\ MaxReflect \in Nat /\ MinSubstantive \in Nat \ {0}
  BY AgentTurnAssumption DEF ChainInv, AsLeft
<1>2. R \in SUBSET (1..n)
  BY <1>1 DEF OfType
<1>3. LastOf("reflection") = Max(R \cup {0})
  BY DEF LastOf
<1> HIDE DEF R, n
<1>4. R \cup {0} \in SUBSET (0..n) /\ R \cup {0} # {}
  BY <1>1, <1>2
<1>5. LastOf("reflection") \in R \cup {0} /\ \A t \in R \cup {0} : t <= LastOf("reflection")
  BY <1>1, <1>3, <1>4, MaxFacts
<1> DEFINE last == LastOf("reflection")
<1> HIDE DEF last
<1>6. last \in Nat
  BY <1>1, <1>4, <1>5 DEF last
<1>7. EffectiveStart = IF last + 1 >= n - MaxReflect + 1 THEN last + 1 ELSE n - MaxReflect + 1
  <2>1. EffectiveStart = Max({last + 1, n - MaxReflect + 1})
    BY DEF EffectiveStart, ReflectionStart, last, n
  <2>2. last + 1 \in Int /\ n - MaxReflect + 1 \in Int
    BY <1>1, <1>6
  <2> QED BY <2>1, <2>2, MaxOfTwo
<1>8. EffectiveStart <= n
  <2> SUFFICES ASSUME ~(EffectiveStart <= n) PROVE FALSE
    OBVIOUS
  <2>1. EffectiveStart \in Int
    BY <1>1, <1>6, <1>7
  <2>2. EffectiveStart .. n = {}
    BY <1>1, <2>1
  <2>3. {p \in EffectiveStart .. n : chain[p].type \in Substantive} = {}
    BY <2>2
  <2>4. Cardinality({}) >= MinSubstantive
    BY <2>3 DEF EnoughToReflect, n
  <2> QED BY <1>1, <2>4, FS_EmptySet
<1>9. 1 <= EffectiveStart /\ EffectiveStart \in Nat
  BY <1>1, <1>6, <1>7
<1>10. \A t \in R : t < EffectiveStart
  <2> SUFFICES ASSUME NEW t \in R PROVE t < EffectiveStart
    OBVIOUS
  <2>1. t \in Nat /\ t <= last
    BY <1>1, <1>2, <1>5 DEF last
  <2> QED BY <1>1, <1>6, <1>7, <2>1
<1>11. EffectiveStart = 1 \/ EffectiveStart - 1 \in R \/ n - EffectiveStart + 1 = MaxReflect
  <2>1. CASE EffectiveStart = last + 1
    <3>1. EffectiveStart - 1 = last
      BY <1>6, <2>1
    <3>2. last \in R \/ last = 0
      BY <1>5 DEF last
    <3> QED BY <2>1, <3>1, <3>2
  <2>2. CASE EffectiveStart = n - MaxReflect + 1
    BY <1>1, <2>2
  <2> QED BY <1>7, <2>1, <2>2
<1> QED BY <1>1, <1>8, <1>9, <1>10, <1>11 DEF R, n

LEMMA TurnStep ==
    ASSUME TurnInv, ChainInv, [Next]_vars
    PROVE  TurnInv'
<1>0. Len(chain) \in Nat
  BY DEF ChainInv, AsLeft
<1>1. ASSUME turn' = turn PROVE TurnInv'
  BY <1>1 DEF TurnInv, InTurn
<1>2. ASSUME turn' = NoTurn PROVE TurnInv'
  BY <1>2 DEF TurnInv
<1>3. ASSUME NEW a, Upload(a) PROVE TurnInv'
  BY <1>1, <1>3 DEF Upload
<1>4. ASSUME Refuse PROVE TurnInv'
  BY <1>1, <1>4 DEF Refuse
<1>5. ASSUME NEW hits, NEW indices, Prepare(hits, indices) PROVE TurnInv'
  <2>1. PICK context : turn' = [pc |-> "asking", context |-> context, read |-> Len(chain),
                    taken |-> staged, rounds |-> 0, retried |-> FALSE, extra |-> {}]
    BY <1>5 DEF Prepare
  <2> QED BY <1>0, <2>1 DEF TurnInv, InTurn
<1>6. ASSUME AnswerCalls PROVE TurnInv'
  BY <1>6, TurnShapes DEF AnswerCalls, TurnInv, InTurn
<1>7. ASSUME AnswerBroken PROVE TurnInv'
  BY <1>7, TurnShapes DEF AnswerBroken, TurnInv, InTurn
<1>8. ASSUME AnswerText PROVE TurnInv'
  BY <1>8, TurnShapes DEF AnswerText, TurnInv, InTurn
<1>9. ASSUME ModelRaises PROVE TurnInv'
  <2>1. front = "repl" => turn' = NoTurn
    BY <1>9 DEF ModelRaises
  <2>2. turn.pc = "asking"
    BY <1>9 DEF ModelRaises
  <2>3. CASE front # "repl"
    <3>1. turn' = [turn EXCEPT !.pc = "answered"]
      BY <1>9, <2>3 DEF ModelRaises
    <3> QED BY <2>2, <3>1, TurnShapes DEF TurnInv, InTurn
  <2> QED BY <1>2, <2>1, <2>3
<1>10. ASSUME NEW p, RecallFetch(p) PROVE TurnInv'
  BY <1>1, <1>10 DEF RecallFetch
<1>11. ASSUME ThinkCollapse PROVE TurnInv'
  BY <1>1, <1>11 DEF ThinkCollapse
<1>12. ASSUME NEW a, IngestBlob(a) PROVE TurnInv'
  BY <1>1, <1>12 DEF IngestBlob
<1>13. ASSUME CallsDone PROVE TurnInv'
  BY <1>13, TurnShapes DEF CallsDone, TurnInv, InTurn
<1>14. ASSUME LateDrain PROVE TurnInv'
  BY <1>14, TurnShapes DEF LateDrain, TurnInv, InTurn
<1>15. ASSUME NEW meta, Commit(meta) PROVE TurnInv'
  BY <1>2, <1>15 DEF Commit
<1>16. ASSUME CommitFails PROVE TurnInv'
  BY <1>2, <1>16 DEF CommitFails
<1>17. ASSUME StartReflection PROVE TurnInv'
  <2>1. turn' = [pc |-> "reflecting", lo |-> EffectiveStart, hi |-> Len(chain), taken |-> {}]
    BY <1>17 DEF StartReflection
  <2>2. EffectiveStart \in Nat
    BY <1>17, StartFacts DEF StartReflection
  <2> QED BY <1>0, <2>1, <2>2 DEF TurnInv
<1>18. ASSUME SealReflection PROVE TurnInv'
  BY <1>2, <1>18 DEF SealReflection
<1>19. ASSUME ReflectionFails PROVE TurnInv'
  BY <1>2, <1>19 DEF ReflectionFails
<1>20. ASSUME NEW p, Revise(p) PROVE TurnInv'
  BY <1>1, <1>20 DEF Revise
<1>21. ASSUME NEW rec, OtherAppends(rec) PROVE TurnInv'
  BY <1>1, <1>21 DEF OtherAppends
<1>22. ASSUME NEW f, NEW text, Restart(f, text) PROVE TurnInv'
  BY <1>2, <1>22 DEF Restart
<1>23. ASSUME UNCHANGED vars PROVE TurnInv'
  BY <1>1, <1>23 DEF vars
<1> QED BY <1>3, <1>4, <1>5, <1>6, <1>7, <1>8, <1>9, <1>10, <1>11, <1>12, <1>13, <1>14,
           <1>15, <1>16, <1>17, <1>18, <1>19, <1>20, <1>21, <1>22, <1>23
        DEF Next, AnswerModel, ToolCall, Finish

\* What another step than a boot writes.
Grows(rec) ==
    /\ chain' = Append(chain, rec)
    /\ Follows(chain, rec)
    /\ rec.type # "system_prompt"
    /\ rec.type = "reflection" => turn' = NoTurn
    /\ \/ rec.attachments = {} /\ (InTurn /\ InTurn' => turn' = turn)
       \/ turn.pc = "committing" /\ turn' = NoTurn /\ rec.attachments = turn.taken

LEMMA MaySupersede ==
    ASSUME NEW p \in DOMAIN chain, CanRevise(chain[p])
    PROVE  Follows(chain, RevisionRecord(p))
<1>1. chain[p].type \notin ProtectedTypes
  BY DEF CanRevise, IsProtected
<1> QED BY <1>1, Fields, Unmarked DEF Follows

LEMMA ChainStep ==
    ASSUME TurnInv, ChainInv, SliceInv, [Next]_vars
    PROVE  \/ chain' = chain /\ prompt' = prompt
           \/ prompt' = prompt /\ \E rec : Grows(rec)
           \/ \E f \in Fronts, text \in Prompts : Restart(f, text)
<1> DEFINE Good == \/ chain' = chain /\ prompt' = prompt
                   \/ prompt' = prompt /\ \E rec : Grows(rec)
                   \/ \E f \in Fronts, text \in Prompts : Restart(f, text)
<1>1. ASSUME chain' = chain, prompt' = prompt PROVE Good
  BY <1>1
<1>2. ASSUME prompt' = prompt, NEW rec, Grows(rec) PROVE Good
  BY <1>2
<1>20. ASSUME NEW f \in Fronts, NEW text \in Prompts, Restart(f, text) PROVE Good
  BY <1>20
<1> HIDE DEF Good
<1>3. ASSUME NEW a, Upload(a) PROVE Good
  BY <1>1, <1>3 DEF Upload
<1>4. ASSUME Refuse PROVE Good
  <2>1. RefusedRecord.type = "response" /\ RefusedRecord.attachments = {}
    BY Fields DEF RefusedRecord
  <2>2. chain' = Append(chain, RefusedRecord) /\ turn' = turn /\ prompt' = prompt
    BY <1>4 DEF Refuse
  <2>3. Grows(RefusedRecord)
    BY <2>1, <2>2 DEF Grows, Follows
  <2> QED BY <1>2, <2>2, <2>3
<1>5. ASSUME NEW hits, NEW indices, Prepare(hits, indices) PROVE Good
  BY <1>1, <1>5 DEF Prepare
<1>6. ASSUME AnswerModel \/ ModelRaises \/ CallsDone \/ LateDrain \/ CommitFails
             \/ StartReflection \/ ReflectionFails
      PROVE  Good
  <2>1. chain' = chain /\ prompt' = prompt
    BY <1>6 DEF AnswerModel, AnswerCalls, AnswerBroken, AnswerText, ModelRaises, CallsDone,
                LateDrain, CommitFails, StartReflection, ReflectionFails
  <2> QED BY <1>1, <2>1
<1>7. ASSUME NEW p, RecallFetch(p) PROVE Good
  BY <1>1, <1>7 DEF RecallFetch
<1>8. ASSUME ThinkCollapse PROVE Good
  <2>1. chain' = Append(chain, SynthesisRecord) /\ turn' = turn /\ prompt' = prompt
    BY <1>8 DEF ThinkCollapse
  <2>2. Grows(SynthesisRecord)
    BY <2>1, Fields DEF Grows, Follows
  <2> QED BY <1>2, <2>1, <2>2
<1>9. ASSUME NEW a, IngestBlob(a) PROVE Good
  BY <1>1, <1>9 DEF IngestBlob
<1>10. ASSUME NEW meta, Commit(meta) PROVE Good
  <2> DEFINE rec == ResponseRecord(turn.context \cup turn.extra, turn.taken, meta)
  <2>1. chain' = Append(chain, rec) /\ turn' = NoTurn /\ prompt' = prompt /\ turn.pc = "committing"
    BY <1>10 DEF Commit
  <2>2. rec.type = "response" /\ rec.attachments = turn.taken
    BY Fields
  <2> HIDE DEF rec
  <2>3. Grows(rec)
    BY <2>1, <2>2 DEF Grows, Follows
  <2> QED BY <1>2, <2>1, <2>3
<1>11. ASSUME SealReflection PROVE Good
  <2> DEFINE rec == ReflectionRecord(turn.lo, turn.hi)
  <2>1. chain' = Append(chain, rec) /\ turn' = NoTurn /\ prompt' = prompt /\ turn.pc = "reflecting"
    BY <1>11 DEF SealReflection
  <2>2. /\ rec.type = "reflection" /\ rec.attachments = {}
        /\ rec.covers[1] = turn.lo /\ rec.covers[2] = turn.hi
    BY Fields
  <2> HIDE DEF rec
  <2>3. /\ 1 <= turn.lo /\ turn.lo <= turn.hi /\ turn.hi <= Len(chain)
        /\ \/ turn.lo = 1
           \/ turn.lo - 1 \in Reflections(chain)
           \/ turn.hi - turn.lo + 1 = MaxReflect
        /\ \A t \in Reflections(chain) : t < turn.lo
    BY <2>1 DEF SliceInv, OfType, Reflections
  <2>4. turn.lo \in Nat /\ turn.hi \in Nat /\ Len(chain) \in Nat
    BY <2>1, TurnShapes DEF ChainInv, AsLeft
  <2>5. turn.lo \in 1..turn.hi /\ turn.hi \in 1..Len(chain)
    BY <2>3, <2>4
  <2>6. Follows(chain, rec)
    BY <2>2, <2>3, <2>5 DEF Follows
  <2>7. ~InTurn
    BY <2>1 DEF InTurn
  <2>8. Grows(rec)
    BY <2>1, <2>2, <2>6, <2>7 DEF Grows
  <2> QED BY <1>2, <2>1, <2>8
<1>12. ASSUME NEW p \in DOMAIN chain, Revise(p) PROVE Good
  <2>1. chain' = Append(chain, RevisionRecord(p)) /\ turn' = turn /\ prompt' = prompt
        /\ CanRevise(chain[p])
    BY <1>12 DEF Revise
  <2>2. Grows(RevisionRecord(p))
    BY <2>1, Fields, MaySupersede DEF Grows
  <2> QED BY <1>2, <2>1, <2>2
<1>13. ASSUME NEW rec \in OtherRecords, OtherAppends(rec) PROVE Good
  <2>1. chain' = Append(chain, rec) /\ turn' = turn /\ prompt' = prompt
    BY <1>13 DEF OtherAppends
  <2>2. CASE rec = ResponseRecord({}, {}, ScoredMeta("commit"))
    <3>1. rec.type = "response" /\ rec.attachments = {}
      BY <2>2, Fields
    <3>2. Grows(rec)
      BY <2>1, <3>1 DEF Grows, Follows
    <3> QED BY <1>2, <2>1, <3>2
  <2>3. CASE \E p \in DOMAIN chain : CanRevise(chain[p]) /\ rec = RevisionRecord(p)
    <3>1. PICK p \in DOMAIN chain : CanRevise(chain[p]) /\ rec = RevisionRecord(p)
      BY <2>3
    <3>2. Grows(rec)
      BY <2>1, <3>1, Fields, MaySupersede DEF Grows
    <3> QED BY <1>2, <2>1, <3>2
  <2>4. rec = ResponseRecord({}, {}, ScoredMeta("commit"))
        \/ \E p \in DOMAIN chain : CanRevise(chain[p]) /\ rec = RevisionRecord(p)
    BY <1>13 DEF OtherRecords
  <2> QED BY <2>2, <2>3, <2>4
<1>14. ASSUME UNCHANGED vars PROVE Good
  BY <1>1, <1>14 DEF vars
<1>15. Good
  BY <1>3, <1>4, <1>5, <1>6, <1>7, <1>8, <1>9, <1>10, <1>11, <1>12, <1>13, <1>14, <1>20
  DEF Next, ToolCall, Finish
<1> QED BY <1>15 DEF Good


\* Records stay where they are.
Kept ==
    /\ Len(chain) \in Nat /\ Len(chain') \in Nat /\ Len(chain) <= Len(chain')
    /\ DOMAIN chain = 1..Len(chain) /\ DOMAIN chain' = 1..Len(chain')
    /\ \A p \in 1..Len(chain) : chain'[p] = chain[p]

LEMMA KeptAdd ==
    ASSUME ChainInv, NEW rec, chain' = Append(chain, rec)
    PROVE  Kept /\ Len(chain') = Len(chain) + 1 /\ chain'[Len(chain) + 1] = rec
<1>1. chain \in Seq(ToSet(chain))
  BY DEF ChainInv, AsLeft
<1>2. LET t == Append(chain, rec) IN
      /\ t \in Seq(ToSet(t)) /\ Len(chain) \in Nat
      /\ Len(t) = Len(chain) + 1
      /\ DOMAIN t = 1..(Len(chain) + 1) /\ DOMAIN chain = 1..Len(chain)
      /\ t[Len(chain) + 1] = rec
      /\ \A i \in 1..Len(chain) : t[i] = chain[i]
  BY <1>1, AppendFacts
<1>3. /\ Len(chain) \in Nat /\ Len(chain') = Len(chain) + 1
      /\ DOMAIN chain' = 1..(Len(chain) + 1) /\ DOMAIN chain = 1..Len(chain)
      /\ chain'[Len(chain) + 1] = rec
      /\ \A i \in 1..Len(chain) : chain'[i] = chain[i]
  BY <1>2
<1> QED BY <1>3 DEF Kept

LEMMA KeptSame ==
    ASSUME ChainInv, chain' = chain
    PROVE  Kept
<1>1. Len(chain) \in Nat /\ DOMAIN chain = 1..Len(chain)
  BY DEF ChainInv, AsLeft
<1> QED BY <1>1 DEF Kept

LEMMA ChainKeeps ==
    ASSUME TurnInv, ChainInv, SliceInv, PromptInv, [Next]_vars
    PROVE  ChainInv' /\ PromptInv' /\ Kept
<1>0. AsLeft(chain) /\ chain # <<>> /\ chain \in Seq(ToSet(chain))
  BY DEF ChainInv, AsLeft
<1>1. PICK s : Says(chain, s, prompt)
  BY DEF PromptInv, Says, OfType
<1>2. ASSUME chain' = chain, prompt' = prompt PROVE ChainInv' /\ PromptInv' /\ Kept
  BY <1>2, KeptSame DEF ChainInv, PromptInv, OfType
<1>3. ASSUME prompt' = prompt, NEW rec, Grows(rec) PROVE ChainInv' /\ PromptInv' /\ Kept
  <2>1. chain' = Append(chain, rec) /\ Follows(chain, rec) /\ rec.type # "system_prompt"
    BY <1>3 DEF Grows
  <2>2. AsLeft(chain')
    BY <1>0, <2>1, AsLeftAdd
  <2>3. Kept /\ Len(chain') = Len(chain) + 1
    BY <2>1, KeptAdd
  <2>4. chain' # <<>>
    <3>1. Len(<<>>) = 0
      OBVIOUS
    <3> QED BY <2>3, <3>1 DEF Kept
  <2>5. Says(chain', s, prompt')
    BY <1>0, <1>1, <1>3, <2>1, SaysAdd
  <2> QED BY <2>2, <2>3, <2>4, <2>5 DEF ChainInv, PromptInv, Says, OfType
<1>4. ASSUME NEW f \in Fronts, NEW text \in Prompts, Restart(f, text)
      PROVE  ChainInv' /\ PromptInv' /\ Kept
  <2>1. chain' = Booted(chain, text) /\ prompt' = text
    BY <1>4 DEF Restart
  <2>2. AsLeft(chain') /\ chain' # <<>>
    BY <1>0, <2>1, BootFacts
  <2>3. PICK t : Says(Booted(chain, text), t, text)
    BY <1>0, BootFacts
  <2>4. Says(chain', t, prompt')
    BY <2>1, <2>3
  <2>5. chain' = chain \/ chain' = Append(chain, PromptRecord(text))
    BY <1>0, <2>1, BootFacts
  <2>6. Kept
    BY <2>5, KeptAdd, KeptSame
  <2> QED BY <2>2, <2>4, <2>6 DEF ChainInv, PromptInv, Says, OfType
<1> QED BY <1>2, <1>3, <1>4, ChainStep

LEMMA SliceStep ==
    ASSUME TurnInv, ChainInv, SliceInv, PromptInv, [Next]_vars
    PROVE  SliceInv'
<1> SUFFICES ASSUME turn'.pc = "reflecting" PROVE SliceInv'
  BY DEF SliceInv
<1>1. CASE StartReflection
  <2>1. /\ turn' = [pc |-> "reflecting", lo |-> EffectiveStart, hi |-> Len(chain), taken |-> {}]
        /\ chain' = chain /\ EnoughToReflect
    BY <1>1 DEF StartReflection
  <2>2. turn'.lo = EffectiveStart /\ turn'.hi = Len(chain)
    BY <2>1
  <2>3. (OfType("reflection"))' = OfType("reflection")
    BY <2>1 DEF OfType
  <2> QED BY <2>1, <2>2, <2>3, StartFacts DEF SliceInv
<1>2. CASE ~StartReflection
  <2>0. NoTurn.pc = "idle"
    BY DEF NoTurn
  <2>1. turn' = turn
    <3>1. ASSUME InTurn' PROVE FALSE
      BY <3>1 DEF InTurn
    <3>2. ASSUME NEW hits, NEW indices, Prepare(hits, indices) PROVE FALSE
      <4>1. PICK context : turn' = [pc |-> "asking", context |-> context, read |-> Len(chain),
                    taken |-> staged, rounds |-> 0, retried |-> FALSE, extra |-> {}]
        BY <3>2 DEF Prepare
      <4> QED BY <4>1
    <3>3. ASSUME AnswerModel \/ CallsDone \/ LateDrain PROVE FALSE
      BY <3>3, TurnShapes DEF AnswerModel, AnswerCalls, AnswerBroken, AnswerText, CallsDone, LateDrain, InTurn
    <3>4. ASSUME ModelRaises PROVE FALSE
      <4>1. CASE front = "repl"
        BY <2>0, <3>4, <4>1 DEF ModelRaises
      <4>2. CASE front # "repl"
        BY <3>4, <4>2, TurnShapes DEF ModelRaises, InTurn
      <4> QED BY <4>1, <4>2
    <3>5. ASSUME NEW meta, Commit(meta) PROVE FALSE
      BY <2>0, <3>5 DEF Commit
    <3>6. ASSUME CommitFails \/ SealReflection \/ ReflectionFails PROVE FALSE
      BY <2>0, <3>6 DEF CommitFails, SealReflection, ReflectionFails
    <3>7. ASSUME NEW f, NEW text, Restart(f, text) PROVE FALSE
      BY <2>0, <3>7 DEF Restart
    <3>8. ASSUME NEW a, Upload(a) \/ IngestBlob(a) PROVE turn' = turn
      BY <3>8 DEF Upload, IngestBlob
    <3>9. ASSUME NEW p, RecallFetch(p) \/ Revise(p) PROVE turn' = turn
      BY <3>9 DEF RecallFetch, Revise
    <3>10. ASSUME Refuse \/ ThinkCollapse \/ UNCHANGED vars PROVE turn' = turn
      BY <3>10 DEF Refuse, ThinkCollapse, vars
    <3>11. ASSUME NEW rec, OtherAppends(rec) PROVE turn' = turn
      BY <3>11 DEF OtherAppends
    <3> QED BY <1>2, <3>2, <3>3, <3>4, <3>5, <3>6, <3>7, <3>8, <3>9, <3>10, <3>11
            DEF Next, ToolCall, Finish
  <2>2. /\ 1 <= turn.lo /\ turn.lo <= turn.hi /\ turn.hi <= Len(chain)
        /\ \/ turn.lo = 1
           \/ turn.lo - 1 \in OfType("reflection")
           \/ turn.hi - turn.lo + 1 = MaxReflect
        /\ \A t \in OfType("reflection") : t < turn.lo
    BY <2>1 DEF SliceInv
  <2>3. turn.hi \in Nat
    BY <2>1, TurnShapes
  <2>4. Kept
    BY ChainKeeps
  <2>5. turn.hi <= Len(chain')
    BY <2>2, <2>3, <2>4 DEF Kept
  <2>6. OfType("reflection") \subseteq (OfType("reflection"))'
    BY <2>4 DEF Kept, OfType
  <2>7. (OfType("reflection"))' \subseteq OfType("reflection")
    <3>1. ASSUME NEW rec, Grows(rec)
          PROVE  (OfType("reflection"))' \subseteq OfType("reflection")
      <4>1. chain' = Append(chain, rec) /\ rec.type # "reflection"
        BY <2>0, <2>1, <3>1 DEF Grows
      <4>2. Len(chain') = Len(chain) + 1 /\ chain'[Len(chain) + 1] = rec
        BY <4>1, KeptAdd
      <4> QED BY <2>4, <4>1, <4>2 DEF Kept, OfType
    <3>2. ASSUME NEW f, NEW text, Restart(f, text) PROVE FALSE
      BY <2>0, <3>2 DEF Restart
    <3>3. ASSUME chain' = chain PROVE (OfType("reflection"))' \subseteq OfType("reflection")
      BY <3>3 DEF OfType
    <3> QED BY <3>1, <3>2, <3>3, ChainStep
  <2> QED BY <2>1, <2>2, <2>5, <2>6, <2>7 DEF SliceInv
<1> QED BY <1>1, <1>2


CInv == TurnInv /\ ChainInv /\ SliceInv /\ PromptInv

LEMMA CInit == Init => CInv
<1> SUFFICES ASSUME Init PROVE CInv
  OBVIOUS
<1>1. PICK ch \in InitialChains : chain = Booted(ch, prompt)
  BY DEF Init
<1>2. AsLeft(ch)
  BY AgentTurnAssumption
<1>3. AsLeft(chain) /\ chain # <<>>
  BY <1>1, <1>2, BootFacts
<1>4. \E s : Says(chain, s, prompt)
  BY <1>1, <1>2, BootFacts
<1>5. turn = NoTurn /\ turn.pc = "idle"
  BY DEF Init, NoTurn
<1> QED BY <1>3, <1>4, <1>5 DEF CInv, TurnInv, ChainInv, SliceInv, PromptInv, Says, OfType

LEMMA CStep == CInv /\ [Next]_vars => CInv' /\ Kept
BY TurnStep, ChainKeeps, SliceStep DEF CInv

LEMMA CAlways == Spec => []CInv
<1>1. CInv /\ [Next]_vars => CInv'
  BY CStep
<1> QED BY CInit, <1>1, PTL DEF Spec

LEMMA SoundByCInv == CInv => SemanticallySound
<1> SUFFICES ASSUME CInv PROVE SemanticallySound
  OBVIOUS
<1>1. AsLeft(chain) /\ Len(chain) \in Nat /\ DOMAIN chain = 1..Len(chain)
  BY DEF CInv, ChainInv, AsLeft
<1>2. VerifySemantic(chain)
  BY <1>1 DEF AsLeft
<1>3. \A p \in OfType("genesis") : p = 1
  BY <1>1 DEF AsLeft, OfType
<1>4. chain[LastOf("system_prompt")].text = prompt
  <2>1. PICK s \in OfType("system_prompt") :
           /\ chain[s].text = prompt
           /\ \A t \in OfType("system_prompt") : t <= s
    BY DEF CInv, PromptInv
  <2> DEFINE S == OfType("system_prompt") \cup {0}
  <2>2. S \in SUBSET (0..Len(chain)) /\ S # {}
    BY <1>1 DEF OfType
  <2>3. s \in S /\ s \in 1..Len(chain) /\ \A t \in S : t <= s
    BY <1>1, <2>1 DEF OfType
  <2>4. LastOf("system_prompt") = Max(S)
    BY DEF LastOf
  <2> HIDE DEF S
  <2>5. Max(S) \in S /\ \A t \in S : t <= Max(S)
    BY <1>1, <2>2, MaxFacts
  <2>6. Max(S) = s
    <3>1. Max(S) <= s /\ s <= Max(S)
      BY <2>3, <2>5
    <3>2. Max(S) \in 0..Len(chain) /\ s \in 0..Len(chain)
      BY <2>2, <2>3, <2>5
    <3>3. Max(S) \in Nat /\ s \in Nat
      BY <1>1, <3>2
    <3> QED BY <3>1, <3>3
  <2> QED BY <2>1, <2>4, <2>6
<1>5. Superseded(chain) \cap {p \in DOMAIN chain : chain[p].type \in ProtectedTypes} = {}
  BY <1>1 DEF AsLeft, Superseded
<1> QED BY <1>2, <1>3, <1>4, <1>5 DEF SemanticallySound

\* The chain any agent has built, others writing to it too, is well formed and keeps the
\* constitution of the agent on record.
THEOREM StaysSound == Spec => []SemanticallySound
BY CAlways, SoundByCInv, PTL

LEMMA CoverByCInv == CInv => ReflectionsCoverAll
<1> SUFFICES ASSUME CInv PROVE ReflectionsCoverAll
  OBVIOUS
<1> DEFINE R     == OfType("reflection")
           lo(r) == chain[r].covers[1]
           hi(r) == chain[r].covers[2]
           n     == Len(chain)
<1>1. n \in Nat /\ DOMAIN chain = 1..n /\ R \in SUBSET (1..n)
  BY DEF CInv, ChainInv, AsLeft, OfType
<1>2. \A r \in R : /\ hi(r) < r
                   /\ lo(r) = 1 \/ lo(r) - 1 \in R \/ hi(r) - lo(r) + 1 = MaxReflect
                   /\ \A t \in R : t < r => t < lo(r)
                   /\ lo(r) \in 1..n /\ hi(r) \in 1..n /\ lo(r) <= hi(r)
  BY DEF CInv, ChainInv, AsLeft, VerifySemantic, OfType
<1>3. LastOf("reflection") = Max(R \cup {0})
  BY DEF LastOf
<1>4. ReflectionsCoverAll <=>
        /\ \A r, t \in R : r < t => hi(r) < lo(t)
        /\ \A p \in 1 .. LastOf("reflection") :
             \/ p \in R
             \/ \E r \in R : lo(r) =< p /\ p =< hi(r)
             \/ \E r \in R : hi(r) < p /\ p < r
             \/ \E r \in R : /\ p < lo(r) /\ hi(r) - lo(r) + 1 = MaxReflect
                             /\ \A t \in R : ~(p < t /\ t < r)
  BY Zenon DEF ReflectionsCoverAll
<1> HIDE DEF R, lo, hi, n
<1>5. \A r, t \in R : r < t => hi(r) < lo(t)
  <2> SUFFICES ASSUME NEW r \in R, NEW t \in R, r < t PROVE hi(r) < lo(t)
    OBVIOUS
  <2>1. hi(r) < r /\ r < lo(t) /\ hi(r) \in Nat /\ r \in Nat /\ lo(t) \in Nat
    BY <1>1, <1>2
  <2> QED BY <2>1
<1>6. ASSUME NEW p \in 1..LastOf("reflection"), p \notin R
      PROVE  \/ \E r \in R : lo(r) =< p /\ p =< hi(r)
             \/ \E r \in R : hi(r) < p /\ p < r
             \/ \E r \in R : /\ p < lo(r) /\ hi(r) - lo(r) + 1 = MaxReflect
                             /\ \A t \in R : ~(p < t /\ t < r)
  <2>1. R \cup {0} \in SUBSET (0..n) /\ R \cup {0} # {}
    BY <1>1
  <2>2. LastOf("reflection") \in R \cup {0}
    BY <1>1, <1>3, <2>1, MaxFacts
  <2> DEFINE last == LastOf("reflection")
  <2>3. p \in Nat /\ 1 <= p /\ p <= last /\ last \in R /\ last \in Nat
    <3>1. last \in Nat
      <4>1. last \in 0..n
        BY <2>1, <2>2
      <4> QED BY <1>1, <4>1
    <3> HIDE DEF last
    <3>2. p \in 1..last
      BY <1>6 DEF last
    <3>3. last # 0
      BY <3>1, <3>2
    <3> QED BY <2>2, <3>1, <3>2, <3>3 DEF last
  <2> HIDE DEF last
  <2> DEFINE S == {r \in R : p < r}
  <2>4. last \in S /\ S \in SUBSET Nat
    <3>1. p # last
      BY <1>6, <2>3
    <3>2. p < last
      BY <2>3, <3>1
    <3>3. R \subseteq Nat
      BY <1>1
    <3> QED BY <2>3, <3>2, <3>3
  <2> HIDE DEF S
  <2>5. PICK r \in S : \A t \in S : r <= t
    BY <2>4, LeastNumber
  <2>6. r \in R /\ p < r /\ r \in Nat
    BY <1>1, <2>5 DEF S
  <2>7. \A t \in R : ~(p < t /\ t < r)
    BY <1>1, <2>5, <2>6 DEF S
  <2>8. CASE p < lo(r)
    <3>1. lo(r) # 1
      BY <2>3, <2>8
    <3>2. lo(r) - 1 \notin R
      <4> SUFFICES ASSUME lo(r) - 1 \in R PROVE FALSE
        OBVIOUS
      <4>1. lo(r) \in Nat /\ hi(r) \in Nat /\ lo(r) <= hi(r) /\ hi(r) < r
        BY <1>1, <1>2, <2>6
      <4>2. p # lo(r) - 1
        BY <1>6
      <4>3. p < lo(r) - 1 /\ lo(r) - 1 < r
        BY <2>3, <2>6, <2>8, <4>1, <4>2
      <4> QED BY <2>7, <4>3
    <3> QED BY <1>2, <2>6, <2>7, <2>8, <3>1, <3>2
  <2>9. CASE ~(p < lo(r))
    <3>1. lo(r) \in Nat /\ hi(r) \in Nat
      BY <1>1, <1>2, <2>6
    <3> QED BY <2>3, <2>6, <2>9, <3>1
  <2> QED BY <2>8, <2>9
<1> QED BY <1>4, <1>5, <1>6

\* Reflections cover the chain slice by slice.
THEOREM ReflectionsMeet == Spec => []ReflectionsCoverAll
BY CAlways, CoverByCInv, PTL


-----------------------------------------------------------------------------
(* What a turn reads.                                                       *)

Clean(ch) == DOMAIN ch \ Quarantined(ch)

LEMMA CleanKept ==
    ASSUME CInv, Kept
    PROVE  Clean(chain) \subseteq Clean(chain')
BY DEF Kept, Clean, Quarantined

\* Partners are records of an old pair.
LEMMA PartnerFacts ==
    ASSUME NEW ch, NEW p, NEW q \in Partner(ch, p)
    PROVE  /\ q \in DOMAIN ch
           /\ \/ ch[q].type = "observation"
              \/ ch[q].type = "response"
                 /\ \E o \in DOMAIN ch : ch[o].type = "observation" /\ o \in ch[q].refs
BY DEF Partner

LEMMA ContextFacts ==
    ASSUME CInv, NEW hits \in SUBSET DOMAIN chain, NEW indices \in SUBSET (0..Len(chain))
    PROVE  LET context == BuildContext(chain, hits, RecentN, indices).retrieved IN
           /\ context \subseteq Clean(chain)
           /\ \A p \in context :
                chain[p].type \in {"response", "reflection", "synthesis"}
                /\ chain[p].refs \cap OfType("observation") = {}
                  => RevisionsTargeting(chain, {p}) \subseteq context
<1> DEFINE named    == Named(chain, indices)
           found    == hits \cup Recent(chain, RecentN) \cup named
           merged   == found \cup RevisionsTargeting(chain, found)
           stitched == Stitched(chain, merged)
           context  == DropQuarantined(chain, merged \cup stitched)
<1>1. BuildContext(chain, hits, RecentN, indices).retrieved = context
  BY DEF BuildContext
<1>2. Len(chain) \in Nat /\ DOMAIN chain = 1..Len(chain)
  BY DEF CInv, ChainInv, AsLeft
<1>3. found \subseteq DOMAIN chain
  BY <1>2 DEF Named, Recent
<1>4. merged \subseteq DOMAIN chain
  BY <1>3 DEF RevisionsTargeting
<1>5. stitched \subseteq DOMAIN chain
  BY PartnerFacts DEF Stitched
<1>6. context \subseteq Clean(chain)
  BY <1>4, <1>5 DEF DropQuarantined, Clean, Quarantined
<1>7. ASSUME NEW p \in context,
             chain[p].type \in {"response", "reflection", "synthesis"},
             chain[p].refs \cap OfType("observation") = {},
             NEW r \in RevisionsTargeting(chain, {p})
      PROVE  r \in context
  <2>1. p \in merged \cup stitched
    BY DEF DropQuarantined
  <2>2. p \notin stitched
    <3> SUFFICES ASSUME p \in stitched PROVE FALSE
      OBVIOUS
    <3>1. PICK m \in merged : p \in Partner(chain, m)
      BY DEF Stitched
    <3>2. \/ chain[p].type = "observation"
          \/ \E o \in DOMAIN chain : chain[o].type = "observation" /\ o \in chain[p].refs
      BY <3>1, PartnerFacts
    <3> QED BY <1>7, <3>2 DEF OfType
  <2>3. p \in found
    BY <1>7, <2>1, <2>2 DEF RevisionsTargeting
  <2>4. r \in merged /\ r \in DOMAIN chain /\ chain[r].type = "revision"
    BY <2>3 DEF RevisionsTargeting
  <2>5. ~IsQuarantined(chain[r])
    BY <2>4 DEF CInv, ChainInv, AsLeft
  <2> QED BY <2>4, <2>5 DEF DropQuarantined
<1> HIDE DEF context
<1> QED BY <1>1, <1>6, <1>7

\* recall_fetch hands out nothing quarantined.
LEMMA FetchedFacts ==
    ASSUME CInv, NEW p \in DOMAIN chain
    PROVE  Fetched(p) \subseteq Clean(chain)
<1>1. Len(chain) \in Nat /\ DOMAIN chain = 1..Len(chain)
  BY DEF CInv, ChainInv, AsLeft
<1> DEFINE S == RevisionsTargeting(chain, {p})
<1>2. S \subseteq Clean(chain)
  BY DEF CInv, ChainInv, AsLeft, RevisionsTargeting, Clean, Quarantined
<1>3. ASSUME p \in Superseded(chain) PROVE Max(S) \in S
  <2>1. S # {}
    BY <1>3 DEF Superseded, RevisionsTargeting
  <2>2. S \in SUBSET (0..Len(chain))
    BY <1>1 DEF RevisionsTargeting
  <2> HIDE DEF S
  <2> QED BY <1>1, <2>1, <2>2, MaxFacts
<1> HIDE DEF S
<1>4. ~IsQuarantined(chain[p]) => p \in Clean(chain)
  BY DEF Clean, Quarantined
<1> QED BY <1>2, <1>3, <1>4 DEF Fetched, S

RInv == ReadInv /\ RefsInv /\ CorrectionsComeAlong

LEMMA ReadOn ==
    ASSUME CInv, RInv, Kept, InTurn, turn'.context = turn.context, turn'.read = turn.read,
           informed' \subseteq informed \cup Clean(chain')
    PROVE  ReadInv' /\ CorrectionsComeAlong'
<1>1. /\ turn.read \in Nat /\ turn.read <= Len(chain)
      /\ turn.context \subseteq 1..turn.read
      /\ informed \subseteq Clean(chain)
  BY TurnShapes DEF CInv, RInv, ReadInv, Clean
<1>2. informed' \subseteq Clean(chain')
  BY <1>1, CleanKept
<1>3. turn'.read <= Len(chain') /\ turn'.context \subseteq 1..turn'.read
  BY <1>1 DEF Kept
<1>4. ReadInv'
  BY <1>2, <1>3 DEF ReadInv, Clean
<1>5. CorrectionsComeAlong'
  <2> SUFFICES ASSUME NEW p \in turn.context,
                      chain'[p].type \in {"response", "reflection", "synthesis"},
                      chain'[p].refs \cap (OfType("observation"))' = {},
                      NEW r \in RevisionsTargeting(chain', {p}), r =< turn.read
               PROVE  r \in turn.context
    BY DEF CorrectionsComeAlong
  <2>1. p \in 1..Len(chain)
    BY <1>1 DEF Kept
  <2>2. chain'[p] = chain[p]
    BY <2>1 DEF Kept
  <2>3. OfType("observation") \subseteq (OfType("observation"))'
    BY DEF Kept, OfType
  <2>4. r \in 1..Len(chain') /\ r <= Len(chain)
    BY <1>1 DEF RevisionsTargeting, Kept
  <2>5. r \in 1..Len(chain) /\ chain'[r] = chain[r]
    BY <2>4 DEF Kept
  <2>6. r \in RevisionsTargeting(chain, {p})
    BY <2>5 DEF RevisionsTargeting, Kept
  <2> QED BY <2>2, <2>3, <2>6 DEF RInv, CorrectionsComeAlong
<1> QED BY <1>4, <1>5

LEMMA NotReading ==
    ASSUME ~InTurn'
    PROVE  RInv'
BY DEF RInv, ReadInv, RefsInv, CorrectionsComeAlong, InTurn

LEMMA RStep ==
    ASSUME CInv, RInv, [Next]_vars
    PROVE  RInv'
<1>0. Kept /\ CInv'
  BY CStep
<1>1. ASSUME turn' = turn, informed' = informed, recalled' = recalled PROVE RInv'
  <2>1. CASE InTurn
    BY <1>0, <1>1, <2>1, ReadOn DEF RInv, RefsInv
  <2>2. CASE ~InTurn
    BY <1>1, <2>2, NotReading DEF InTurn
  <2> QED BY <2>1, <2>2
<1>2. ASSUME turn' = NoTurn PROVE RInv'
  BY <1>2, NotReading DEF NoTurn, InTurn
<1>3. ASSUME turn'.pc \in {"asking", "tools", "answered"},
             turn.pc \in {"asking", "tools", "answered"},
             turn'.context = turn.context, turn'.read = turn.read,
             informed' = informed, recalled' = recalled
      PROVE  RInv'
  <2>1. ReadInv' /\ CorrectionsComeAlong'
    BY <1>0, <1>3, ReadOn DEF InTurn
  <2>2. RefsInv'
    BY <1>3 DEF RInv, RefsInv
  <2> QED BY <2>1, <2>2 DEF RInv
<1>4. ASSUME NEW found \in SUBSET DOMAIN chain, NEW hits \in Hybrid(found, SemanticK),
             NEW indices \in Questions, Prepare(hits, indices)
      PROVE  RInv'
  <2> DEFINE context == BuildContext(chain, hits, RecentN, indices)
             shown   == TruncateToBudget(chain, context.retrieved, context.pinned, ContextBudget)
  <2>1. /\ turn' = [pc |-> "asking", context |-> context.retrieved, read |-> Len(chain),
                    taken |-> staged, rounds |-> 0, retried |-> FALSE, extra |-> {}]
        /\ informed' = shown /\ recalled' = {} /\ chain' = chain
    BY <1>4 DEF Prepare
  <2>2. hits \in SUBSET DOMAIN chain /\ indices \in SUBSET (0..Len(chain))
    BY DEF Hybrid, Questions
  <2>3. /\ context.retrieved \subseteq Clean(chain)
        /\ \A p \in context.retrieved :
                chain[p].type \in {"response", "reflection", "synthesis"}
                /\ chain[p].refs \cap OfType("observation") = {}
                  => RevisionsTargeting(chain, {p}) \subseteq context.retrieved
    BY <2>2, ContextFacts
  <2>4. Len(chain) \in Nat /\ DOMAIN chain = 1..Len(chain)
    BY DEF CInv, ChainInv, AsLeft
  <2> HIDE DEF context
  <2>5. shown \subseteq context.retrieved
    <3>1. context.retrieved \in SUBSET (1..Len(chain))
      BY <2>3, <2>4 DEF Clean
    <3>2. IsFiniteSet(1..Len(chain))
      BY <2>4, FS_Interval
    <3>3. IsFiniteSet(context.retrieved)
      BY <3>1, <3>2, FS_Subset
    <3> QED BY <3>3, CutIsPart
  <2> HIDE DEF shown
  <2>6. /\ turn'.pc = "asking" /\ turn'.context = context.retrieved
        /\ turn'.read = Len(chain)
    BY <2>1
  <2>7. ReadInv'
    BY <2>1, <2>3, <2>4, <2>5, <2>6 DEF ReadInv, Clean
  <2>8. RefsInv'
    BY <2>1, <2>5, <2>6 DEF RefsInv
  <2>9. CorrectionsComeAlong'
    <3>1. (OfType("observation"))' = OfType("observation")
      BY <2>1 DEF OfType
    <3> QED BY <2>1, <2>3, <2>6, <3>1 DEF CorrectionsComeAlong
  <2> QED BY <2>7, <2>8, <2>9 DEF RInv
<1>5. ASSUME AnswerModel \/ CallsDone PROVE RInv'
  <2>1. InTurn
    BY <1>5 DEF AnswerModel, AnswerCalls, AnswerBroken, AnswerText, CallsDone, InTurn
  <2>2. turn = [pc |-> turn.pc, context |-> turn.context, read |-> turn.read,
                taken |-> turn.taken, rounds |-> turn.rounds,
                retried |-> turn.retried, extra |-> turn.extra]
    BY <2>1, TurnShapes DEF CInv
  <2>3. /\ turn'.pc \in {"asking", "tools", "answered"}
        /\ turn.pc \in {"asking", "tools", "answered"}
        /\ turn'.context = turn.context /\ turn'.read = turn.read
        /\ informed' = informed /\ recalled' = recalled
    <3>1. CASE AnswerCalls
      BY <2>2, <3>1 DEF AnswerCalls
    <3>2. CASE AnswerBroken
      BY <2>2, <3>2 DEF AnswerBroken
    <3>3. CASE AnswerText
      BY <2>2, <3>3 DEF AnswerText
    <3>4. CASE CallsDone
      BY <2>2, <3>4 DEF CallsDone
    <3> QED BY <1>5, <3>1, <3>2, <3>3, <3>4 DEF AnswerModel
  <2> QED BY <1>3, <2>3
<1>6. ASSUME ModelRaises PROVE RInv'
  <2>1. front = "repl" => turn' = NoTurn
    BY <1>6 DEF ModelRaises
  <2>2. turn.pc = "asking" /\ recalled' = recalled
    BY <1>6 DEF ModelRaises
  <2>3. CASE front # "repl"
    <3>1. turn' = [turn EXCEPT !.pc = "answered"] /\ informed' = informed
      BY <1>6, <2>3 DEF ModelRaises
    <3>2. turn = [pc |-> turn.pc, context |-> turn.context, read |-> turn.read,
                  taken |-> turn.taken, rounds |-> turn.rounds,
                  retried |-> turn.retried, extra |-> turn.extra]
      BY <2>2, TurnShapes DEF CInv, InTurn
    <3>3. turn'.pc = "answered" /\ turn'.context = turn.context /\ turn'.read = turn.read
      BY <3>1, <3>2
    <3> QED BY <1>3, <2>2, <3>1, <3>3
  <2> QED BY <1>2, <2>1, <2>3
<1>7. ASSUME NEW p \in DOMAIN chain, RecallFetch(p) PROVE RInv'
  <2>1. /\ turn.pc = "tools" /\ turn' = turn /\ chain' = chain
        /\ recalled' = recalled \cup Fetched(p)
        /\ informed' = informed \cup Fetched(p)
    BY <1>7 DEF RecallFetch
  <2>2. Fetched(p) \subseteq Clean(chain')
    BY <2>1, FetchedFacts
  <2>3. ReadInv' /\ CorrectionsComeAlong'
    BY <1>0, <2>1, <2>2, ReadOn DEF InTurn
  <2>4. RefsInv'
    BY <2>1 DEF RInv, RefsInv
  <2> QED BY <2>3, <2>4 DEF RInv
<1>8. ASSUME ThinkCollapse PROVE RInv'
  <2>1. /\ turn.pc = "tools" /\ turn' = turn /\ chain' = Append(chain, SynthesisRecord)
        /\ recalled' = recalled \cup {Len(chain) + 1}
        /\ informed' = informed \cup {Len(chain) + 1}
    BY <1>8 DEF ThinkCollapse
  <2>2. Len(chain) + 1 \in Clean(chain')
    <3>1. chain'[Len(chain) + 1] = SynthesisRecord /\ Len(chain') = Len(chain) + 1
      BY <2>1, KeptAdd DEF CInv
    <3>2. Len(chain) + 1 \in DOMAIN chain'
      BY <1>0, <3>1 DEF Kept
    <3> QED BY <3>1, <3>2, Unmarked DEF Clean, Quarantined
  <2>3. ReadInv' /\ CorrectionsComeAlong'
    BY <1>0, <2>1, <2>2, ReadOn DEF InTurn
  <2>4. RefsInv'
    BY <2>1 DEF RInv, RefsInv
  <2> QED BY <2>3, <2>4 DEF RInv
<1>9. ASSUME LateDrain PROVE RInv'
  <2>1. /\ turn.pc = "answered" /\ recalled' = {} /\ informed' = informed
        /\ turn' = [turn EXCEPT !.pc = "committing", !.taken = @ \cup staged, !.extra = recalled]
    BY <1>9 DEF LateDrain
  <2>2. turn = [pc |-> turn.pc, context |-> turn.context, read |-> turn.read,
                taken |-> turn.taken, rounds |-> turn.rounds,
                retried |-> turn.retried, extra |-> turn.extra]
    BY <2>1, TurnShapes DEF CInv, InTurn
  <2>3. /\ turn'.pc = "committing" /\ turn'.context = turn.context
        /\ turn'.read = turn.read /\ turn'.extra = recalled
    BY <2>1, <2>2
  <2>4. ReadInv' /\ CorrectionsComeAlong'
    BY <1>0, <2>1, <2>3, ReadOn DEF InTurn
  <2>5. RefsInv'
    BY <2>1, <2>3 DEF RInv, RefsInv
  <2> QED BY <2>4, <2>5 DEF RInv
<1>10. ASSUME StartReflection PROVE RInv'
  <2>1. turn'.pc = "reflecting"
    BY <1>10 DEF StartReflection
  <2> QED BY <2>1, NotReading DEF InTurn
<1>11. ASSUME NEW meta, Commit(meta) PROVE RInv'
  BY <1>2, <1>11 DEF Commit
<1>12. ASSUME CommitFails \/ SealReflection \/ ReflectionFails PROVE RInv'
  BY <1>2, <1>12 DEF CommitFails, SealReflection, ReflectionFails
<1>13. ASSUME NEW f, NEW text, Restart(f, text) PROVE RInv'
  BY <1>2, <1>13 DEF Restart
<1>14. ASSUME NEW a, Upload(a) \/ IngestBlob(a) PROVE RInv'
  BY <1>1, <1>14 DEF Upload, IngestBlob
<1>15. ASSUME NEW p, Revise(p) PROVE RInv'
  BY <1>1, <1>15 DEF Revise
<1>16. ASSUME Refuse PROVE RInv'
  <2>1. turn.pc = "idle" /\ turn' = turn
    BY <1>16 DEF Refuse
  <2> QED BY <2>1, NotReading DEF InTurn
<1>17. ASSUME NEW rec, OtherAppends(rec) PROVE RInv'
  BY <1>1, <1>17 DEF OtherAppends
<1>18. ASSUME UNCHANGED vars PROVE RInv'
  BY <1>1, <1>18 DEF vars
<1> QED BY <1>4, <1>5, <1>6, <1>7, <1>8, <1>9, <1>10, <1>11, <1>12, <1>13, <1>14, <1>15,
           <1>16, <1>17, <1>18
        DEF Next, ToolCall, Finish

LEMMA RInit == Init => RInv
BY DEF Init, NoTurn, RInv, ReadInv, RefsInv, CorrectionsComeAlong, InTurn

LEMMA RAlways == Spec => [](CInv /\ RInv)
<1>1. CInv /\ RInv /\ [Next]_vars => CInv' /\ RInv'
  BY CStep, RStep
<1> QED BY CInit, RInit, <1>1, PTL DEF Spec

\* Nothing quarantined reaches the model in a turn.
THEOREM QuarantineKept == Spec => []QuarantineHolds
<1>1. RInv => QuarantineHolds
  BY DEF RInv, ReadInv, QuarantineHolds
<1> QED BY RAlways, <1>1, PTL

\* A record that was retrieved comes with its corrections.
THEOREM CorrectionsCome == Spec => []CorrectionsComeAlong
<1>1. RInv => CorrectionsComeAlong
  BY DEF RInv
<1> QED BY RAlways, <1>1, PTL

LEMMA RefsByStep ==
    ASSUME CInv, RInv, [Next]_vars,
           turn.pc = "committing", Len(chain') > Len(chain), turn'.pc = "idle",
           chain'[Len(chain')].type = "response"
    PROVE  /\ informed \subseteq chain'[Len(chain')].refs
           /\ chain'[Len(chain')].refs \subseteq informed \cup turn.context
<1>0. Len(chain) \in Nat
  BY DEF CInv, ChainInv, AsLeft
<1>1. chain' # chain
  BY <1>0
<1>2. ASSUME NEW meta, Commit(meta)
      PROVE  chain'[Len(chain')].refs = turn.context \cup turn.extra
  <2>1. chain' = Append(chain, ResponseRecord(turn.context \cup turn.extra, turn.taken, meta))
    BY <1>2 DEF Commit
  <2>2. chain'[Len(chain')] = ResponseRecord(turn.context \cup turn.extra, turn.taken, meta)
    BY <2>1, KeptAdd DEF CInv
  <2> QED BY <2>2, Fields
<1>3. ASSUME NEW f, NEW text, Restart(f, text) PROVE FALSE
  <2>1. chain' = Booted(chain, text)
    BY <1>3 DEF Restart
  <2>2. chain' = chain \/ chain' = Append(chain, PromptRecord(text))
    BY <2>1, BootFacts DEF CInv, ChainInv
  <2>3. chain'[Len(chain')] = PromptRecord(text)
    BY <1>1, <2>2, KeptAdd DEF CInv
  <2> QED BY <2>3, Fields
<1>4. ASSUME NEW rec, OtherAppends(rec) PROVE FALSE
  BY <1>4 DEF OtherAppends
<1>5. ASSUME NEW p, Revise(p) PROVE FALSE
  BY <1>5 DEF Revise
<1>6. ASSUME Refuse \/ ThinkCollapse \/ SealReflection PROVE FALSE
  BY <1>6 DEF Refuse, ThinkCollapse, SealReflection
<1>7. ASSUME NEW hits, NEW indices, Prepare(hits, indices) PROVE FALSE
  BY <1>7 DEF Prepare
<1>8. ASSUME AnswerModel \/ ModelRaises \/ CallsDone \/ LateDrain \/ CommitFails
             \/ StartReflection \/ ReflectionFails \/ UNCHANGED vars
      PROVE  FALSE
  BY <1>1, <1>8 DEF AnswerModel, AnswerCalls, AnswerBroken, AnswerText, ModelRaises, CallsDone,
                LateDrain, CommitFails, StartReflection, ReflectionFails, vars
<1>9. ASSUME NEW a, Upload(a) \/ IngestBlob(a) PROVE FALSE
  BY <1>9 DEF Upload, IngestBlob
<1>10. ASSUME NEW p, RecallFetch(p) PROVE FALSE
  BY <1>10 DEF RecallFetch
<1>11. chain'[Len(chain')].refs = turn.context \cup turn.extra
  BY <1>2, <1>3, <1>4, <1>5, <1>6, <1>7, <1>8, <1>9, <1>10 DEF Next, ToolCall, Finish
<1>12. turn.extra \subseteq informed /\ informed \subseteq turn.context \cup turn.extra
  BY DEF RInv, RefsInv
<1> QED BY <1>11, <1>12

\* The record of a turn refers to what its model read, and to nothing else but what was
\* retrieved.
THEOREM RefsTell == Spec => RefsTellAll
<1> DEFINE A == turn.pc = "committing" /\ Len(chain') > Len(chain) /\ turn'.pc = "idle"
                /\ chain'[Len(chain')].type = "response"
                  => /\ informed \subseteq chain'[Len(chain')].refs
                     /\ chain'[Len(chain')].refs \subseteq informed \cup turn.context
<1>1. CInv /\ RInv /\ [Next]_vars => [A]_vars
  BY RefsByStep
<1> HIDE DEF A
<1>2. Spec => [][A]_vars
  BY <1>1, RAlways, PTL DEF Spec
<1> QED BY <1>2 DEF RefsTellAll, A


-----------------------------------------------------------------------------
(* Attachments.                                                             *)

Attached(a) == \E p \in DOMAIN chain : a \in chain[p].attachments

LEMMA SaveFacts ==
    ASSUME PlacesInv, NEW now, SaveStaging(now)
    PROVE  /\ staged' = now /\ faults' \in Nat
           /\ ~unsaved' => ~unsaved /\ disk' = now
BY DEF SaveStaging, Fault, PlacesInv

LEMMA DrainFacts ==
    ASSUME PlacesInv, DrainStaged
    PROVE  /\ staged' = {} /\ faults' \in Nat
           /\ ~unsaved' => ~unsaved /\ disk' = {}
<1>1. CASE staged = {}
  BY <1>1 DEF DrainStaged, PlacesInv
<1>2. CASE staged # {}
  BY <1>2, SaveFacts DEF DrainStaged
<1> QED BY <1>1, <1>2

\* What is written after the others is written with no attachment.
LEMMA PlainStep ==
    ASSUME CInv, NEW rec, chain' = Append(chain, rec), rec.attachments = {}
    PROVE  \A p \in DOMAIN chain' : p \in DOMAIN chain \/ chain'[p].attachments = {}
BY KeptAdd DEF CInv, Kept

LEMMA PlacesQuiet ==
    ASSUME PlacesInv, Kept, faults' \in Nat, ~unsaved' => ~unsaved /\ disk' = staged',
           staged' = staged,
           \A p \in DOMAIN chain' : p \in DOMAIN chain \/ chain'[p].attachments = {},
           InTurn' => InTurn /\ turn'.taken = turn.taken
    PROVE  PlacesInv'
<1> SUFFICES ASSUME ~unsaved', NEW a \in Uploads
             PROVE  /\ \A p, q \in DOMAIN chain' :
                         a \in chain'[p].attachments /\ a \in chain'[q].attachments => p = q
                    /\ a \in staged' => \A p \in DOMAIN chain' : a \notin chain'[p].attachments
                    /\ InTurn' /\ a \in turn'.taken =>
                         a \notin staged' /\ \A p \in DOMAIN chain' : a \notin chain'[p].attachments
  BY DEF PlacesInv
<1>1. \A p \in DOMAIN chain' : a \in chain'[p].attachments =>
         p \in DOMAIN chain /\ a \in chain[p].attachments
  BY DEF Kept
<1> QED BY <1>1 DEF PlacesInv

LEMMA PlacesStage ==
    ASSUME CInv, PlacesInv, NEW b \in Uploads, Stage(b), chain' = chain, turn' = turn,
           turn.pc \in {"idle", "tools"}
    PROVE  PlacesInv'
<1>1. /\ b \notin staged /\ (turn.pc # "idle" => b \notin turn.taken)
      /\ \A p \in DOMAIN chain : b \notin chain[p].attachments
      /\ SaveStaging(staged \cup {b})
  BY DEF Stage, Fresh
<1>2. /\ staged' = staged \cup {b} /\ faults' \in Nat
      /\ ~unsaved' => ~unsaved /\ disk' = staged \cup {b}
  BY <1>1, SaveFacts
<1> SUFFICES ASSUME ~unsaved', NEW a \in Uploads
             PROVE  /\ \A p, q \in DOMAIN chain' :
                         a \in chain'[p].attachments /\ a \in chain'[q].attachments => p = q
                    /\ a \in staged' => \A p \in DOMAIN chain' : a \notin chain'[p].attachments
                    /\ InTurn' /\ a \in turn'.taken =>
                         a \notin staged' /\ \A p \in DOMAIN chain' : a \notin chain'[p].attachments
  BY <1>2 DEF PlacesInv
<1> QED BY <1>1, <1>2 DEF PlacesInv, InTurn

\* A turn takes what is staged.
LEMMA PlacesDrain ==
    ASSUME PlacesInv, DrainStaged, chain' = chain, InTurn',
           \A a \in turn'.taken : a \in staged \/ (InTurn /\ a \in turn.taken)
    PROVE  PlacesInv'
<1>1. /\ staged' = {} /\ faults' \in Nat
      /\ ~unsaved' => ~unsaved /\ disk' = {}
  BY DrainFacts
<1> SUFFICES ASSUME ~unsaved', NEW a \in Uploads
             PROVE  /\ \A p, q \in DOMAIN chain' :
                         a \in chain'[p].attachments /\ a \in chain'[q].attachments => p = q
                    /\ InTurn' /\ a \in turn'.taken =>
                         \A p \in DOMAIN chain' : a \notin chain'[p].attachments
  BY <1>1 DEF PlacesInv
<1> QED BY <1>1 DEF PlacesInv

LEMMA PlacesCommit ==
    ASSUME CInv, PlacesInv, NEW meta, Commit(meta)
    PROVE  PlacesInv'
<1> DEFINE rec == ResponseRecord(turn.context \cup turn.extra, turn.taken, meta)
           n == Len(chain)
<1>1. /\ chain' = Append(chain, rec) /\ turn' = NoTurn /\ InTurn
      /\ staged' = staged /\ disk' = disk /\ unsaved' = unsaved /\ faults' = faults
  BY DEF Commit, InTurn
<1>2. rec.attachments = turn.taken
  BY Fields
<1> HIDE DEF rec
<1>3. Kept /\ Len(chain') = n + 1 /\ chain'[n + 1] = rec
  BY <1>1, KeptAdd DEF CInv
<1>4. ~InTurn'
  BY <1>1 DEF InTurn, NoTurn
<1> SUFFICES ASSUME ~unsaved, NEW a \in Uploads
             PROVE  /\ \A p, q \in DOMAIN chain' :
                         a \in chain'[p].attachments /\ a \in chain'[q].attachments => p = q
                    /\ a \in staged => \A p \in DOMAIN chain' : a \notin chain'[p].attachments
  BY <1>1, <1>4 DEF PlacesInv
<1>5. \A p \in DOMAIN chain' : a \in chain'[p].attachments =>
         \/ p \in DOMAIN chain /\ a \in chain[p].attachments
         \/ p = n + 1 /\ a \in turn.taken
  BY <1>2, <1>3 DEF Kept
<1> QED BY <1>1, <1>5 DEF PlacesInv

LEMMA PlacesStep ==
    ASSUME CInv, PlacesInv, [Next]_vars
    PROVE  PlacesInv'
<1>0. Kept /\ CInv'
  BY CStep
<1>1. ASSUME faults' \in Nat, unsaved' = unsaved, disk' = disk, staged' = staged,
             \A p \in DOMAIN chain' : p \in DOMAIN chain \/ chain'[p].attachments = {},
             InTurn' => InTurn /\ turn'.taken = turn.taken
      PROVE  PlacesInv'
  <2>1. ~unsaved' => ~unsaved /\ disk' = staged'
    BY <1>1 DEF PlacesInv
  <2> QED BY <1>0, <1>1, <2>1, PlacesQuiet
<1>2. NoTurn.pc = "idle" /\ faults \in Nat
  BY DEF NoTurn, PlacesInv
<1>3. ASSUME NEW a \in Uploads, Upload(a) \/ IngestBlob(a) PROVE PlacesInv'
  <2>1. Stage(a) /\ chain' = chain /\ turn' = turn /\ turn.pc \in {"idle", "tools"}
    BY <1>3 DEF Upload, IngestBlob
  <2> QED BY <2>1, PlacesStage
<1>4. ASSUME Refuse PROVE PlacesInv'
  <2>1. /\ chain' = Append(chain, RefusedRecord) /\ turn' = turn
        /\ faults' = faults /\ unsaved' = unsaved /\ disk' = disk /\ staged' = staged
    BY <1>4 DEF Refuse
  <2>2. RefusedRecord.attachments = {}
    BY Fields DEF RefusedRecord
  <2> QED BY <1>1, <1>2, <2>1, <2>2, PlainStep DEF InTurn
<1>5. ASSUME NEW hits, NEW indices, Prepare(hits, indices) PROVE PlacesInv'
  <2>1. PICK context : turn' = [pc |-> "asking", context |-> context, read |-> Len(chain),
                    taken |-> staged, rounds |-> 0, retried |-> FALSE, extra |-> {}]
    BY <1>5 DEF Prepare
  <2>2. turn'.taken = staged /\ InTurn'
    BY <2>1 DEF InTurn
  <2>3. DrainStaged /\ chain' = chain
    BY <1>5 DEF Prepare
  <2>4. \A a \in turn'.taken : a \in staged \/ (InTurn /\ a \in turn.taken)
    BY <2>2
  <2> QED BY <2>2, <2>3, <2>4, PlacesDrain
<1>6. ASSUME AnswerModel \/ CallsDone PROVE PlacesInv'
  <2>1. InTurn
    BY <1>6 DEF AnswerModel, AnswerCalls, AnswerBroken, AnswerText, CallsDone, InTurn
  <2>2. turn = [pc |-> turn.pc, context |-> turn.context, read |-> turn.read,
                taken |-> turn.taken, rounds |-> turn.rounds,
                retried |-> turn.retried, extra |-> turn.extra]
    BY <2>1, TurnShapes DEF CInv
  <2>3. /\ turn'.taken = turn.taken /\ chain' = chain
        /\ faults' = faults /\ unsaved' = unsaved /\ disk' = disk /\ staged' = staged
    <3>1. CASE AnswerCalls
      BY <2>2, <3>1 DEF AnswerCalls
    <3>2. CASE AnswerBroken
      BY <2>2, <3>2 DEF AnswerBroken
    <3>3. CASE AnswerText
      BY <2>2, <3>3 DEF AnswerText
    <3>4. CASE CallsDone
      BY <2>2, <3>4 DEF CallsDone
    <3> QED BY <1>6, <3>1, <3>2, <3>3, <3>4 DEF AnswerModel
  <2> QED BY <1>1, <1>2, <2>1, <2>3
<1>7. ASSUME ModelRaises PROVE PlacesInv'
  <2>1. front = "repl" => turn' = NoTurn
    BY <1>7 DEF ModelRaises
  <2>2. /\ turn.pc = "asking" /\ chain' = chain /\ faults' = faults + 1
        /\ unsaved' = unsaved /\ disk' = disk /\ staged' = staged
    BY <1>7 DEF ModelRaises, Fault
  <2>3. front # "repl" => turn'.taken = turn.taken
    <3> SUFFICES ASSUME front # "repl" PROVE turn'.taken = turn.taken
      OBVIOUS
    <3>1. turn' = [turn EXCEPT !.pc = "answered"]
      BY <1>7 DEF ModelRaises
    <3>2. turn = [pc |-> turn.pc, context |-> turn.context, read |-> turn.read,
                  taken |-> turn.taken, rounds |-> turn.rounds,
                  retried |-> turn.retried, extra |-> turn.extra]
      BY <2>2, TurnShapes DEF CInv, InTurn
    <3> QED BY <3>1, <3>2
  <2>4. InTurn' => InTurn /\ turn'.taken = turn.taken
    BY <1>2, <2>1, <2>2, <2>3 DEF InTurn
  <2> QED BY <1>1, <1>2, <2>2, <2>4
<1>8. ASSUME NEW p, RecallFetch(p) PROVE PlacesInv'
  BY <1>1, <1>2, <1>8 DEF RecallFetch, InTurn
<1>9. ASSUME ThinkCollapse PROVE PlacesInv'
  <2>1. /\ chain' = Append(chain, SynthesisRecord) /\ turn' = turn
        /\ faults' = faults /\ unsaved' = unsaved /\ disk' = disk /\ staged' = staged
    BY <1>9 DEF ThinkCollapse
  <2>2. SynthesisRecord.attachments = {}
    BY Fields
  <2> QED BY <1>1, <1>2, <2>1, <2>2, PlainStep DEF InTurn
<1>10. ASSUME LateDrain PROVE PlacesInv'
  <2>1. /\ turn.pc = "answered" /\ DrainStaged /\ chain' = chain
        /\ turn' = [turn EXCEPT !.pc = "committing", !.taken = @ \cup staged, !.extra = recalled]
    BY <1>10 DEF LateDrain
  <2>2. turn = [pc |-> turn.pc, context |-> turn.context, read |-> turn.read,
                taken |-> turn.taken, rounds |-> turn.rounds,
                retried |-> turn.retried, extra |-> turn.extra]
    BY <2>1, TurnShapes DEF CInv, InTurn
  <2>3. turn'.pc = "committing" /\ turn'.taken = turn.taken \cup staged
    BY <2>1, <2>2
  <2>4. InTurn /\ InTurn'
    BY <2>1, <2>3 DEF InTurn
  <2>5. \A a \in turn'.taken : a \in staged \/ (InTurn /\ a \in turn.taken)
    BY <2>3, <2>4
  <2> QED BY <2>1, <2>4, <2>5, PlacesDrain
<1>11. ASSUME NEW meta, Commit(meta) PROVE PlacesInv'
  BY <1>11, PlacesCommit
<1>12. ASSUME CommitFails \/ ReflectionFails PROVE PlacesInv'
  <2>1. /\ turn' = NoTurn /\ chain' = chain /\ faults' = faults + 1
        /\ unsaved' = unsaved /\ disk' = disk /\ staged' = staged
    BY <1>12 DEF CommitFails, ReflectionFails, Fault
  <2> QED BY <1>1, <1>2, <2>1 DEF InTurn
<1>13. ASSUME StartReflection PROVE PlacesInv'
  <2>1. /\ turn'.pc = "reflecting" /\ chain' = chain /\ faults' = faults
        /\ unsaved' = unsaved /\ disk' = disk /\ staged' = staged
    BY <1>13 DEF StartReflection
  <2> QED BY <1>1, <1>2, <2>1 DEF InTurn
<1>14. ASSUME SealReflection PROVE PlacesInv'
  <2>1. /\ turn' = NoTurn /\ chain' = Append(chain, ReflectionRecord(turn.lo, turn.hi))
        /\ faults' = faults /\ unsaved' = unsaved /\ disk' = disk /\ staged' = staged
    BY <1>14 DEF SealReflection
  <2>2. ReflectionRecord(turn.lo, turn.hi).attachments = {}
    BY Fields
  <2> QED BY <1>1, <1>2, <2>1, <2>2, PlainStep DEF InTurn
<1>15. ASSUME NEW p, Revise(p) PROVE PlacesInv'
  <2>1. /\ chain' = Append(chain, RevisionRecord(p)) /\ turn' = turn
        /\ faults' = faults /\ unsaved' = unsaved /\ disk' = disk /\ staged' = staged
    BY <1>15 DEF Revise
  <2>2. RevisionRecord(p).attachments = {}
    BY Fields
  <2> QED BY <1>1, <1>2, <2>1, <2>2, PlainStep DEF InTurn
<1>16. ASSUME NEW rec \in OtherRecords, OtherAppends(rec) PROVE PlacesInv'
  <2>1. /\ chain' = Append(chain, rec) /\ turn' = turn
        /\ faults' = faults /\ unsaved' = unsaved /\ disk' = disk /\ staged' = staged
    BY <1>16 DEF OtherAppends
  <2>2. rec.attachments = {}
    BY <1>16, Fields DEF OtherRecords
  <2> QED BY <1>1, <1>2, <2>1, <2>2, PlainStep DEF InTurn
<1>17. ASSUME NEW f, NEW text, Restart(f, text) PROVE PlacesInv'
  <2>1. /\ turn' = NoTurn /\ chain' = Booted(chain, text) /\ faults' = faults + 1
        /\ unsaved' = unsaved /\ disk' = disk /\ staged' = disk
    BY <1>17 DEF Restart, Fault
  <2>2. chain' = chain \/ chain' = Append(chain, PromptRecord(text))
    BY <2>1, BootFacts DEF CInv, ChainInv
  <2>3. PromptRecord(text).attachments = {}
    BY Fields
  <2>4. \A p \in DOMAIN chain' : p \in DOMAIN chain \/ chain'[p].attachments = {}
    BY <2>2, <2>3, PlainStep
  <2>5. CASE unsaved
    BY <1>2, <2>1, <2>5 DEF PlacesInv
  <2>6. CASE ~unsaved
    BY <1>1, <1>2, <2>1, <2>4, <2>6 DEF PlacesInv, InTurn
  <2> QED BY <2>5, <2>6
<1>18. ASSUME UNCHANGED vars PROVE PlacesInv'
  BY <1>1, <1>2, <1>18 DEF vars, InTurn
<1> QED BY <1>3, <1>4, <1>5, <1>6, <1>7, <1>8, <1>9, <1>10, <1>11, <1>12, <1>13, <1>14, <1>15,
           <1>16, <1>17, <1>18
        DEF Next, ToolCall, Finish

LEMMA PlacesInit == Init => PlacesInv
<1> SUFFICES ASSUME Init PROVE PlacesInv
  OBVIOUS
<1>0. faults = 0 /\ disk = {} /\ staged = {} /\ ~InTurn
  BY DEF Init, NoTurn, InTurn
<1> SUFFICES ASSUME NEW a \in Uploads
             PROVE  \A p, q \in DOMAIN chain :
                       a \in chain[p].attachments /\ a \in chain[q].attachments => p = q
  BY <1>0 DEF PlacesInv
<1>1. PICK ch \in InitialChains : chain = Booted(ch, prompt)
  BY DEF Init
<1>2. /\ AsLeft(ch)
      /\ \A p, q \in DOMAIN ch : p # q => ch[p].attachments \cap ch[q].attachments \cap Uploads = {}
  BY AgentTurnAssumption
<1>3. ch \in Seq(ToSet(ch))
  BY <1>2 DEF AsLeft
<1>4. PromptRecord(prompt).attachments = {} /\ GenesisRecord.attachments = {}
  BY Fields
<1>5. CASE ch # <<>>
  <2>1. chain = ch \/ chain = Append(ch, PromptRecord(prompt))
    BY <1>1, <1>2, <1>5, BootFacts
  <2>2. CASE chain = ch
    BY <1>2, <2>2
  <2>3. CASE chain = Append(ch, PromptRecord(prompt))
    <3>1. LET t == Append(ch, PromptRecord(prompt)) IN
          /\ DOMAIN t = 1..(Len(ch) + 1) /\ DOMAIN ch = 1..Len(ch) /\ Len(ch) \in Nat
          /\ t[Len(ch) + 1] = PromptRecord(prompt)
          /\ \A i \in 1..Len(ch) : t[i] = ch[i]
      BY <1>3, AppendFacts
    <3>2. \A p \in DOMAIN chain : a \in chain[p].attachments =>
             p \in DOMAIN ch /\ a \in ch[p].attachments
      BY <1>4, <2>3, <3>1
    <3> QED BY <1>2, <3>2
  <2> QED BY <2>1, <2>2, <2>3
<1>6. CASE ch = <<>>
  <2> DEFINE g == <<GenesisRecord>>
  <2>1. chain = Append(g, PromptRecord(prompt))
    BY <1>1, <1>2, <1>6, BootFacts
  <2>2. g \in Seq(ToSet(g)) /\ Len(g) = 1 /\ g[1] = GenesisRecord
    BY DEF ToSet
  <2> HIDE DEF g
  <2>3. LET t == Append(g, PromptRecord(prompt)) IN
        /\ DOMAIN t = 1..(Len(g) + 1)
        /\ t[Len(g) + 1] = PromptRecord(prompt)
        /\ \A i \in 1..Len(g) : t[i] = g[i]
    BY <2>2, AppendFacts, SMTT(30)
  <2>4. \A p \in DOMAIN chain : chain[p].attachments = {}
    BY <1>4, <2>1, <2>2, <2>3
  <2> QED BY <2>4
<1> QED BY <1>5, <1>6

LEMMA PlacesAlways == Spec => [](CInv /\ PlacesInv)
<1>1. CInv /\ PlacesInv /\ [Next]_vars => CInv' /\ PlacesInv'
  BY CStep, PlacesStep
<1> QED BY CInit, PlacesInit, <1>1, PTL DEF Spec

\* No pointer is sealed twice while its file could be written.
THEOREM SealedOnce == Spec => []AttachmentSealedOnce
<1>1. PlacesInv => AttachmentSealedOnce
  <2> SUFFICES ASSUME PlacesInv, ~unsaved, NEW a \in Uploads
               PROVE  Cardinality({p \in DOMAIN chain : a \in chain[p].attachments}) =< 1
    BY DEF AttachmentSealedOnce
  <2> DEFINE S == {p \in DOMAIN chain : a \in chain[p].attachments}
  <2>1. \A p, q \in S : p = q
    BY DEF PlacesInv
  <2> HIDE DEF S
  <2>2. Cardinality(S) <= 1
    BY <2>1, AtMostOne
  <2> QED BY <2>2 DEF S
<1> QED BY PlacesAlways, <1>1, PTL

LEMMA HeldOn ==
    ASSUME Kept, NEW a, Held(a), staged \subseteq staged',
           InTurn => InTurn' /\ turn.taken \subseteq turn'.taken
    PROVE  Held(a)'
<1>1. CASE a \in staged
  BY <1>1 DEF Held
<1>2. CASE InTurn /\ a \in turn.taken
  BY <1>2 DEF Held
<1>3. CASE \E p \in DOMAIN chain : a \in chain[p].attachments
  BY <1>3 DEF Held, Kept
<1> QED BY <1>1, <1>2, <1>3 DEF Held

LEMMA HeldStep ==
    ASSUME CInv, PlacesInv, [Next]_vars, NEW a \in Uploads, Held(a), ~Held(a)'
    PROVE  faults' > faults /\ turn'.pc = "idle" /\ (a \in staged => unsaved)
<1> DEFINE Lost == faults' > faults /\ turn'.pc = "idle" /\ (a \in staged => unsaved)
<1>0. Kept /\ faults \in Nat /\ NoTurn.pc = "idle"
  BY CStep DEF PlacesInv, NoTurn
<1>1. ASSUME turn' = turn, staged \subseteq staged' PROVE FALSE
  BY <1>0, <1>1, HeldOn DEF InTurn
<1>2. ASSUME ~InTurn, staged \subseteq staged' PROVE FALSE
  BY <1>0, <1>2, HeldOn
<1>3. ASSUME InTurn', turn.taken \subseteq turn'.taken, staged \subseteq staged' PROVE FALSE
  BY <1>0, <1>3, HeldOn
<1>4. ~ \E p \in DOMAIN chain : a \in chain[p].attachments
  BY <1>0 DEF Held, Kept
<1>5. ASSUME NEW b, Upload(b) \/ IngestBlob(b) PROVE FALSE
  <2>1. turn' = turn /\ staged' = staged \cup {b}
    BY <1>5 DEF Upload, IngestBlob, Stage, SaveStaging
  <2> QED BY <1>1, <2>1
<1>6. ASSUME NEW hits, NEW indices, Prepare(hits, indices) PROVE FALSE
  <2>1. PICK context : turn' = [pc |-> "asking", context |-> context, read |-> Len(chain),
                    taken |-> staged, rounds |-> 0, retried |-> FALSE, extra |-> {}]
    BY <1>6 DEF Prepare
  <2>2. turn'.taken = staged /\ InTurn'
    BY <2>1 DEF InTurn
  <2>3. ~InTurn
    BY <1>6 DEF Prepare, InTurn
  <2> QED BY <1>4, <2>2, <2>3 DEF Held
<1>7. ASSUME AnswerModel \/ CallsDone PROVE FALSE
  <2>1. InTurn
    BY <1>7 DEF AnswerModel, AnswerCalls, AnswerBroken, AnswerText, CallsDone, InTurn
  <2>2. turn = [pc |-> turn.pc, context |-> turn.context, read |-> turn.read,
                taken |-> turn.taken, rounds |-> turn.rounds,
                retried |-> turn.retried, extra |-> turn.extra]
    BY <2>1, TurnShapes DEF CInv
  <2>3. turn'.taken = turn.taken /\ staged' = staged /\ InTurn'
    <3>1. CASE AnswerCalls
      BY <2>2, <3>1 DEF AnswerCalls, InTurn
    <3>2. CASE AnswerBroken
      BY <2>2, <3>2 DEF AnswerBroken, InTurn
    <3>3. CASE AnswerText
      BY <2>2, <3>3 DEF AnswerText, InTurn
    <3>4. CASE CallsDone
      BY <2>2, <3>4 DEF CallsDone, InTurn
    <3> QED BY <1>7, <3>1, <3>2, <3>3, <3>4 DEF AnswerModel
  <2> QED BY <1>3, <2>3
<1>8. ASSUME ModelRaises PROVE Lost
  <2>1. front = "repl" => turn' = NoTurn
    BY <1>8 DEF ModelRaises
  <2>2. turn.pc = "asking" /\ faults' = faults + 1 /\ staged' = staged
    BY <1>8 DEF ModelRaises, Fault
  <2>3. CASE front # "repl"
    <3>1. turn' = [turn EXCEPT !.pc = "answered"]
      BY <1>8, <2>3 DEF ModelRaises
    <3>2. turn = [pc |-> turn.pc, context |-> turn.context, read |-> turn.read,
                  taken |-> turn.taken, rounds |-> turn.rounds,
                  retried |-> turn.retried, extra |-> turn.extra]
      BY <2>2, TurnShapes DEF CInv, InTurn
    <3>3. turn'.pc = "answered" /\ turn'.taken = turn.taken
      BY <3>1, <3>2
    <3> QED BY <1>3, <2>2, <3>3 DEF InTurn
  <2>4. a \notin staged
    BY <2>2 DEF Held
  <2> QED BY <1>0, <2>1, <2>2, <2>3, <2>4
<1>9. ASSUME NEW p, RecallFetch(p) \/ Revise(p) PROVE FALSE
  BY <1>1, <1>9 DEF RecallFetch, Revise
<1>10. ASSUME Refuse \/ ThinkCollapse \/ UNCHANGED vars PROVE FALSE
  BY <1>1, <1>10 DEF Refuse, ThinkCollapse, vars
<1>11. ASSUME LateDrain PROVE FALSE
  <2>1. /\ turn.pc = "answered"
        /\ turn' = [turn EXCEPT !.pc = "committing", !.taken = @ \cup staged, !.extra = recalled]
    BY <1>11 DEF LateDrain
  <2>2. turn = [pc |-> turn.pc, context |-> turn.context, read |-> turn.read,
                taken |-> turn.taken, rounds |-> turn.rounds,
                retried |-> turn.retried, extra |-> turn.extra]
    BY <2>1, TurnShapes DEF CInv, InTurn
  <2>3. turn'.pc = "committing" /\ turn'.taken = turn.taken \cup staged
    BY <2>1, <2>2
  <2> QED BY <1>4, <2>3 DEF Held, InTurn
<1>12. ASSUME NEW meta, Commit(meta) PROVE FALSE
  <2> DEFINE rec == ResponseRecord(turn.context \cup turn.extra, turn.taken, meta)
  <2>1. chain' = Append(chain, rec) /\ staged' = staged
    BY <1>12 DEF Commit
  <2>2. rec.attachments = turn.taken
    BY Fields
  <2> HIDE DEF rec
  <2>3. Len(chain') = Len(chain) + 1 /\ chain'[Len(chain) + 1] = rec
    BY <2>1, KeptAdd DEF CInv
  <2>4. Len(chain) + 1 \in DOMAIN chain'
    BY <1>0, <2>3 DEF Kept
  <2>5. a \in turn.taken => Held(a)'
    BY <2>2, <2>3, <2>4 DEF Held
  <2> QED BY <1>4, <2>1, <2>5 DEF Held
<1>13. ASSUME CommitFails PROVE Lost
  <2>1. turn' = NoTurn /\ faults' = faults + 1 /\ staged' = staged
    BY <1>13 DEF CommitFails, Fault
  <2>2. a \notin staged
    BY <2>1 DEF Held
  <2> QED BY <1>0, <2>1, <2>2
<1>14. ASSUME StartReflection \/ SealReflection \/ ReflectionFails PROVE FALSE
  <2>1. ~InTurn /\ staged' = staged
    BY <1>14 DEF StartReflection, SealReflection, ReflectionFails, InTurn
  <2> QED BY <1>2, <2>1
<1>15. ASSUME NEW rec, OtherAppends(rec) PROVE FALSE
  BY <1>1, <1>15 DEF OtherAppends
<1>16. ASSUME NEW f, NEW text, Restart(f, text) PROVE Lost
  <2>1. turn' = NoTurn /\ faults' = faults + 1 /\ staged' = disk
    BY <1>16 DEF Restart, Fault
  <2>2. a \notin disk
    BY <2>1 DEF Held
  <2>3. a \in staged => unsaved
    BY <2>2 DEF PlacesInv
  <2> QED BY <1>0, <2>1, <2>3
<1> HIDE DEF Lost
<1>17. Lost
  BY <1>5, <1>6, <1>7, <1>8, <1>9, <1>10, <1>11, <1>12, <1>13, <1>14, <1>15, <1>16
     DEF Next, ToolCall, Finish
<1> QED BY <1>17 DEF Lost

\* An uploaded file's pointer is lost with a turn that fails, or by a crash after its
\* file could not be written, and in no other way.
THEOREM PointersKept == Spec => AttachmentsKept
<1> DEFINE A == \A a \in Uploads : Held(a) /\ ~Held(a)' =>
                   faults' > faults /\ turn'.pc = "idle" /\ (a \in staged => unsaved)
<1>1. CInv /\ PlacesInv /\ [Next]_vars => [A]_vars
  BY HeldStep
<1> HIDE DEF A
<1>2. Spec => [][A]_vars
  BY <1>1, PlacesAlways, PTL DEF Spec
<1> QED BY <1>2 DEF AttachmentsKept, A


-----------------------------------------------------------------------------
(* What the cut may cost.  Outranks is a strict order of the records, so    *)
(* that a record's rank is its own, and what was kept when a record came    *)
(* up is what is kept in the end of the records before it.                  *)

LEMMA OutranksOrder ==
    ASSUME NEW ch, NEW pinned, NEW ps \in SUBSET Int,
           \A p \in ps : ReadMeta(ch[p]).salience \in Int
    PROVE  /\ \A p \in ps : ~Outranks(ch, pinned, p, p)
           /\ \A p, q \in ps : p # q => Outranks(ch, pinned, p, q) \/ Outranks(ch, pinned, q, p)
           /\ \A p, q, r \in ps : Outranks(ch, pinned, p, q) /\ Outranks(ch, pinned, q, r)
                                    => Outranks(ch, pinned, p, r)
<1> DEFINE s(r) == ReadMeta(ch[r]).salience
           above(p, q) == s(p) > s(q) \/ (s(p) = s(q) /\ p > q)
<1>1. \A p, q \in ps : Outranks(ch, pinned, p, q) <=>
          \/ p \in pinned /\ q \notin pinned
          \/ (p \in pinned <=> q \in pinned) /\ above(p, q)
  BY DEF Outranks
<1>2. \A p \in ps : s(p) \in Int /\ p \in Int
  OBVIOUS
<1> HIDE DEF s
<1>3. /\ \A p \in ps : ~above(p, p)
      /\ \A p, q \in ps : p # q => above(p, q) \/ above(q, p)
      /\ \A p, q, r \in ps : above(p, q) /\ above(q, r) => above(p, r)
  BY <1>2
<1> HIDE DEF above
<1> QED BY <1>1, <1>3

LEMMA RankFacts ==
    ASSUME NEW ch, NEW pinned, NEW ps \in SUBSET Int, IsFiniteSet(ps),
           \A p \in ps : ReadMeta(ch[p]).salience \in Int
    PROVE  /\ \A p \in ps : Rank(ch, ps, pinned, p) \in 1 .. Cardinality(ps)
           /\ \A p, q \in ps : Outranks(ch, pinned, p, q)
                                 => Rank(ch, ps, pinned, p) < Rank(ch, ps, pinned, q)
           /\ \A p, q \in ps : Rank(ch, ps, pinned, p) < Rank(ch, ps, pinned, q)
                                 => Outranks(ch, pinned, p, q)
           /\ \A p, q \in ps : Rank(ch, ps, pinned, p) = Rank(ch, ps, pinned, q) => p = q
<1> DEFINE Above(p) == {q \in ps : Outranks(ch, pinned, q, p)}
           N == Cardinality(ps)
           rank(p) == Rank(ch, ps, pinned, p)
<1>1. N \in Nat
  BY FS_CardinalityType
<1>2. /\ \A p \in ps : ~Outranks(ch, pinned, p, p)
      /\ \A p, q \in ps : p # q => Outranks(ch, pinned, p, q) \/ Outranks(ch, pinned, q, p)
      /\ \A p, q, r \in ps : Outranks(ch, pinned, p, q) /\ Outranks(ch, pinned, q, r)
                               => Outranks(ch, pinned, p, r)
  BY OutranksOrder
<1>3. ASSUME NEW p \in ps
      PROVE  rank(p) = Cardinality(Above(p)) + 1 /\ rank(p) \in 1 .. N
             /\ IsFiniteSet(Above(p)) /\ Cardinality(Above(p)) \in Nat
  <2>1. rank(p) = Cardinality(Above(p)) + 1
    BY DEF Rank
  <2>2. Above(p) \subseteq ps \ {p}
    BY <1>2
  <2>3. IsFiniteSet(ps \ {p}) /\ Cardinality(ps \ {p}) = N - 1
    BY FS_RemoveElement
  <2>4. IsFiniteSet(Above(p)) /\ Cardinality(Above(p)) <= N - 1
    BY <2>2, <2>3, FS_Subset
  <2>5. Cardinality(Above(p)) \in Nat
    BY <2>4, FS_CardinalityType
  <2> HIDE DEF N, rank, Above
  <2> QED BY <1>1, <2>1, <2>4, <2>5
<1>4. ASSUME NEW p \in ps, NEW q \in ps, Outranks(ch, pinned, p, q)
      PROVE  rank(p) < rank(q)
  <2>1. Above(p) \cup {p} \subseteq Above(q) /\ p \notin Above(p)
    BY <1>2, <1>4
  <2>2. /\ IsFiniteSet(Above(p) \cup {p})
        /\ Cardinality(Above(p) \cup {p}) = Cardinality(Above(p)) + 1
    BY <1>3, <2>1, FS_AddElement
  <2>3. Cardinality(Above(p) \cup {p}) <= Cardinality(Above(q))
    BY <1>3, <2>1, FS_Subset
  <2> HIDE DEF N, rank, Above
  <2> QED BY <1>3, <2>2, <2>3
<1> HIDE DEF rank, Above, N
<1>5. \A p \in ps : rank(p) \in Nat
  BY <1>1, <1>3
<1>6. ASSUME NEW p \in ps, NEW q \in ps, rank(p) < rank(q) PROVE Outranks(ch, pinned, p, q)
  <2>1. p # q /\ ~(rank(q) < rank(p))
    BY <1>5, <1>6
  <2> QED BY <1>2, <1>4, <2>1
<1>7. ASSUME NEW p \in ps, NEW q \in ps, rank(p) = rank(q) PROVE p = q
  <2>1. ~(rank(p) < rank(q)) /\ ~(rank(q) < rank(p))
    BY <1>5, <1>7
  <2> QED BY <1>2, <1>4, <2>1
<1> QED BY <1>3, <1>4, <1>6, <1>7 DEF rank, N

\* Somebody has rank 1, and outranks the others.
LEMMA BestRank ==
    ASSUME NEW ch, NEW pinned, NEW ps \in SUBSET Int, IsFiniteSet(ps), ps # {},
           \A p \in ps : ReadMeta(ch[p]).salience \in Int
    PROVE  \E p \in ps : /\ Rank(ch, ps, pinned, p) = 1
                         /\ \A q \in ps \ {p} : Outranks(ch, pinned, p, q)
<1> DEFINE rank(p) == Rank(ch, ps, pinned, p)
           R == {rank(p) : p \in ps}
<1>1. Cardinality(ps) \in Nat
  BY FS_CardinalityType
<1>2. \A p \in ps : rank(p) \in Nat
  BY <1>1, RankFacts
<1>3. PICK m \in R : \A k \in R : m <= k
  <2>1. R \in SUBSET Nat /\ R # {}
    BY <1>2
  <2> HIDE DEF R
  <2> QED BY <2>1, LeastNumber
<1>4. PICK p \in ps : rank(p) = m
  BY <1>3
<1>5. \A q \in ps : ~Outranks(ch, pinned, q, p)
  <2>1. \A q \in ps : Outranks(ch, pinned, q, p) => rank(q) < rank(p)
    BY RankFacts
  <2>2. \A q \in ps : rank(p) <= rank(q)
    BY <1>3, <1>4
  <2> HIDE DEF rank
  <2> QED BY <1>2, <2>1, <2>2
<1>6. rank(p) = 1
  <2>1. {q \in ps : Outranks(ch, pinned, q, p)} = {}
    BY <1>5
  <2>2. Cardinality({}) = 0
    BY FS_EmptySet
  <2> QED BY <2>1, <2>2 DEF Rank
<1>7. \A q \in ps \ {p} : Outranks(ch, pinned, p, q)
  BY <1>5, OutranksOrder
<1> QED BY <1>6, <1>7

\* What is kept of the n best is what is kept in the end of them.
LEMMA GreedyParts ==
    ASSUME NEW ch, NEW pinned, NEW budget, NEW ps \in SUBSET Int, IsFiniteSet(ps),
           \A p \in ps : ReadMeta(ch[p]).salience \in Int,
           NEW n \in 0 .. Cardinality(ps)
    PROVE  Greedy(ch, ps, pinned, budget)[n]
             = {p \in Greedy(ch, ps, pinned, budget)[Cardinality(ps)] :
                  p \in ps /\ Rank(ch, ps, pinned, p) <= n}
<1> DEFINE N == Cardinality(ps)
           kept == Greedy(ch, ps, pinned, budget)
           rank(p) == Rank(ch, ps, pinned, p)
           first(k) == {p \in ps : rank(p) <= k}
           new(k) == Taken(ch, ps, pinned, budget, kept[k - 1], k)
           T == {k \in Nat : k <= N => kept[k] \subseteq first(k)}
           U == {k \in Nat : n + k <= N => kept[n] = kept[n + k] \cap first(n)}
<1>1. N \in Nat
  BY FS_CardinalityType
<1>2. \A p \in ps : rank(p) \in Nat
  BY <1>1, RankFacts
<1>3. kept[0] = {} /\ \A k \in 1 .. N : kept[k] = kept[k - 1] \cup new(k)
  BY GreedyStep
<1>4. \A k \in 1 .. N : new(k) \subseteq {p \in ps : rank(p) = k}
  BY DEF Taken
<1> HIDE DEF N, kept, rank, new
<1>5. 0 \in T
  BY <1>3
<1>6. ASSUME NEW k \in T PROVE k + 1 \in T
  <2>1. SUFFICES ASSUME k + 1 <= N PROVE kept[k + 1] \subseteq first(k + 1)
    OBVIOUS
  <2>2. k \in Nat /\ k + 1 \in 1 .. N /\ (k + 1) - 1 = k /\ kept[k] \subseteq first(k)
    BY <1>1, <2>1
  <2>3. first(k) \subseteq first(k + 1) /\ {p \in ps : rank(p) = k + 1} \subseteq first(k + 1)
    <3>1. \A p \in ps : /\ rank(p) <= k => rank(p) <= k + 1
                        /\ rank(p) = k + 1 => rank(p) <= k + 1
      <4>1. SUFFICES ASSUME NEW p \in ps
                     PROVE  /\ rank(p) <= k => rank(p) <= k + 1
                            /\ rank(p) = k + 1 => rank(p) <= k + 1
        OBVIOUS
      <4>2. rank(p) \in Nat /\ k \in Nat
        BY <1>2, <2>2
      <4> QED BY <4>2
    <3> QED BY <3>1
  <2> HIDE DEF first
  <2> QED BY <1>3, <1>4, <2>2, <2>3
<1>7. T = Nat
  <2>1. T \in SUBSET Nat
    OBVIOUS
  <2> HIDE DEF T
  <2> QED BY <1>5, <1>6, <2>1, Induction
<1>8. n \in Nat /\ n <= N
  BY <1>1 DEF N
<1>9. 0 \in U
  <2>1. kept[n] \subseteq first(n) /\ n + 0 = n
    BY <1>7, <1>8
  <2> HIDE DEF first
  <2> QED BY <2>1
<1>10. ASSUME NEW k \in U PROVE k + 1 \in U
  <2>1. SUFFICES ASSUME n + (k + 1) <= N PROVE kept[n] = kept[n + (k + 1)] \cap first(n)
    OBVIOUS
  <2>2. /\ k \in Nat /\ n + (k + 1) \in 1 .. N /\ (n + (k + 1)) - 1 = n + k
        /\ n + k <= N
    BY <1>1, <1>8, <2>1
  <2>3. kept[n] = kept[n + k] \cap first(n)
    BY <2>2
  <2>4. {p \in ps : rank(p) = n + (k + 1)} \cap first(n) = {}
    BY <1>2, <1>8, <2>2
  <2>5. kept[n + (k + 1)] = kept[n + k] \cup new(n + (k + 1))
    BY <1>3, <2>2
  <2>6. new(n + (k + 1)) \subseteq {p \in ps : rank(p) = n + (k + 1)}
    BY <1>4, <2>2
  <2> HIDE DEF first
  <2> QED BY <2>3, <2>4, <2>5, <2>6
<1>11. U = Nat
  <2>1. U \in SUBSET Nat
    OBVIOUS
  <2> HIDE DEF U
  <2> QED BY <1>9, <1>10, <2>1, Induction
<1>12. N - n \in U /\ n + (N - n) = N
  <2>1. N - n \in Nat /\ n + (N - n) = N
    BY <1>1, <1>8
  <2> HIDE DEF U
  <2> QED BY <1>11, <2>1
<1>13. kept[n] = kept[N] \cap first(n)
  BY <1>12
<1> QED BY <1>13 DEF N, kept, rank

\* However the records are ranked, pinned and sized, and whatever the budget,
\* the cut keeps the best of them and loses one only where it does not fit
\* beside better ones that stay, never a pinned one to one that is not
\* (_truncate_to_budget).
THEOREM CutLosesLittle ==
    ASSUME NEW ch, NEW pinned, NEW budget, NEW ps \in SUBSET Int, IsFiniteSet(ps), ps # {},
           \A p \in ps : ReadMeta(ch[p]).salience \in Int
    PROVE  LosesLittle(ch, ps, pinned, budget)
<1> DEFINE N == Cardinality(ps)
           G == Greedy(ch, ps, pinned, budget)
           kept == TruncateToBudget(ch, ps, pinned, budget)
           rank(p) == Rank(ch, ps, pinned, p)
           over(p, q) == Outranks(ch, pinned, p, q)
           fits(S) == Size(ch, S) =< budget
           better(p) == {q \in kept : over(q, p)}
           new(k) == Taken(ch, ps, pinned, budget, G[k - 1], k)
<1>1. /\ N \in Nat
      /\ \A p \in ps : rank(p) \in 1 .. N
      /\ \A p, q \in ps : over(p, q) <=> rank(p) < rank(q)
      /\ \A p, q \in ps : rank(p) = rank(q) => p = q
  BY RankFacts, FS_CardinalityType
<1>2. PICK best \in ps : rank(best) = 1 /\ \A q \in ps \ {best} : over(best, q)
  BY BestRank
<1>3. kept = IF fits(ps) THEN ps ELSE G[N]
  BY DEF TruncateToBudget
<1>4. kept \subseteq ps
  BY CutIsPart
<1>5. /\ G[0] = {} /\ \A k \in 1 .. N : G[k] = G[k - 1] \cup new(k)
      /\ \A k \in 0 .. N : G[k] = {p \in G[N] : p \in ps /\ rank(p) <= k}
  BY GreedyStep, GreedyParts
<1>6. \A k \in 1 .. N : new(k) = {p \in ps : rank(p) = k /\ (k = 1 \/ fits(G[k - 1] \cup {p}))}
  BY DEF Taken
<1>7. 1 \in 1 .. N
  BY <1>1, <1>2
<1> HIDE DEF G, N, kept, rank, over, fits, new
<1>8. G[1] = {best}
  <2>1. G[1] = new(1)
    <3>1. G[1] = G[1 - 1] \cup new(1) /\ 1 - 1 = 0
      BY <1>5, <1>7
    <3> QED BY <1>5, <3>1
  <2>2. new(1) = {p \in ps : rank(p) = 1}
    BY <1>6, <1>7
  <2> QED BY <1>1, <1>2, <2>1, <2>2
<1>9. best \in kept
  <2>1. 1 \in 0 .. N
    BY <1>1, <1>7
  <2>2. best \in G[N]
    BY <1>5, <1>8, <2>1
  <2> QED BY <1>3, <2>2
<1>10. fits(kept) \/ Cardinality(kept) = 1
  <2> DEFINE V == {k \in Nat : k + 1 <= N => fits(G[k + 1]) \/ Cardinality(G[k + 1]) = 1}
  <2>1. 0 \in V
    <3>1. Cardinality({best}) = 1
      BY FS_Singleton
    <3> QED BY <1>8, <3>1
  <2>2. ASSUME NEW k \in V PROVE k + 1 \in V
    <3>1. SUFFICES ASSUME (k + 1) + 1 <= N
                   PROVE  fits(G[(k + 1) + 1]) \/ Cardinality(G[(k + 1) + 1]) = 1
      OBVIOUS
    <3> DEFINE m == (k + 1) + 1
    <3>2. k \in Nat /\ m \in 1 .. N /\ m - 1 = k + 1 /\ m # 1 /\ k + 1 <= N
      BY <1>1, <3>1
    <3>3. fits(G[k + 1]) \/ Cardinality(G[k + 1]) = 1
      BY <3>2
    <3> HIDE DEF m
    <3>4. G[m] = G[k + 1] \cup {p \in ps : rank(p) = m /\ fits(G[k + 1] \cup {p})}
      BY <1>5, <1>6, <3>2
    <3>5. CASE \E p \in ps : rank(p) = m /\ fits(G[k + 1] \cup {p})
      <4>1. PICK p \in ps : rank(p) = m /\ fits(G[k + 1] \cup {p})
        BY <3>5
      <4>2. {q \in ps : rank(q) = m /\ fits(G[k + 1] \cup {q})} = {p}
        BY <1>1, <4>1
      <4> QED BY <3>4, <4>1, <4>2 DEF m
    <3>6. CASE ~\E p \in ps : rank(p) = m /\ fits(G[k + 1] \cup {p})
      <4>1. G[m] = G[k + 1]
        BY <3>4, <3>6
      <4> QED BY <3>3, <4>1 DEF m
    <3> QED BY <3>5, <3>6
  <2>3. V = Nat
    <3>1. V \in SUBSET Nat
      OBVIOUS
    <3> HIDE DEF V
    <3> QED BY <2>1, <2>2, <3>1, Induction
  <2>4. N - 1 \in V /\ (N - 1) + 1 = N
    <3>1. N - 1 \in Nat /\ (N - 1) + 1 = N
      BY <1>1, <1>7
    <3> HIDE DEF V
    <3> QED BY <2>3, <3>1
  <2>5. fits(G[N]) \/ Cardinality(G[N]) = 1
    BY <1>1, <2>4
  <2> QED BY <1>3, <2>5
<1>11. ASSUME NEW p \in ps \ kept
       PROVE  /\ ~fits(better(p) \cup {p})
              /\ p \in pinned => better(p) \subseteq pinned
  <2>1. kept = G[N] /\ p \notin G[N]
    BY <1>3
  <2> DEFINE k == rank(p)
  <2>2. k \in 1 .. N /\ k - 1 \in 0 .. N /\ k \in 0 .. N
    BY <1>1
  <2>3. better(p) = G[k - 1]
    <3>1. G[k - 1] = {q \in G[N] : q \in ps /\ rank(q) <= k - 1}
      BY <1>5, <2>2
    <3>2. \A q \in ps : over(q, p) <=> rank(q) <= k - 1
      <4>1. SUFFICES ASSUME NEW q \in ps PROVE over(q, p) <=> rank(q) <= k - 1
        OBVIOUS
      <4>2. rank(q) \in Nat /\ k \in Nat /\ (over(q, p) <=> rank(q) < k)
        BY <1>1
      <4> HIDE DEF k
      <4> QED BY <4>2
    <3> QED BY <1>4, <2>1, <3>1, <3>2
  <2>4. k # 1
    <3>1. k = 1 => p = best
      BY <1>1, <1>2
    <3> QED BY <1>9, <3>1
  <2>5. p \notin new(k)
    <3>1. p \notin G[k]
      BY <1>5, <2>1, <2>2
    <3> QED BY <1>5, <2>2, <3>1
  <2>6. ~fits(G[k - 1] \cup {p})
    BY <1>6, <2>2, <2>4, <2>5
  <2>7. \A q \in kept : over(q, p) /\ p \in pinned => q \in pinned
    BY DEF over, Outranks
  <2> QED BY <2>3, <2>6, <2>7
<1>12. /\ \E p \in kept : \A q \in ps \ {p} : over(p, q)
       /\ fits(kept) \/ Cardinality(kept) = 1
       /\ \A p \in ps \ kept : /\ ~fits(better(p) \cup {p})
                               /\ p \in pinned => better(p) \subseteq pinned
  BY <1>2, <1>9, <1>10, <1>11
<1> QED BY <1>12 DEF LosesLittle, kept, over, fits

LEMMA SizedRecords == \A r \in Sized : ReadMeta(r).salience \in Int
<1>1. SUFFICES ASSUME NEW n \in 1 .. 3, NEW s \in {20, 40, 85}
               PROVE  LET r == [ResponseRecord({}, {}, [exposure |-> Private, salience |-> s])
                                  EXCEPT !.size = n]
                      IN  ReadMeta(r).salience \in Int
  BY DEF Sized
<1> DEFINE m == [exposure |-> Private, salience |-> s]
           q == ResponseRecord({}, {}, m)
           r == [q EXCEPT !.size = n]
<1>2. "meta" \in DOMAIN q /\ q.meta = m
  BY DEF ResponseRecord, Blank
<1> HIDE DEF q
<1>3. "meta" \in DOMAIN r /\ r.meta = m
  BY <1>2
<1>4. m.salience \in Int
  OBVIOUS
<1> HIDE DEF r, m
<1>5. ReadMeta(r).salience \in Int
  BY <1>3, <1>4 DEF ReadMeta
<1> QED BY <1>5 DEF r, q, m

LEMMA CutGreedy == CutIsGreedy
<1> SUFFICES ASSUME NEW ch \in [1 .. 3 -> Sized], NEW pinned \in SUBSET (1 .. 3),
                    NEW budget \in 0 .. 6
             PROVE  LosesLittle(ch, 1 .. 3, pinned, budget)
  BY DEF CutIsGreedy
<1>1. 1 .. 3 \in SUBSET Int /\ IsFiniteSet(1 .. 3) /\ 1 .. 3 # {}
  <2>1. 1 \in Int /\ 3 \in Int
    OBVIOUS
  <2>2. IsFiniteSet(1 .. 3)
    BY <2>1, FS_Interval, Zenon
  <2> QED BY <2>2
<1>2. \A p \in 1 .. 3 : ReadMeta(ch[p]).salience \in Int
  BY SizedRecords
<1> QED BY <1>1, <1>2, CutLosesLittle

\* So it is of the chains that are looked at.
THEOREM CutStaysGreedy == Spec => []CutIsGreedy
BY CutGreedy, PTL


(***************************************************************************)
(* Proof-of-Quality.                                                       *)
(***************************************************************************)
\* What is measured of a text, of an answer and of a record in context.
Percent == 0 .. 100

Measured(text) ==
    text.coherence \in Percent /\ text.contradiction \in Percent /\ text.tension \in Percent

Answered(answer) ==
    /\ Measured(answer.text)
    /\ answer.similar \in Percent /\ answer.covered \in Percent
    /\ answer.words \in Nat /\ answer.distinct \in Nat

Recollected(retrieved) == \A r \in retrieved : r.overlap \in Percent

\* A detector that always runs runs whatever the text calls for.
LEMMA MandatoryRuns ==
  ASSUME NEW registry, NEW mandatory, NEW called, NEW budget,
         NEW i \in DOMAIN registry, registry[i] \in mandatory
  PROVE  registry[i] \in Route(registry, mandatory, called, budget)
BY DEF Route

LEMMA RoutedIsRegistered ==
  ASSUME NEW registry, NEW mandatory, NEW called, NEW budget,
         NEW name \in Route(registry, mandatory, called, budget)
  PROVE  \E i \in DOMAIN registry : name = registry[i]
BY DEF Route

\* What is measured of a text does not depend on which detectors its words call for.
LEMMA RoutingTellsNothing ==
  ASSUME NEW text
  PROVE  Report(text, TRUE) = Report(text, FALSE)
<1> DEFINE Routed == Route(Modalities, MandatoryModalities, text.called, 3)
                       \cup Route(Senses, MandatorySenses, text.called, 4)
           Listed == ToSet(Modalities) \cup ToSet(Senses)
<1>1. "coherence" \in Routed /\ "coherence" \in Listed
  <2>1. 2 \in DOMAIN Modalities /\ Modalities[2] = "coherence" /\ "coherence" \in MandatoryModalities
    BY DEF Modalities, MandatoryModalities
  <2> QED
    BY <2>1, MandatoryRuns DEF ToSet
<1>2. "integrity_field" \in Routed /\ "integrity_field" \in Listed
  <2>1. 12 \in DOMAIN Modalities /\ Modalities[12] = "integrity_field"
        /\ "integrity_field" \in MandatoryModalities
    BY DEF Modalities, MandatoryModalities
  <2> QED
    BY <2>1, MandatoryRuns DEF ToSet
<1>3. "contradiction" \in Routed /\ "contradiction" \in Listed
  <2>1. 6 \in DOMAIN Senses /\ Senses[6] = "contradiction" /\ "contradiction" \in MandatorySenses
    BY DEF Senses, MandatorySenses
  <2> QED
    BY <2>1, MandatoryRuns DEF ToSet
<1>4. "injection_scan" \in Routed /\ "injection_scan" \in Listed
  <2>1. 11 \in DOMAIN Senses /\ Senses[11] = "injection_scan" /\ "injection_scan" \in MandatorySenses
    BY DEF Senses, MandatorySenses
  <2> QED
    BY <2>1, MandatoryRuns DEF ToSet
<1> DEFINE Axis(name, value, neutral, ran) == IF name \in ran THEN value ELSE neutral
           Told(ran) == [coherence     |-> Axis("coherence", text.coherence, 50, ran),
                         contradiction |-> Axis("contradiction", text.contradiction, 0, ran),
                         risk          |-> Axis("integrity_field", text.tension, 0, ran),
                         alert         |-> \/ "integrity_field" \in ran /\ text.tension > 0
                                           \/ "injection_scan" \in ran /\ text.tagged]
<1>5. Report(text, TRUE) = Told(Routed \ text.broken)
  BY DEF Report
<1>6. Report(text, FALSE) = Told(Listed \ text.broken)
  BY DEF Report
<1>7. \A name \in {"coherence", "contradiction", "integrity_field", "injection_scan"} :
         name \in Routed \ text.broken <=> name \in Listed \ text.broken
  <2> HIDE DEF Routed, Listed
  <2> QED
    BY <1>1, <1>2, <1>3, <1>4
<1>8. Told(Routed \ text.broken) = Told(Listed \ text.broken)
  <2> HIDE DEF Routed, Listed
  <2> QED
    BY <1>7
<1> HIDE DEF Routed, Listed, Told
<1> QED
  BY <1>5, <1>6, <1>8

\* Which optional detectors run makes no difference to the score of an answer, to what
\* its record may be used for or to whether it is said (MANDATORY_MODALITIES,
\* MANDATORY_SENSES, evaluate).
THEOREM RoutingDecidesNothing ==
  ASSUME NEW input, NEW answer, NEW retrieved, NEW covenant, NEW judged
  PROVE  Evaluate(input, answer, retrieved, covenant, TRUE, judged)
           = Evaluate(input, answer, retrieved, covenant, FALSE, judged)
<1>1. Report(input, TRUE) = Report(input, FALSE)
  BY RoutingTellsNothing
<1>2. Report(answer.text, TRUE) = Report(answer.text, FALSE)
  BY RoutingTellsNothing
<1> QED
  BY <1>1, <1>2 DEF Evaluate


LEMMA MaxOfThree ==
    ASSUME NEW x \in Int, NEW y \in Int, NEW z \in Int
    PROVE  Max({x, y, z}) \in Int
<1>1. \E m \in {x, y, z} : \A k \in {x, y, z} : m >= k
  OBVIOUS
<1>2. Max({x, y, z}) \in {x, y, z}
  BY <1>1 DEF Max
<1> QED BY <1>2

LEMMA MinOfTwo ==
    ASSUME NEW x \in Int, NEW y \in Int
    PROVE  Min({x, y}) = IF x <= y THEN x ELSE y
<1>1. \E m \in {x, y} : \A k \in {x, y} : m =< k
  OBVIOUS
<1>2. Min({x, y}) \in {x, y} /\ \A k \in {x, y} : Min({x, y}) =< k
  BY <1>1 DEF Min
<1> QED BY <1>2

LEMMA ClampFacts ==
    ASSUME NEW x \in Int, NEW low \in Int, NEW high \in Int, low <= high
    PROVE  /\ Clamp(x, low, high) \in low .. high
           /\ \A b \in Int : b <= high /\ b <= x => b <= Clamp(x, low, high)
<1>1. Min({high, x}) = IF high <= x THEN high ELSE x
  BY MinOfTwo
<1>2. Min({high, x}) \in Int
  BY <1>1
<1>3. Clamp(x, low, high) = IF low >= Min({high, x}) THEN low ELSE Min({high, x})
  BY <1>2, MaxOfTwo DEF Clamp
<1> QED BY <1>1, <1>3

LEMMA ClampType ==
    ASSUME NEW x \in Int
    PROVE  /\ Clamp(x, 25, 100) \in Int /\ 0 <= Clamp(x, 25, 100) /\ Clamp(x, 25, 100) <= 100
           /\ Clamp(x, 20, 100) \in Int /\ 0 <= Clamp(x, 20, 100) /\ Clamp(x, 20, 100) <= 100
<1> DEFINE low == 25
           less == 20
           high == 100
<1>1. low \in Nat /\ less \in Nat /\ high \in Nat /\ low <= high /\ less <= high
  OBVIOUS
<1> HIDE DEF low, less, high
<1>2. Clamp(x, low, high) \in low .. high
  BY <1>1, ClampFacts
<1>3. Clamp(x, less, high) \in less .. high
  BY <1>1, ClampFacts
<1>4. Clamp(x, low, high) \in Int /\ 0 <= Clamp(x, low, high) /\ Clamp(x, low, high) <= high
  BY <1>1, <1>2
<1>5. Clamp(x, less, high) \in Int /\ 0 <= Clamp(x, less, high) /\ Clamp(x, less, high) <= high
  BY <1>1, <1>3
<1> QED BY <1>4, <1>5 DEF low, less, high

LEMMA Quotient ==
    ASSUME NEW x \in Int, NEW y \in Nat \ {0}
    PROVE  x \div y \in Int
OBVIOUS

LEMMA RelevanceType ==
    ASSUME NEW answer, Answered(answer)
    PROVE  Relevance(answer) \in Percent
<1>1. answer.similar \in Int /\ answer.covered \in Int
  BY DEF Answered, Percent
<1>2. ((40 * answer.similar + 60 * answer.covered) * 14) \div 1000 \in Int
  BY <1>1, Quotient
<1>3. PICK x \in Int : x = ((40 * answer.similar + 60 * answer.covered) * 14) \div 1000
  BY <1>2
<1>4. Relevance(answer) = Clamp(x, 25, 100)
  BY <1>3 DEF Relevance
<1>5. Clamp(x, 25, 100) \in Int /\ 0 <= Clamp(x, 25, 100) /\ Clamp(x, 25, 100) <= 100
  BY ClampType
<1> QED BY <1>4, <1>5 DEF Percent

LEMMA BestType ==
    ASSUME NEW retrieved, Recollected(retrieved)
    PROVE  Best(retrieved) \in Percent
<1> DEFINE S == {0} \cup {r.overlap : r \in retrieved}
<1>1. S \in SUBSET (0 .. 100) /\ S # {}
  BY DEF Recollected, Percent
<1>2. Max(S) \in S
  <2> HIDE DEF S
  <2> QED BY <1>1, MaxFacts
<1> QED BY <1>1, <1>2 DEF Best, Percent

\* Nobody's answer is found to be inconsistent enough to be rejected.
LEMMA ContinuityBound ==
    ASSUME NEW answer, Answered(answer), NEW retrieved, Recollected(retrieved)
    PROVE  Continuity(answer, retrieved) \in 50 .. 100
<1>1. Best(retrieved) \in 0 .. 100
  BY BestType DEF Percent
<1>2. 50 + Best(retrieved) \in Int /\ 50 + Best(retrieved) >= 50
  BY <1>1
<1> DEFINE x == 50 + Best(retrieved)
           low == 40
           high == 100
           floor == 50
<1>3. x \in Int /\ low \in Int /\ high \in Int /\ floor \in Int
      /\ low <= high /\ floor <= high /\ floor <= x
  BY <1>2
<1>4. Continuity(answer, retrieved) \in {60, Clamp(x, low, high)}
  BY DEF Continuity
<1> HIDE DEF x, low, high, floor
<1>5. Clamp(x, low, high) \in low .. high
  BY <1>3, ClampFacts
<1>6. floor <= Clamp(x, low, high)
  BY <1>3, ClampFacts
<1> QED BY <1>4, <1>5, <1>6 DEF low, high, floor

LEMMA UsefulnessType ==
    ASSUME NEW answer, Answered(answer)
    PROVE  Usefulness(answer) \in Percent
<1>1. CASE answer.words = 0
  BY <1>1 DEF Usefulness, Percent
<1>2. CASE answer.words # 0
  <2> DEFINE x == (55 * Min({60, answer.words})) \div 60 + (45 * answer.distinct) \div answer.words
  <2>1. answer.words \in Nat \ {0} /\ answer.distinct \in Int
    BY <1>2 DEF Answered
  <2>2. Min({60, answer.words}) \in Int
    BY <2>1, MinOfTwo
  <2>3. (55 * Min({60, answer.words})) \div 60 \in Int
    BY <2>2, Quotient
  <2>4. (45 * answer.distinct) \div answer.words \in Int
    BY <2>1, Quotient
  <2>5. x \in Int
    BY <2>3, <2>4
  <2> HIDE DEF x
  <2>6. Clamp(x, 20, 100) \in Int /\ 0 <= Clamp(x, 20, 100) /\ Clamp(x, 20, 100) <= 100
    BY <2>5, ClampType
  <2>7. Usefulness(answer) \in {15, Clamp(x, 20, 100)}
    BY <1>2 DEF Usefulness, x
  <2> QED BY <2>6, <2>7 DEF Percent
<1> QED BY <1>1, <1>2

LEMMA ContradictionRiskType ==
    ASSUME NEW contradiction \in Percent, NEW retrieved, Recollected(retrieved)
    PROVE  ContradictionRisk(contradiction, retrieved) \in 0 .. 50
<1> DEFINE Risk(r) == (contradiction * r.overlap * Authority(r.class)) \div 10000
           S == {0} \cup {Risk(r) : r \in {s \in retrieved : s.overlap >= 12}}
<1>1. ASSUME NEW r \in retrieved
      PROVE  Risk(r) \in 0 .. 100
  <2>1. Authority(r.class) \in 0 .. 100
    BY DEF Authority
  <2>2. contradiction \in 0 .. 100 /\ r.overlap \in 0 .. 100
    BY DEF Recollected, Percent
  <2> DEFINE c == contradiction
             o == r.overlap
             a == Authority(r.class)
  <2> HIDE DEF c, o, a
  <2>3. c \in 0 .. 100 /\ o \in 0 .. 100 /\ a \in 0 .. 100
    BY <2>1, <2>2 DEF c, o, a
  <2>4. c * o \in Nat /\ c * o <= 10000
    BY <2>3, SMTT(60)
  <2> DEFINE p == c * o
  <2>5. p \in Nat /\ p <= 10000
    BY <2>4, SMTT(30)
  <2> HIDE DEF p
  <2>6. p * a \in Nat /\ p * a <= 1000000
    BY <2>3, <2>5, SMTT(60)
  <2> DEFINE q == p * a
  <2>7. q \in Nat /\ q <= 1000000
    BY <2>6, SMTT(30)
  <2> HIDE DEF q
  <2>8. q \div 10000 \in 0 .. 100
    BY <2>7, SMTT(60)
  <2> QED BY <2>8, SMTT(30) DEF q, p, c, o, a
<1>2. S \in SUBSET (0 .. 100) /\ S # {}
  BY <1>1
<1>3. Max(S) \in S /\ \A x \in S : x <= Max(S)
  <2> HIDE DEF S
  <2> QED BY <1>2, MaxFacts
<1>4. Max(S) \in 0 .. 100
  <2> HIDE DEF S
  <2> QED BY <1>2, <1>3
<1>5. Min({50, Max(S)}) = IF 50 <= Max(S) THEN 50 ELSE Max(S)
  <2> HIDE DEF S
  <2> QED BY <1>4, MinOfTwo
<1>6. ContradictionRisk(contradiction, retrieved) = Min({50, Max(S)})
  BY DEF ContradictionRisk
<1> HIDE DEF S
<1> QED BY <1>4, <1>5, <1>6


LEMMA ReportType ==
    ASSUME NEW text, Measured(text), NEW route \in BOOLEAN
    PROVE  /\ Report(text, route).coherence \in Percent
           /\ Report(text, route).contradiction \in Percent
           /\ Report(text, route).risk \in Percent
           /\ Report(text, route).alert => Suspicious(text)
<1> DEFINE ran == (IF route
                   THEN Route(Modalities, MandatoryModalities, text.called, 3)
                          \cup Route(Senses, MandatorySenses, text.called, 4)
                   ELSE ToSet(Modalities) \cup ToSet(Senses))
                  \ text.broken
<1>1. Report(text, route) =
        [coherence     |-> IF "coherence" \in ran THEN text.coherence ELSE 50,
         contradiction |-> IF "contradiction" \in ran THEN text.contradiction ELSE 0,
         risk          |-> IF "integrity_field" \in ran THEN text.tension ELSE 0,
         alert         |-> \/ "integrity_field" \in ran /\ text.tension > 0
                           \/ "injection_scan" \in ran /\ text.tagged]
  BY DEF Report
<1>2. /\ text.coherence \in Percent /\ text.contradiction \in Percent /\ text.tension \in Percent
      /\ 50 \in Percent /\ 0 \in Percent
  BY DEF Measured, Percent
<1> HIDE DEF ran
<1>3. Report(text, route).alert => Suspicious(text)
  BY <1>1 DEF Suspicious
<1> QED BY <1>1, <1>2, <1>3

LEMMA BrightnessType ==
    ASSUME NEW answer, Answered(answer), NEW retrieved, Recollected(retrieved),
           NEW report, report.coherence \in Percent, NEW covenant, NEW risk \in Int
    PROVE  Brightness(answer, report, retrieved, covenant, risk) \in Int
<1>1. Relevance(answer) \in Int /\ report.coherence \in Int /\ Usefulness(answer) \in Int
  BY RelevanceType, UsefulnessType DEF Percent
<1>2. Continuity(answer, retrieved) \in Int
  BY ContinuityBound
<1>3. CovenantAlignment(answer, covenant) \in Int
  BY DEF CovenantAlignment
<1>4. PICK total \in Int :
         total = 25 * Relevance(answer) + 20 * report.coherence + 20 * Continuity(answer, retrieved)
                   + 15 * Usefulness(answer) + 10 * 85 + 10 * CovenantAlignment(answer, covenant)
                   - 60 * risk
  BY <1>1, <1>2, <1>3
<1>5. Brightness(answer, report, retrieved, covenant, risk) = Clamp(total, 0, 10000)
  BY <1>4 DEF Brightness
<1> DEFINE high == 10000
<1>6. high \in Int /\ 0 <= high
  OBVIOUS
<1> HIDE DEF high
<1>7. Clamp(total, 0, high) \in 0 .. high
  BY <1>6, ClampFacts
<1>8. Clamp(total, 0, high) \in Int
  BY <1>6, <1>7
<1> QED BY <1>5, <1>8 DEF high

\* What the two decisions about an answer have to do with each other.
Agrees(e, input, answer, retrieved) ==
    /\ e.verdict = "seal" => e.action = "commit"
    /\ e.verdict = "revise" => e.action # "commit"
    /\ e.action = "quarantine" => Suspicious(input) \/ Suspicious(answer.text)
    /\ e.verdict = "force_uncertainty" => retrieved # {}

\* Whatever is measured of a question, of an answer and of the records in context: an
\* answer that may be sealed is committed as ordinary memory and one that has to be
\* revised is not; nothing is quarantined without an alert, and an agent without memory is
\* not told that it has no ground in it (evaluate, _decide, _verdict).
THEOREM DecisionsAgree ==
    ASSUME NEW input, Measured(input), NEW answer, Answered(answer),
           NEW retrieved, Recollected(retrieved),
           NEW covenant \in BOOLEAN, NEW route \in BOOLEAN
    PROVE  Agrees(Evaluate(input, answer, retrieved, covenant, route, "none"),
                  input, answer, retrieved)
<1> DEFINE said   == Report(answer.text, route)
           asked  == Report(input, route)
           risk   == Max({said.risk, asked.risk, ContradictionRisk(said.contradiction, retrieved)})
           bright == Brightness(answer, said, retrieved, covenant, risk)
           alert  == said.alert \/ asked.alert
           verdict == Verdict(bright, CovenantAlignment(answer, covenant),
                              Continuity(answer, retrieved), Grounding(answer, retrieved),
                              Assertiveness(answer))
           e == Evaluate(input, answer, retrieved, covenant, route, "none")
<1>1. e.action = Decide(bright, alert) /\ e.verdict = verdict
  BY DEF Evaluate, Verdicts
<1>2. Measured(answer.text)
  BY DEF Answered
<1>3. /\ said.coherence \in Percent /\ said.contradiction \in Percent
      /\ said.risk \in Percent /\ asked.risk \in Percent
      /\ said.alert => Suspicious(answer.text)
      /\ asked.alert => Suspicious(input)
  BY <1>2, ReportType
<1> HIDE DEF said, asked
<1>4. ContradictionRisk(said.contradiction, retrieved) \in Int
  BY <1>3, ContradictionRiskType
<1>5. risk \in Int
  <2>1. said.risk \in Int /\ asked.risk \in Int
    BY <1>3 DEF Percent
  <2> QED BY <2>1, <1>4, MaxOfThree
<1> HIDE DEF risk
<1>6. bright \in Int
  <2> QED BY <1>3, <1>5, BrightnessType
<1> HIDE DEF bright
<1>7. CommitThreshold \in Int
  BY DEF CommitThreshold
<1>8. verdict = "seal" => bright >= CommitThreshold
  BY <1>6, <1>7 DEF Verdict
<1>9. verdict = "revise" => bright < CommitThreshold
  BY DEF Verdict
<1>11. verdict = "force_uncertainty" => retrieved # {}
  <2>1. verdict = "force_uncertainty" => Grounding(answer, retrieved) < 25
    BY DEF Verdict
  <2> QED BY <2>1 DEF Grounding
<1> HIDE DEF verdict
<1>12. verdict = "seal" => Decide(bright, alert) = "commit"
  BY <1>8 DEF Decide
<1>13. verdict = "revise" => Decide(bright, alert) # "commit"
  BY <1>6, <1>7, <1>9 DEF Decide
<1>14. Decide(bright, alert) = "quarantine" => Suspicious(input) \/ Suspicious(answer.text)
  BY <1>3 DEF Decide
<1> HIDE DEF e, alert
<1>15. Agrees(e, input, answer, retrieved)
  BY <1>1, <1>11, <1>12, <1>13, <1>14 DEF Agrees
<1> QED BY <1>15 DEF e

\* Without a judge, exactly the answers that breach the covenant in force are rejected.
\* The comments of poq.py (100-101, 465-468) and its note (484) also reject what
\* contradicts sealed history, but _continuity is never below 0.5 and its floor is 0.45:
\* that branch of _verdict is dead.
THEOREM OnlyTheCovenantRejects ==
    ASSUME NEW input, NEW answer, Answered(answer),
           NEW retrieved, Recollected(retrieved),
           NEW covenant \in BOOLEAN, NEW route \in BOOLEAN
    PROVE  Evaluate(input, answer, retrieved, covenant, route, "none").verdict = "reject"
             <=> covenant /\ answer.flagged
<1> DEFINE said   == Report(answer.text, route)
           asked  == Report(input, route)
           risk   == Max({said.risk, asked.risk, ContradictionRisk(said.contradiction, retrieved)})
           bright == Brightness(answer, said, retrieved, covenant, risk)
<1>1. Evaluate(input, answer, retrieved, covenant, route, "none").verdict
        = Verdict(bright, CovenantAlignment(answer, covenant), Continuity(answer, retrieved),
                  Grounding(answer, retrieved), Assertiveness(answer))
  BY DEF Evaluate, Verdicts
<1> HIDE DEF bright
<1>2. ~(Continuity(answer, retrieved) < 45)
  BY ContinuityBound
<1>3. Verdict(bright, CovenantAlignment(answer, covenant), Continuity(answer, retrieved),
              Grounding(answer, retrieved), Assertiveness(answer)) = "reject"
        <=> CovenantAlignment(answer, covenant) < 55
  BY <1>2 DEF Verdict
<1>4. CovenantAlignment(answer, covenant) < 55 <=> covenant /\ answer.flagged
  BY DEF CovenantAlignment
<1> QED BY <1>1, <1>3, <1>4

LEMMA InputsMeasured == \A input \in Inputs : Measured(input)
BY DEF Inputs, Plain, Measured, Percent

LEMMA TextsMeasured == \A text \in Texts : Measured(text)
BY DEF Texts, Measured, Percent

LEMMA RepliesAnswered == \A reply \in Replies : Answered(reply)
BY TextsMeasured DEF Replies, Answered, Percent

LEMMA ContextsRecollected == \A context \in Contexts : Recollected(context)
BY DEF Contexts, Recollected, Percent

LEMMA GatesDoAgree == GatesAgree
<1>1. ASSUME NEW input \in Inputs, NEW reply \in Replies, NEW context \in Contexts,
             NEW covenant \in BOOLEAN
      PROVE  Agrees(Evaluate(input, reply, context, covenant, TRUE, "none"),
                    input, reply, context)
  <2>1. Measured(input) /\ Answered(reply) /\ Recollected(context)
    BY InputsMeasured, RepliesAnswered, ContextsRecollected
  <2> QED BY <2>1, DecisionsAgree
<1>2. ASSUME NEW text, NEW context, NEW reply
      PROVE  Evaluate(text, reply, context, TRUE, TRUE, "none")
               = Evaluate(text, reply, context, TRUE, FALSE, "none")
  BY RoutingDecidesNothing
<1> QED BY <1>1, <1>2 DEF GatesAgree, Agrees

\* The two decisions agree in every state (GatesAgree): the inputs that the runs take are
\* among those of which DecisionsAgree and RoutingDecidesNothing speak.
THEOREM DecisionsStayAgreed == Spec => []GatesAgree
BY GatesDoAgree, PTL


(***************************************************************************)
(* Capsules.  The two loops are recursive functions.                       *)
(***************************************************************************)
Sequence(s) == s \in Seq(Range(s))

AreSelected(f, ch, indices, filter) ==
    f = [k \in 0 .. Len(indices) |->
           IF k = 0 THEN <<>>
           ELSE IF Asked(ch, indices[k], filter)
                THEN Append(f[k - 1], Exported(ch[indices[k] + 1]))
                ELSE f[k - 1]]

AreGrown(f, ch, agent, capsule) ==
    f = [k \in 0 .. Len(capsule.records) |->
           IF k = 0 THEN ch
           ELSE Append(f[k - 1], Sealed(f[k - 1], agent, ImportedType,
                                        ImportedContent(capsule, capsule.records[k])))]

LEMMA SelectedStep ==
    ASSUME NEW ch, NEW indices, Len(indices) \in Nat, NEW filter
    PROVE  \E f : /\ AreSelected(f, ch, indices, filter)
                  /\ Selected(ch, indices, filter) = f[Len(indices)]
<1> DEFINE Next1(s, n) == IF Asked(ch, indices[n], filter)
                          THEN Append(s, Exported(ch[indices[n] + 1]))
                          ELSE s
           Ok(f, n) == f = [k \in 0..n |-> IF k = 0 THEN <<>> ELSE Next1(f[k - 1], k)]
           T == {n \in Nat : \E f : Ok(f, n)}
<1>1. 0 \in T
  <2>1. PICK f : f = [k \in 0..0 |-> <<>>]
    OBVIOUS
  <2>2. Ok(f, 0)
    BY <2>1
  <2> QED BY <2>2
<1>2. ASSUME NEW n \in T PROVE n + 1 \in T
  <2>1. PICK f : Ok(f, n)
    OBVIOUS
  <2> HIDE DEF Next1
  <2>2. PICK g : g = [k \in 0..(n + 1) |-> IF k = n + 1 THEN Next1(f[n], n + 1) ELSE f[k]]
    OBVIOUS
  <2>3. \A k \in 0..(n + 1) : g[k] = IF k = 0 THEN <<>> ELSE Next1(g[k - 1], k)
    <3>1. ASSUME NEW k \in 0..n PROVE g[k] = IF k = 0 THEN <<>> ELSE Next1(g[k - 1], k)
      <4>1. g[k] = f[k] /\ (k # 0 => g[k - 1] = f[k - 1])
        BY <2>2
      <4> QED BY <2>1, <4>1
    <3>2. g[n + 1] = Next1(g[n], n + 1) /\ n + 1 # 0 /\ (n + 1) - 1 = n
      BY <2>2
    <3>3. \A k \in 0..(n + 1) : k \in 0..n \/ k = n + 1
      OBVIOUS
    <3> QED BY <3>1, <3>2, <3>3
  <2>4. g = [k \in 0..(n + 1) |-> g[k]]
    BY <2>2
  <2>5. [k \in 0..(n + 1) |-> g[k]]
          = [k \in 0..(n + 1) |-> IF k = 0 THEN <<>> ELSE Next1(g[k - 1], k)]
    BY <2>3
  <2>6. Ok(g, n + 1)
    BY <2>4, <2>5
  <2> HIDE DEF Ok
  <2> QED BY <2>6
<1>3. \E f : Ok(f, Len(indices))
  <2>1. T = Nat
    <3> HIDE DEF T
    <3>1. T \in SUBSET Nat
      BY DEF T
    <3> QED BY <1>1, <1>2, <3>1, Induction
  <2> QED BY <2>1
<1>4. DEFINE selected == CHOOSE f : Ok(f, Len(indices))
<1>5. Ok(selected, Len(indices))
  <2> HIDE DEF Ok
  <2> QED BY <1>3
<1>6. Selected(ch, indices, filter) = selected[Len(indices)]
  BY DEF Selected
<1>7. AreSelected(selected, ch, indices, filter)
  BY <1>5 DEF AreSelected
<1> HIDE DEF selected
<1> QED BY <1>6, <1>7

LEMMA GrownStep ==
    ASSUME NEW ch, NEW agent, NEW capsule, Len(capsule.records) \in Nat
    PROVE  \E f : /\ AreGrown(f, ch, agent, capsule)
                  /\ WithRecordsOf(ch, agent, capsule) = f[Len(capsule.records)]
<1> DEFINE Next1(s, n) == Append(s, Sealed(s, agent, ImportedType,
                                           ImportedContent(capsule, capsule.records[n])))
           Ok(f, n) == f = [k \in 0..n |-> IF k = 0 THEN ch ELSE Next1(f[k - 1], k)]
           T == {n \in Nat : \E f : Ok(f, n)}
<1>1. 0 \in T
  <2>1. PICK f : f = [k \in 0..0 |-> ch]
    OBVIOUS
  <2>2. Ok(f, 0)
    BY <2>1
  <2> QED BY <2>2
<1>2. ASSUME NEW n \in T PROVE n + 1 \in T
  <2>1. PICK f : Ok(f, n)
    OBVIOUS
  <2> HIDE DEF Next1
  <2>2. PICK g : g = [k \in 0..(n + 1) |-> IF k = n + 1 THEN Next1(f[n], n + 1) ELSE f[k]]
    OBVIOUS
  <2>3. \A k \in 0..(n + 1) : g[k] = IF k = 0 THEN ch ELSE Next1(g[k - 1], k)
    <3>1. ASSUME NEW k \in 0..n PROVE g[k] = IF k = 0 THEN ch ELSE Next1(g[k - 1], k)
      <4>1. g[k] = f[k] /\ (k # 0 => g[k - 1] = f[k - 1])
        BY <2>2
      <4> QED BY <2>1, <4>1
    <3>2. g[n + 1] = Next1(g[n], n + 1) /\ n + 1 # 0 /\ (n + 1) - 1 = n
      BY <2>2
    <3>3. \A k \in 0..(n + 1) : k \in 0..n \/ k = n + 1
      OBVIOUS
    <3> QED BY <3>1, <3>2, <3>3
  <2>4. g = [k \in 0..(n + 1) |-> g[k]]
    BY <2>2
  <2>5. [k \in 0..(n + 1) |-> g[k]]
          = [k \in 0..(n + 1) |-> IF k = 0 THEN ch ELSE Next1(g[k - 1], k)]
    BY <2>3
  <2>6. Ok(g, n + 1)
    BY <2>4, <2>5
  <2> HIDE DEF Ok
  <2> QED BY <2>6
<1>3. \E f : Ok(f, Len(capsule.records))
  <2>1. T = Nat
    <3> HIDE DEF T
    <3>1. T \in SUBSET Nat
      BY DEF T
    <3> QED BY <1>1, <1>2, <3>1, Induction
  <2> QED BY <2>1
<1>4. DEFINE grown == CHOOSE f : Ok(f, Len(capsule.records))
<1>5. Ok(grown, Len(capsule.records))
  <2> HIDE DEF Ok
  <2> QED BY <1>3
<1>6. WithRecordsOf(ch, agent, capsule) = grown[Len(capsule.records)]
  BY DEF WithRecordsOf
<1>7. AreGrown(grown, ch, agent, capsule)
  BY <1>5 DEF AreGrown
<1> HIDE DEF grown
<1> QED BY <1>6, <1>7

\* What may leave a chain, in the form in which it leaves.
Shareable(ch) == {Exported(ch[p]) : p \in {q \in DOMAIN ch : MayLeave(ch[q])}}

LEMMA SelectedFacts ==
    ASSUME NEW ch, NEW indices, Len(indices) \in Nat, NEW filter
    PROVE  Selected(ch, indices, filter) \in Seq(Shareable(ch))
<1>1. PICK f : /\ AreSelected(f, ch, indices, filter)
               /\ Selected(ch, indices, filter) = f[Len(indices)]
  BY SelectedStep
<1>5. ASSUME NEW k \in 1 .. Len(indices)
      PROVE  f[k] = IF Asked(ch, indices[k], filter)
                    THEN Append(f[k - 1], Exported(ch[indices[k] + 1]))
                    ELSE f[k - 1]
  <2>1. k \in 0 .. Len(indices) /\ k # 0
    OBVIOUS
  <2> QED BY <1>1, <2>1 DEF AreSelected
<1> DEFINE N == Len(indices)
           T == {n \in Nat : n <= N => f[n] \in Seq(Shareable(ch))}
<1>2. 0 \in T
  BY <1>1 DEF AreSelected
<1>3. ASSUME NEW n \in T PROVE n + 1 \in T
  <2> SUFFICES ASSUME n + 1 <= N PROVE f[n + 1] \in Seq(Shareable(ch))
    OBVIOUS
  <2>0. n + 1 \in 1 .. Len(indices) /\ (n + 1) - 1 = n
    OBVIOUS
  <2>1. f[n + 1] = IF Asked(ch, indices[n + 1], filter)
                   THEN Append(f[n], Exported(ch[indices[n + 1] + 1]))
                   ELSE f[n]
    BY <1>5, <2>0
  <2>2. f[n] \in Seq(Shareable(ch))
    OBVIOUS
  <2>3. Asked(ch, indices[n + 1], filter) => Exported(ch[indices[n + 1] + 1]) \in Shareable(ch)
    BY DEF Asked, Shareable
  <2> QED BY <2>1, <2>2, <2>3
<1>4. T = Nat
  <2> HIDE DEF T
  <2>1. T \in SUBSET Nat
    BY DEF T
  <2> QED BY <1>2, <1>3, <2>1, Induction
<1> QED BY <1>1, <1>4

\* Two chains that agree on the records named share the same.
LEMMA SelectedAlike ==
    ASSUME NEW ch, NEW dh, NEW indices, Len(indices) \in Nat, NEW filter,
           \A k \in 1 .. Len(indices) :
              /\ Asked(ch, indices[k], filter) <=> Asked(dh, indices[k], filter)
              /\ Asked(ch, indices[k], filter) => ch[indices[k] + 1] = dh[indices[k] + 1]
    PROVE  Selected(ch, indices, filter) = Selected(dh, indices, filter)
<1>1. PICK f : /\ AreSelected(f, ch, indices, filter)
               /\ Selected(ch, indices, filter) = f[Len(indices)]
  BY SelectedStep
<1>2. PICK g : /\ AreSelected(g, dh, indices, filter)
               /\ Selected(dh, indices, filter) = g[Len(indices)]
  BY SelectedStep
<1>6. ASSUME NEW k \in 1 .. Len(indices)
      PROVE  f[k] = IF Asked(ch, indices[k], filter)
                    THEN Append(f[k - 1], Exported(ch[indices[k] + 1]))
                    ELSE f[k - 1]
  <2>1. k \in 0 .. Len(indices) /\ k # 0
    OBVIOUS
  <2> QED BY <1>1, <2>1 DEF AreSelected
<1>7. ASSUME NEW k \in 1 .. Len(indices)
      PROVE  g[k] = IF Asked(dh, indices[k], filter)
                    THEN Append(g[k - 1], Exported(dh[indices[k] + 1]))
                    ELSE g[k - 1]
  <2>1. k \in 0 .. Len(indices) /\ k # 0
    OBVIOUS
  <2> QED BY <1>2, <2>1 DEF AreSelected
<1> DEFINE N == Len(indices)
           T == {n \in Nat : n <= N => f[n] = g[n]}
<1>3. 0 \in T
  BY <1>1, <1>2 DEF AreSelected
<1>4. ASSUME NEW n \in T PROVE n + 1 \in T
  <2> SUFFICES ASSUME n + 1 <= N PROVE f[n + 1] = g[n + 1]
    OBVIOUS
  <2>0. n + 1 \in 1 .. Len(indices) /\ (n + 1) - 1 = n
    OBVIOUS
  <2>1. f[n + 1] = IF Asked(ch, indices[n + 1], filter)
                   THEN Append(f[n], Exported(ch[indices[n + 1] + 1]))
                   ELSE f[n]
    BY <1>6, <2>0
  <2>2. g[n + 1] = IF Asked(dh, indices[n + 1], filter)
                   THEN Append(g[n], Exported(dh[indices[n + 1] + 1]))
                   ELSE g[n]
    BY <1>7, <2>0
  <2>3. f[n] = g[n] /\ n + 1 \in 1 .. N
    OBVIOUS
  <2> QED BY <2>1, <2>2, <2>3
<1>5. T = Nat
  <2> HIDE DEF T
  <2>1. T \in SUBSET Nat
    BY DEF T
  <2> QED BY <1>3, <1>4, <2>1, Induction
<1> QED BY <1>1, <1>2, <1>5

\* A chain with a record for each of a capsule's.
IsGrown(after, ch, agent, capsule) ==
    /\ Sequence(after) /\ Len(after) = Len(ch) + Len(capsule.records)
    /\ \A p \in DOMAIN ch : after[p] = ch[p]
    /\ \A k \in 1 .. Len(capsule.records) :
         \E before : after[Len(ch) + k]
           = Sealed(before, agent, ImportedType, ImportedContent(capsule, capsule.records[k]))

LEMMA GrownFacts ==
    ASSUME NEW ch, Sequence(ch), NEW agent, NEW capsule, Len(capsule.records) \in Nat
    PROVE  IsGrown(WithRecordsOf(ch, agent, capsule), ch, agent, capsule)
<1>1. PICK f : /\ AreGrown(f, ch, agent, capsule)
               /\ WithRecordsOf(ch, agent, capsule) = f[Len(capsule.records)]
  BY GrownStep
<1> DEFINE N == Len(capsule.records)
           New(j) == Sealed(f[j - 1], agent, ImportedType, ImportedContent(capsule, capsule.records[j]))
           X == Range(ch) \cup {New(j) : j \in 1 .. N}
           Good(n) == /\ f[n] \in Seq(X) /\ Len(f[n]) = Len(ch) + n
                      /\ \A p \in DOMAIN ch : f[n][p] = ch[p]
                      /\ \A k \in 1 .. n : f[n][Len(ch) + k] = New(k)
           T == {n \in Nat : n <= N => Good(n)}
<1>2. f[0] = ch /\ \A n \in 1 .. N : f[n] = Append(f[n - 1], New(n))
  <2>1. f[0] = ch
    BY <1>1 DEF AreGrown
  <2>2. ASSUME NEW n \in 1 .. N PROVE f[n] = Append(f[n - 1], New(n))
    <3>1. n \in 0 .. N /\ n # 0
      OBVIOUS
    <3> QED BY <1>1, <3>1 DEF AreGrown
  <2> QED BY <2>1, <2>2
<1>3. ch \in Seq(X) /\ Len(ch) \in Nat /\ DOMAIN ch = 1 .. Len(ch)
  <2>1. ch \in Seq(Range(ch))
    BY DEF Sequence
  <2> HIDE DEF New
  <2> QED BY <2>1
<1> HIDE DEF New
<1>4. 0 \in T
  <2>1. Good(0)
    BY <1>2, <1>3
  <2> HIDE DEF Good
  <2> QED BY <2>1
<1>5. ASSUME NEW n \in T PROVE n + 1 \in T
  <2> SUFFICES ASSUME n + 1 <= N PROVE Good(n + 1)
    OBVIOUS
  <2>1. Good(n) /\ n + 1 \in 1 .. N /\ (n + 1) - 1 = n
    OBVIOUS
  <2>2. f[n + 1] = Append(f[n], New(n + 1))
    BY <1>2, <2>1
  <2>3. New(n + 1) \in X
    BY <2>1
  <2> HIDE DEF X
  <2>4. f[n] \in Seq(X) /\ Len(f[n]) = Len(ch) + n
    BY <2>1
  <2>5. f[n + 1] \in Seq(X) /\ Len(f[n + 1]) = Len(ch) + (n + 1)
    <3> DEFINE g == f[n]
               e == New(n + 1)
               h == f[n + 1]
    <3>1. g \in Seq(X) /\ e \in X /\ h = Append(g, e) /\ Len(g) = Len(ch) + n
      BY <2>2, <2>3, <2>4
    <3>2. n \in Nat /\ Len(ch) \in Nat
      BY <1>3 DEF T
    <3> HIDE DEF g, e, h, Good, T
    <3>3. h \in Seq(X) /\ Len(h) = Len(g) + 1
      BY <3>1
    <3>4. Len(h) = Len(ch) + (n + 1)
      BY <3>1, <3>2, <3>3
    <3> QED BY <3>3, <3>4 DEF h
  <2>6. ASSUME NEW p \in DOMAIN ch PROVE f[n + 1][p] = ch[p]
    <3>1. p \in 1 .. Len(f[n])
      BY <1>3, <2>4
    <3> QED BY <2>1, <2>2, <2>4, <3>1
  <2>7. ASSUME NEW k \in 1 .. (n + 1) PROVE f[n + 1][Len(ch) + k] = New(k)
    <3>1. CASE k = n + 1
      <4>1. Len(ch) + k = Len(f[n]) + 1
        BY <1>3, <2>4, <3>1
      <4>2. Append(f[n], New(n + 1))[Len(f[n]) + 1] = New(n + 1)
        BY <2>3, <2>4
      <4> QED BY <2>2, <3>1, <4>1, <4>2
    <3>2. CASE k \in 1 .. n
      <4>1. Len(ch) + k \in 1 .. Len(f[n])
        BY <1>3, <2>4, <3>2
      <4> QED BY <2>1, <2>2, <2>4, <3>2, <4>1
    <3> QED BY <3>1, <3>2
  <2> QED BY <2>5, <2>6, <2>7
<1>6. T = Nat
  <2> HIDE DEF T
  <2>1. T \in SUBSET Nat
    BY DEF T
  <2> QED BY <1>4, <1>5, <2>1, Induction
<1>7. Good(N)
  <2>1. N \in T
    BY <1>6
  <2> QED BY <2>1
<1> HIDE DEF X
<1>8. f[N] \in Seq(Range(f[N]))
  <2>1. f[N] \in Seq(X)
    BY <1>7
  <2> QED BY <2>1 DEF Range
<1>9. \A k \in 1 .. N : \E before : f[N][Len(ch) + k]
         = Sealed(before, agent, ImportedType, ImportedContent(capsule, capsule.records[k]))
  BY <1>7 DEF New
<1> QED BY <1>1, <1>7, <1>8, <1>9 DEF Sequence, IsGrown


\* A chain as its agent sealed it.
SealedBy(ch, agent) ==
    /\ Sequence(ch)
    /\ \A p \in DOMAIN ch :
         /\ ch[p].agent = agent /\ ch[p].index = p - 1
         /\ ch[p].hash = <<ch[p].index, ch[p].prior, ch[p].time, ch[p].type, ch[p].content, agent>>
         /\ ch[p].signature = <<agent, ch[p].hash>>
         /\ "text" \in DOMAIN ch[p].content

LEMMA ExportedFacts ==
    ASSUME NEW rec
    PROVE  /\ Exported(rec).agent = rec.agent /\ Exported(rec).hash = rec.hash
           /\ Exported(rec).signature = rec.signature
           /\ Exported(rec).content_hash = rec.content
           /\ Exported(rec).index = rec.index /\ Exported(rec).prior = rec.prior
           /\ Exported(rec).time = rec.time /\ Exported(rec).type = rec.type
           /\ Exported(rec).redacted = (rec.meta.exposure = Summary)
           /\ Exported(rec).body = IF rec.meta.exposure = Summary
                                   THEN Projection(rec.content) ELSE rec.content
           /\ Exported(rec).commitment
                = IF rec.meta.exposure = Summary
                  THEN <<rec.agent, <<rec.hash, Exported(rec).body>>>> ELSE <<>>
BY DEF Exported

LEMMA ExportFacts ==
    ASSUME NEW ch, NEW agent, NEW indices, Len(indices) \in Nat, NEW filter, NEW title
    PROVE  LET capsule == ExportCapsule(ch, agent, indices, filter, title) IN
           /\ capsule.records \in Seq(Shareable(ch))
           /\ capsule # NoCapsule =>
                /\ capsule.records # <<>>
                /\ capsule.header.version = 2 /\ capsule.header.origin = agent
                /\ capsule.header.root = MerkleRoot(Hashes(capsule.records))
                /\ capsule.id = <<capsule.header, Hashes(capsule.records)>>
<1> DEFINE records == Selected(ch, indices, filter)
<1>1. records \in Seq(Shareable(ch))
  BY SelectedFacts
<1> HIDE DEF records
<1> DEFINE header == [version |-> 2, origin |-> agent, count |-> Len(records),
                      root |-> MerkleRoot(Hashes(records)), title |-> title]
           capsule == ExportCapsule(ch, agent, indices, filter, title)
<1>2. capsule = IF records = <<>> THEN NoCapsule
                ELSE [id |-> <<header, Hashes(records)>>, header |-> header, records |-> records]
  BY DEF ExportCapsule, records
<1> HIDE DEF capsule
<1>3. CASE records = <<>>
  <2>1. capsule = NoCapsule /\ capsule.records = <<>>
    BY <1>2, <1>3 DEF NoCapsule
  <2> QED BY <2>1 DEF capsule
<1>4. CASE records # <<>>
  <2>1. /\ capsule.records = records /\ capsule.header = header
        /\ capsule.id = <<header, Hashes(records)>>
    BY <1>2, <1>4
  <2>2. /\ capsule.header.version = 2 /\ capsule.header.origin = agent
        /\ capsule.header.root = MerkleRoot(Hashes(records))
    BY <2>1
  <2> QED BY <1>1, <1>4, <2>1, <2>2 DEF capsule
<1> QED BY <1>3, <1>4

\* What leaves a chain in a capsule are records of the chain that are neither private nor
\* quarantined, and of those that are for summaries only not the text (export_capsule).
THEOREM OnlyTheSharedLeaves ==
    ASSUME NEW ch, NEW agent, SealedBy(ch, agent),
           NEW indices, Len(indices) \in Nat, NEW filter, NEW title,
           NEW k \in DOMAIN ExportCapsule(ch, agent, indices, filter, title).records
    PROVE  \E p \in DOMAIN ch :
             /\ ExportCapsule(ch, agent, indices, filter, title).records[k] = Exported(ch[p])
             /\ ch[p].meta.exposure \notin {Private, Quarantine}
             /\ ch[p].meta.exposure = Summary => Exported(ch[p]).body.text = None
<1> DEFINE capsule == ExportCapsule(ch, agent, indices, filter, title)
<1>1. capsule.records \in Seq(Shareable(ch))
  BY ExportFacts
<1>2. k \in DOMAIN capsule.records
  OBVIOUS
<1> HIDE DEF capsule
<1>3. capsule.records[k] \in Shareable(ch)
  BY <1>1, <1>2
<1>4. PICK p \in DOMAIN ch : MayLeave(ch[p]) /\ capsule.records[k] = Exported(ch[p])
  BY <1>3 DEF Shareable
<1>5. ch[p].meta.exposure = Summary => Exported(ch[p]).body.text = None
  <2>1. "text" \in DOMAIN ch[p].content
    BY DEF SealedBy
  <2>2. Projection(ch[p].content).text = None
    BY <2>1 DEF Projection
  <2> QED BY <2>2, ExportedFacts
<1> QED BY <1>4, <1>5 DEF MayLeave, capsule

\* What an agent shares is accepted as it is (export_capsule, verify_capsule).
THEOREM TheSharedVerifies ==
    ASSUME NEW ch, NEW agent, SealedBy(ch, agent),
           NEW indices, Len(indices) \in Nat, NEW filter, NEW title,
           ExportCapsule(ch, agent, indices, filter, title) # NoCapsule
    PROVE  VerifyCapsule(ExportCapsule(ch, agent, indices, filter, title))
<1> DEFINE capsule == ExportCapsule(ch, agent, indices, filter, title)
<1>1. /\ capsule.records \in Seq(Shareable(ch))
      /\ capsule.records # <<>>
      /\ capsule.header.version = 2 /\ capsule.header.origin = agent
      /\ capsule.header.root = MerkleRoot(Hashes(capsule.records))
      /\ capsule.id = <<capsule.header, Hashes(capsule.records)>>
  BY ExportFacts
<1> HIDE DEF capsule
<1>2. ASSUME NEW k \in DOMAIN capsule.records
      PROVE  VerifyRecord(capsule.records[k], agent)
  <2>1. PICK p \in DOMAIN ch : capsule.records[k] = Exported(ch[p])
    <3>1. capsule.records[k] \in Shareable(ch)
      BY <1>1
    <3> QED BY <3>1 DEF Shareable
  <2>2. /\ ch[p].agent = agent
        /\ ch[p].hash = <<ch[p].index, ch[p].prior, ch[p].time, ch[p].type, ch[p].content, agent>>
        /\ ch[p].signature = <<agent, ch[p].hash>>
    BY DEF SealedBy
  <2> DEFINE rec == Exported(ch[p])
  <2>3. /\ rec.agent = agent /\ rec.signature = <<rec.agent, rec.hash>>
        /\ rec.content_hash = ch[p].content
        /\ rec.hash = <<rec.index, rec.prior, rec.time, rec.type, ch[p].content, rec.agent>>
    BY <2>2, ExportedFacts
  <2>4. CASE ch[p].meta.exposure = Summary
    <3>1. rec.redacted /\ rec.commitment = <<rec.agent, <<rec.hash, rec.body>>>>
      BY <2>4, ExportedFacts, ZenonT(60)
    <3> HIDE DEF rec
    <3>2. VerifyRecord(rec, agent)
      BY <2>3, <3>1 DEF VerifyRecord
    <3> QED BY <2>1, <3>2 DEF rec
  <2>5. CASE ch[p].meta.exposure # Summary
    <3>1. ~rec.redacted /\ rec.commitment = <<>> /\ rec.body = ch[p].content
      BY <2>5, ExportedFacts
    <3> HIDE DEF rec
    <3>2. VerifyRecord(rec, agent)
      BY <2>3, <3>1 DEF VerifyRecord
    <3> QED BY <2>1, <3>2 DEF rec
  <2> QED BY <2>4, <2>5
<1> QED BY <1>1, <1>2 DEF VerifyCapsule, capsule

\* What an agent has signed: its records and the summaries of those that are shared as such.
Signed(ch) == {ch[p].signature : p \in DOMAIN ch} \cup {Exported(ch[p]).commitment : p \in DOMAIN ch}

\* Nobody else signs for the agent.
Unforged(sent, ch, agent) ==
    \A k \in DOMAIN sent.records :
      \A s \in {sent.records[k].signature, sent.records[k].commitment} :
        s # <<>> /\ s[1] = agent => s \in Signed(ch)

\* What may be in a capsule in place of a record, if its origin is to endorse it.
Endorsed(rec, own) ==
    /\ rec.hash = own.hash
    /\ rec.redacted => own.meta.exposure = Summary
    /\ rec.body = IF rec.redacted THEN Projection(own.content) ELSE own.content

\* Whoever made a capsule or changed it in whatever way: if it verifies as an agent's and
\* nobody else signs for that agent, every record in it is one of the agent's chain, with
\* its content as it was sealed, or, if it is for summaries only, with the summary that
\* the agent signed (verify_capsule, _summary_commitment_message).
THEOREM VerifiedIsEndorsed ==
    ASSUME NEW ch, NEW agent, SealedBy(ch, agent),
           NEW sent, VerifyCapsule(sent), sent.header.origin = agent, Unforged(sent, ch, agent),
           NEW k \in DOMAIN sent.records
    PROVE  \E p \in DOMAIN ch : Endorsed(sent.records[k], ch[p])
<1> DEFINE rec == sent.records[k]
<1>1. VerifyRecord(rec, agent)
  BY DEF VerifyCapsule
<1>2. /\ rec.signature # <<>> /\ rec.signature[1] = agent => rec.signature \in Signed(ch)
      /\ rec.commitment # <<>> /\ rec.commitment[1] = agent => rec.commitment \in Signed(ch)
  BY DEF Unforged
<1> HIDE DEF rec
<1>3. CASE rec.redacted
  <2>1. rec.commitment = <<agent, <<rec.hash, rec.body>>>>
    BY <1>1, <1>3 DEF VerifyRecord
  <2>2. rec.commitment \in Signed(ch)
    BY <1>2, <2>1
  <2>3. ASSUME NEW p \in DOMAIN ch
        PROVE  rec.commitment # ch[p].signature
    <3>1. ch[p].signature = <<agent, <<ch[p].index, ch[p].prior, ch[p].time, ch[p].type, ch[p].content, agent>>>>
      BY DEF SealedBy
    <3>2. SUFFICES ASSUME rec.commitment = ch[p].signature PROVE FALSE
      OBVIOUS
    <3>3. <<rec.hash, rec.body>>
            = <<ch[p].index, ch[p].prior, ch[p].time, ch[p].type, ch[p].content, agent>>
      BY <2>1, <3>1, <3>2
    <3> QED BY <3>3
  <2>4. PICK p \in DOMAIN ch : rec.commitment = Exported(ch[p]).commitment
    BY <2>2, <2>3 DEF Signed
  <2>5. ch[p].meta.exposure = Summary
    <3>1. rec.commitment # <<>>
      BY <2>1
    <3> QED BY <2>4, <3>1, ExportedFacts
  <2>6. rec.commitment = <<ch[p].agent, <<ch[p].hash, Projection(ch[p].content)>>>>
    <3>1. Exported(ch[p]).body = Projection(ch[p].content)
      BY <2>5, ExportedFacts
    <3>2. Exported(ch[p]).commitment = <<ch[p].agent, <<ch[p].hash, Exported(ch[p]).body>>>>
      BY <2>5, ExportedFacts
    <3> QED BY <2>4, <3>1, <3>2
  <2>7. <<rec.hash, rec.body>> = <<ch[p].hash, Projection(ch[p].content)>>
    BY <2>1, <2>6
  <2>8. rec.hash = ch[p].hash /\ rec.body = Projection(ch[p].content)
    BY <2>7
  <2>9. Endorsed(rec, ch[p])
    BY <1>3, <2>5, <2>8 DEF Endorsed
  <2> QED BY <2>9 DEF rec
<1>4. CASE ~rec.redacted
  <2>1. /\ rec.signature = <<agent, rec.hash>>
        /\ rec.hash = <<rec.index, rec.prior, rec.time, rec.type, rec.body, agent>>
    BY <1>1, <1>4 DEF VerifyRecord
  <2>2. rec.signature \in Signed(ch)
    BY <1>2, <2>1
  <2>3. ASSUME NEW p \in DOMAIN ch
        PROVE  rec.signature # Exported(ch[p]).commitment
    <3>1. SUFFICES ASSUME rec.signature = Exported(ch[p]).commitment PROVE FALSE
      OBVIOUS
    <3>2. Exported(ch[p]).commitment
            \in {<<>>, <<ch[p].agent, <<ch[p].hash, Exported(ch[p]).body>>>>}
      BY ExportedFacts
    <3>3. <<agent, rec.hash>> = <<ch[p].agent, <<ch[p].hash, Exported(ch[p]).body>>>>
      <4>1. rec.signature # <<>>
        BY <2>1
      <4> QED BY <2>1, <3>1, <3>2, <4>1
    <3>4. rec.hash = <<ch[p].hash, Exported(ch[p]).body>>
      BY <3>3
    <3> QED BY <2>1, <3>4
  <2>4. PICK p \in DOMAIN ch : rec.signature = ch[p].signature
    BY <2>2, <2>3 DEF Signed
  <2>5. /\ ch[p].signature = <<agent, ch[p].hash>>
        /\ ch[p].hash = <<ch[p].index, ch[p].prior, ch[p].time, ch[p].type, ch[p].content, agent>>
    BY DEF SealedBy
  <2>6. <<agent, rec.hash>> = <<agent, ch[p].hash>>
    BY <2>1, <2>4, <2>5
  <2>7. rec.hash = ch[p].hash
    BY <2>6
  <2>8. <<rec.index, rec.prior, rec.time, rec.type, rec.body, agent>>
          = <<ch[p].index, ch[p].prior, ch[p].time, ch[p].type, ch[p].content, agent>>
    BY <2>1, <2>5, <2>7
  <2>9. rec.body = ch[p].content
    BY <2>8
  <2>10. Endorsed(rec, ch[p])
    BY <1>4, <2>7, <2>9 DEF Endorsed
  <2> QED BY <2>10 DEF rec
<1> QED BY <1>3, <1>4


LEMMA StrengthFacts ==
    /\ Strength(Ceiling) \in Nat
    /\ \A class \in ToSet(EpistemicStrength) : Strength(class) \in Nat
<1>1. Ceiling \in ToSet(EpistemicStrength)
  <2>1. 3 \in DOMAIN EpistemicStrength /\ EpistemicStrength[3] = Ceiling
    BY DEF EpistemicStrength, Ceiling
  <2> QED BY <2>1 DEF ToSet
<1>2. ASSUME NEW class \in ToSet(EpistemicStrength)
      PROVE  Strength(class) \in Nat
  <2>1. \E k \in DOMAIN EpistemicStrength : EpistemicStrength[k] = class
    BY DEF ToSet
  <2>2. Strength(class) \in DOMAIN EpistemicStrength
    BY <2>1 DEF Strength
  <2>3. DOMAIN EpistemicStrength = 1 .. 5
    BY DEF EpistemicStrength
  <2> QED BY <2>2, <2>3
<1> QED BY <1>1, <1>2

LEMMA DemotedFacts ==
    ASSUME NEW class
    PROVE  Strength(Demoted(class)) >= Strength(Ceiling)
<1>1. CASE Demoted(class) = Ceiling
  BY <1>1, StrengthFacts
<1>2. CASE Demoted(class) # Ceiling
  <2>1. /\ Demoted(class) = class /\ class \in ToSet(EpistemicStrength)
        /\ Strength(class) > Strength(Ceiling)
    BY <1>2 DEF Demoted
  <2>2. Strength(class) \in Nat /\ Strength(Ceiling) \in Nat
    BY <2>1, StrengthFacts
  <2> QED BY <2>1, <2>2
<1> QED BY <1>1, <1>2

\* A record that holds a foreign one: as another's, for oneself alone, and no stronger
\* than the ceiling.
Holds(rec, agent, sent, foreign) ==
    /\ rec.agent = agent /\ rec.type = ImportedType
    /\ rec.content.text.capsule = sent.id
    /\ rec.content.text.origin = sent.header.origin
    /\ rec.content.text.body = foreign.body
    /\ rec.meta.exposure = Private
    /\ Strength(rec.meta.class) >= Strength(Ceiling)

LEMMA SealedHolds ==
    ASSUME NEW before, NEW agent, NEW sent, NEW foreign
    PROVE  Holds(Sealed(before, agent, ImportedType, ImportedContent(sent, foreign)),
                 agent, sent, foreign)
<1> DEFINE rec == Sealed(before, agent, ImportedType, ImportedContent(sent, foreign))
<1>1. /\ rec.agent = agent /\ rec.type = ImportedType
      /\ rec.content = ImportedContent(sent, foreign)
      /\ rec.meta = ImportedContent(sent, foreign).meta
  BY DEF Sealed
<1>2. /\ ImportedContent(sent, foreign).meta = ImportedMeta(foreign)
      /\ ImportedContent(sent, foreign).text.capsule = sent.id
      /\ ImportedContent(sent, foreign).text.origin = sent.header.origin
      /\ ImportedContent(sent, foreign).text.body = foreign.body
  BY DEF ImportedContent
<1>3. /\ ImportedMeta(foreign).exposure = Private
      /\ ImportedMeta(foreign).class = Demoted(foreign.class)
  BY DEF ImportedMeta
<1>4. Strength(Demoted(foreign.class)) >= Strength(Ceiling)
  BY DemotedFacts
<1> HIDE DEF rec
<1>5. Holds(rec, agent, sent, foreign)
  BY <1>1, <1>2, <1>3, <1>4 DEF Holds
<1> QED BY <1>5 DEF rec

\* What an import that is not refused does to a chain.
IsImported(after, ch, agent, sent) ==
    /\ Sequence(after) /\ Len(after) = Len(ch) + Len(sent.records)
    /\ \A p \in DOMAIN ch : after[p] = ch[p]
    /\ \A k \in 1 .. Len(sent.records) : Holds(after[Len(ch) + k], agent, sent, sent.records[k])

\* All records of a capsule are taken over or none.
LEMMA ImportFacts ==
    ASSUME NEW ch, Sequence(ch), NEW agent, NEW sent, Sequence(sent.records)
    PROVE  IF ~VerifyCapsule(sent) \/ AlreadyImported(ch, sent.id)
           THEN ImportCapsule(ch, agent, sent) = ch
           ELSE IsImported(ImportCapsule(ch, agent, sent), ch, agent, sent)
<1>1. Len(sent.records) \in Nat
  BY DEF Sequence
<1> DEFINE after == WithRecordsOf(ch, agent, sent)
<1>2. IsGrown(after, ch, agent, sent)
  BY <1>1, GrownFacts
<1> HIDE DEF after
<1>3. ASSUME NEW k \in 1 .. Len(sent.records)
      PROVE  Holds(after[Len(ch) + k], agent, sent, sent.records[k])
  BY <1>2, SealedHolds DEF IsGrown
<1>4. IsImported(after, ch, agent, sent)
  BY <1>2, <1>3 DEF IsImported, IsGrown
<1> QED BY <1>4 DEF ImportCapsule, after

\* A capsule is imported once (already_imported).
THEOREM ImportedOnce ==
    ASSUME NEW ch, Sequence(ch), NEW agent, NEW sent, Sequence(sent.records)
    PROVE  ImportCapsule(ImportCapsule(ch, agent, sent), agent, sent)
             = ImportCapsule(ch, agent, sent)
<1> DEFINE after == ImportCapsule(ch, agent, sent)
<1>1. CASE ~VerifyCapsule(sent) \/ AlreadyImported(ch, sent.id)
  <2>1. after = ch
    BY <1>1, ImportFacts
  <2> QED BY <2>1
<1>2. CASE VerifyCapsule(sent) /\ ~AlreadyImported(ch, sent.id)
  <2>1. IsImported(after, ch, agent, sent)
    BY <1>2, ImportFacts
  <2> HIDE DEF after
  <2>2. Len(sent.records) \in Nat /\ Len(ch) \in Nat /\ sent.records # <<>>
    BY <1>2 DEF Sequence, VerifyCapsule
  <2>3. 1 \in 1 .. Len(sent.records)
    BY <2>2 DEF Sequence
  <2>4. Len(ch) + 1 \in DOMAIN after
    BY <2>1, <2>2, <2>3 DEF IsImported, Sequence
  <2>5. /\ after[Len(ch) + 1].type = ImportedType
        /\ after[Len(ch) + 1].content.text.capsule = sent.id
    BY <2>1, <2>3 DEF IsImported, Holds
  <2>6. AlreadyImported(after, sent.id)
    BY <2>4, <2>5 DEF AlreadyImported
  <2>7. ImportCapsule(after, agent, sent) = after
    BY <2>6 DEF ImportCapsule
  <2> QED BY <2>7 DEF after
<1> QED BY <1>1, <1>2

\* What an agent shares is not changed by what it imports: nothing of it is passed on,
\* whatever is asked for (ImportedMeta, export_capsule).
THEOREM ImportedStays ==
    ASSUME NEW ch, Sequence(ch), NEW agent, NEW sent, Sequence(sent.records),
           NEW indices, Len(indices) \in Nat, NEW filter, NEW title
    PROVE  ExportCapsule(ImportCapsule(ch, agent, sent), agent, indices, filter, title)
             = ExportCapsule(ch, agent, indices, filter, title)
<1> DEFINE after == ImportCapsule(ch, agent, sent)
<1>1. CASE ~VerifyCapsule(sent) \/ AlreadyImported(ch, sent.id)
  <2>1. after = ch
    BY <1>1, ImportFacts
  <2> QED BY <2>1
<1>2. CASE VerifyCapsule(sent) /\ ~AlreadyImported(ch, sent.id)
  <2>1. IsImported(after, ch, agent, sent)
    BY <1>2, ImportFacts
  <2> HIDE DEF after
  <2>2. /\ Len(sent.records) \in Nat /\ Len(ch) \in Nat /\ DOMAIN ch = 1 .. Len(ch)
        /\ DOMAIN after = 1 .. (Len(ch) + Len(sent.records))
    BY <2>1 DEF Sequence, IsImported
  <2>3. ASSUME NEW i
        PROVE  /\ Asked(after, i, filter) <=> Asked(ch, i, filter)
               /\ Asked(after, i, filter) => after[i + 1] = ch[i + 1]
    <3>1. CASE i + 1 \in DOMAIN ch
      <4>1. i + 1 \in DOMAIN after
        BY <2>2, <3>1
      <4>2. after[i + 1] = ch[i + 1]
        BY <2>1, <3>1 DEF IsImported
      <4> QED BY <3>1, <4>1, <4>2 DEF Asked
    <3>2. CASE i + 1 \in DOMAIN after /\ i + 1 \notin DOMAIN ch
      <4>1. PICK k \in 1 .. Len(sent.records) : i + 1 = Len(ch) + k
        <5> DEFINE q == i + 1
        <5>1. q \in 1 .. (Len(ch) + Len(sent.records)) /\ q \notin 1 .. Len(ch)
          BY <2>2, <3>2
        <5> HIDE DEF q
        <5>2. q - Len(ch) \in 1 .. Len(sent.records) /\ q = Len(ch) + (q - Len(ch))
          BY <2>2, <5>1
        <5> QED BY <5>2 DEF q
      <4>2. after[i + 1].meta.exposure = Private
        BY <2>1, <4>1 DEF IsImported, Holds
      <4> QED BY <3>2, <4>2 DEF Asked, MayLeave
    <3>3. CASE i + 1 \notin DOMAIN after
      <4>1. i + 1 \notin DOMAIN ch
        BY <2>2, <3>3
      <4> QED BY <3>3, <4>1 DEF Asked
    <3> QED BY <3>1, <3>2, <3>3
  <2>4. \A k \in 1 .. Len(indices) :
           /\ Asked(after, indices[k], filter) <=> Asked(ch, indices[k], filter)
           /\ Asked(after, indices[k], filter) => after[indices[k] + 1] = ch[indices[k] + 1]
    BY <2>3
  <2>5. Selected(after, indices, filter) = Selected(ch, indices, filter)
    BY <2>4, SelectedAlike
  <2> QED BY <2>5 DEF ExportCapsule, after
<1> QED BY <1>1, <1>2


(***************************************************************************)
(* The capsules of the runs.                                               *)
(***************************************************************************)
LEMMA SealedAppend ==
    ASSUME NEW ch, NEW agent, SealedBy(ch, agent), NEW type, NEW content,
           "text" \in DOMAIN content
    PROVE  SealedBy(Append(ch, Sealed(ch, agent, type, content)), agent)
<1> DEFINE rec == Sealed(ch, agent, type, content)
           dh  == Append(ch, rec)
           X   == Range(ch) \cup {rec}
<1>1. /\ rec.agent = agent /\ rec.index = Len(ch)
      /\ rec.hash = <<rec.index, rec.prior, rec.time, rec.type, rec.content, agent>>
      /\ rec.signature = <<agent, rec.hash>>
      /\ rec.content = content
  BY DEF Sealed
<1> HIDE DEF rec
<1>2. ch \in Seq(Range(ch))
  BY DEF SealedBy, Sequence
<1>3. ch \in Seq(X) /\ rec \in X
  BY <1>2
<1> HIDE DEF X
<1>4. /\ dh \in Seq(X) /\ DOMAIN dh = 1 .. (Len(ch) + 1) /\ DOMAIN ch = 1 .. Len(ch)
      /\ Len(ch) \in Nat /\ dh[Len(ch) + 1] = rec
      /\ \A p \in 1 .. Len(ch) : dh[p] = ch[p]
  BY <1>3
<1> HIDE DEF dh
<1>5. dh \in Seq(Range(dh))
  BY <1>4 DEF Range
<1>6. ASSUME NEW p \in DOMAIN dh
      PROVE  /\ dh[p].agent = agent /\ dh[p].index = p - 1
             /\ dh[p].hash = <<dh[p].index, dh[p].prior, dh[p].time, dh[p].type, dh[p].content, agent>>
             /\ dh[p].signature = <<agent, dh[p].hash>>
             /\ "text" \in DOMAIN dh[p].content
  <2>1. CASE p \in 1 .. Len(ch)
    BY <1>4, <2>1 DEF SealedBy
  <2>2. CASE p = Len(ch) + 1
    BY <1>1, <1>4, <2>2, SMTT(60)
  <2> QED BY <1>4, <2>1, <2>2
<1>7. SealedBy(dh, agent)
  BY <1>5, <1>6 DEF SealedBy, Sequence
<1> QED BY <1>7 DEF dh, rec

LEMMA ContentHasText ==
    ASSUME NEW title, NEW exposure, NEW class
    PROVE  "text" \in DOMAIN Content(title, exposure, class)
BY DEF Content

LEMMA GenesisSealed ==
    ASSUME NEW agent
    PROVE  SealedBy(<<Genesis(agent)>>, agent)
<1>1. SealedBy(<<>>, agent)
  BY DEF SealedBy, Sequence
<1>2. SealedBy(Append(<<>>, Genesis(agent)), agent)
  BY <1>1, SealedAppend, ContentHasText DEF Genesis
<1>3. Append(<<>>, Genesis(agent)) = <<Genesis(agent)>>
  OBVIOUS
<1> QED BY <1>2, <1>3

LEMMA OriginsSealed == \A ch \in OriginChains : SealedBy(ch, "A")
<1>1. ASSUME NEW title, NEW exposure, NEW class
      PROVE  SealedBy(Origin(title, exposure, class), "A")
  <2> DEFINE first  == <<Genesis("A")>>
             second == Append(first, Sealed(first, "A", "response", Content(title, exposure, class)))
             third  == Append(second, Sealed(second, "A", "reflection", Content("view", Shared, "inferred")))
  <2>1. SealedBy(first, "A")
    BY GenesisSealed
  <2> HIDE DEF first
  <2>2. SealedBy(second, "A")
    BY <2>1, SealedAppend, ContentHasText
  <2> HIDE DEF second
  <2>3. SealedBy(third, "A")
    BY <2>2, SealedAppend, ContentHasText
  <2> HIDE DEF third
  <2>4. Origin(title, exposure, class) = third
    BY DEF Origin, third, second, first
  <2> QED BY <2>3, <2>4
<1> QED BY <1>1 DEF OriginChains

\* Nothing that happens to a record on its way gives it another hash or signature, and a
\* summary does not become a record in full with its commitment taken away.
IsChanged(rec, r) ==
    /\ rec.hash = r.hash /\ rec.signature = r.signature
    /\ rec.commitment \in {r.commitment, <<>>}
    /\ rec.redacted = r.redacted \/ rec.commitment = r.commitment

LEMMA ChangedFacts ==
    ASSUME NEW own, NEW rec \in Changed(Exported(own)) \cup {Exported(own)}
    PROVE  IsChanged(rec, Exported(own))
<1> DEFINE r == Exported(own)
<1>1. {"hash", "signature", "commitment", "redacted", "body", "type", "index", "time", "class",
       "exposure", "agent"} \subseteq DOMAIN r
  BY DEF Exported
<1> HIDE DEF r
<1>2. CASE rec = r
  BY <1>2 DEF IsChanged, r
<1>3. CASE rec = [r EXCEPT !.body.text = "altered"]
  BY <1>1, <1>3 DEF IsChanged, r
<1>4. CASE rec = [r EXCEPT !.type = "other"]
  BY <1>1, <1>4 DEF IsChanged, r
<1>5. CASE rec = [r EXCEPT !.index = @ + 1]
  BY <1>1, <1>5 DEF IsChanged, r
<1>6. CASE rec = [r EXCEPT !.time = @ + 1]
  BY <1>1, <1>6 DEF IsChanged, r
<1>7. CASE rec = [r EXCEPT !.class = "known"]
  BY <1>1, <1>7 DEF IsChanged, r
<1>8. CASE rec = [r EXCEPT !.exposure = Public]
  BY <1>1, <1>8 DEF IsChanged, r
<1>9. CASE rec = [r EXCEPT !.redacted = ~@]
  BY <1>1, <1>9 DEF IsChanged, r
<1>10. CASE rec = [r EXCEPT !.commitment = <<>>]
  BY <1>1, <1>10 DEF IsChanged, r
<1>11. CASE rec = [r EXCEPT !.agent = "C"]
  BY <1>1, <1>11 DEF IsChanged, r
<1> QED BY <1>2, <1>3, <1>4, <1>5, <1>6, <1>7, <1>8, <1>9, <1>10, <1>11 DEF Changed, r

LEMMA SequenceRearranged ==
    ASSUME NEW s, NEW k
    PROVE  /\ \A X : s \in Seq(X) => Reverse(s) \in Seq(X)
           /\ \A X : s \in Seq(X) /\ s # <<>> => s \o <<Last(s)>> \in Seq(X)
           /\ \A X : s \in Seq(X) /\ k \in DOMAIN s => RemoveAt(s, k) \in Seq(X)
           /\ \A X, r : s \in Seq(X) /\ r \in X => ReplaceAt(s, k, r) \in Seq(X)
<1>1. ASSUME NEW X, s \in Seq(X)
      PROVE  Reverse(s) \in Seq(X)
  BY <1>1 DEF Reverse
<1>2. ASSUME NEW X, s \in Seq(X), s # <<>>
      PROVE  s \o <<Last(s)>> \in Seq(X)
  BY <1>2 DEF Last
<1>3. ASSUME NEW X, s \in Seq(X), k \in DOMAIN s
      PROVE  RemoveAt(s, k) \in Seq(X)
  <2>1. SubSeq(s, 1, k - 1) \in Seq(X) /\ SubSeq(s, k + 1, Len(s)) \in Seq(X)
    BY <1>3
  <2> QED BY <2>1 DEF RemoveAt
<1>4. ASSUME NEW X, NEW r, s \in Seq(X), r \in X
      PROVE  ReplaceAt(s, k, r) \in Seq(X)
  <2>1. ReplaceAt(s, k, r) = [i \in 1 .. Len(s) |-> IF i = k THEN r ELSE s[i]]
    BY <1>4 DEF ReplaceAt
  <2>2. \A i \in 1 .. Len(s) : (IF i = k THEN r ELSE s[i]) \in X
    BY <1>4
  <2>3. Len(s) \in Nat
    BY <1>4
  <2> QED BY <2>1, <2>2, <2>3
<1> QED BY <1>1, <1>2, <1>3, <1>4

\* What may arrive in place of what was shared.
Variants(ch) ==
    UNION {Changed(Exported(ch[p])) \cup {Exported(ch[p])} : p \in DOMAIN ch}

LEMMA AlteredFacts ==
    ASSUME NEW ch, NEW id, NEW header, NEW records \in Seq(Shareable(ch)), records # <<>>,
           NEW sent \in Altered([id |-> id, header |-> header, records |-> records])
    PROVE  sent.id = id /\ sent.records \in Seq(Variants(ch))
<1> DEFINE capsule == [id |-> id, header |-> header, records |-> records]
           X == Variants(ch)
<1>1. records \in Seq(X)
  <2>1. Shareable(ch) \subseteq X
    BY DEF Shareable, Variants
  <2> HIDE DEF X
  <2> QED BY <2>1
<1>2. capsule.id = id /\ capsule.records = records /\ DOMAIN capsule = {"id", "header", "records"}
  OBVIOUS
<1>3. ASSUME NEW new PROVE [capsule EXCEPT !.records = new].id = id
                           /\ [capsule EXCEPT !.records = new].records = new
  OBVIOUS
<1>4. ASSUME NEW new PROVE /\ [capsule EXCEPT !.header.title = new].id = id
                           /\ [capsule EXCEPT !.header.title = new].records = records
                           /\ [capsule EXCEPT !.header.origin = new].id = id
                           /\ [capsule EXCEPT !.header.origin = new].records = records
  OBVIOUS
<1>5. sent \in Altered(capsule)
  OBVIOUS
<1>6. \/ sent = capsule
      \/ sent = [capsule EXCEPT !.header.title = "altered"]
      \/ sent = [capsule EXCEPT !.header.origin = "C"]
      \/ sent = [capsule EXCEPT !.records = Reverse(records)]
      \/ sent = [capsule EXCEPT !.records = records \o <<Last(records)>>]
      \/ \E k \in DOMAIN records : sent = [capsule EXCEPT !.records = RemoveAt(records, k)]
      \/ \E k \in DOMAIN records : \E r \in Changed(records[k]) :
            sent = [capsule EXCEPT !.records = ReplaceAt(records, k, r)]
  BY <1>2, <1>5 DEF Altered
<1> HIDE DEF capsule, X
<1>7. CASE sent \in {capsule, [capsule EXCEPT !.header.title = "altered"],
                     [capsule EXCEPT !.header.origin = "C"]}
  BY <1>1, <1>2, <1>4, <1>7 DEF X
<1>8. CASE sent = [capsule EXCEPT !.records = Reverse(records)]
  BY <1>1, <1>3, <1>8, SequenceRearranged DEF X
<1>9. CASE sent = [capsule EXCEPT !.records = records \o <<Last(records)>>]
  BY <1>1, <1>3, <1>9, SequenceRearranged DEF X
<1>10. CASE \E k \in DOMAIN records : sent = [capsule EXCEPT !.records = RemoveAt(records, k)]
  BY <1>1, <1>3, <1>10, SequenceRearranged DEF X
<1>11. CASE \E k \in DOMAIN records : \E r \in Changed(records[k]) :
              sent = [capsule EXCEPT !.records = ReplaceAt(records, k, r)]
  <2>1. PICK k \in DOMAIN records : \E r \in Changed(records[k]) :
              sent = [capsule EXCEPT !.records = ReplaceAt(records, k, r)]
    BY <1>11
  <2>2. PICK r \in Changed(records[k]) :
              sent = [capsule EXCEPT !.records = ReplaceAt(records, k, r)]
    BY <2>1
  <2>3. records[k] \in Shareable(ch)
    OBVIOUS
  <2>4. r \in X
    BY <2>3 DEF Shareable, Variants, X
  <2> QED BY <1>1, <1>3, <2>2, <2>4, SequenceRearranged DEF X
<1> QED BY <1>6, <1>7, <1>8, <1>9, <1>10, <1>11


\* Whatever arrives in place of a capsule, the agent "B" takes over every body as it was
\* shared or nothing at all, as another's, once, and passes none of it on.
AsShared(capsule, home, sent) ==
    LET after == ImportCapsule(home, "B", sent)
        taken == [k \in DOMAIN capsule.records |-> after[k + 1]]
        every == [k \in DOMAIN after |-> k - 1]
    IN IF after = home THEN sent # capsule
       ELSE /\ Len(after) = 1 + Len(capsule.records)
            /\ \A k \in DOMAIN taken :
                 /\ taken[k].agent = "B" /\ taken[k].type = ImportedType
                 /\ taken[k].content.text.origin = "A"
                 /\ taken[k].content.text.body = capsule.records[k].body
                 /\ Strength(taken[k].meta.class) >= Strength(Ceiling)
            /\ ImportCapsule(after, "B", sent) = after
            /\ ExportCapsule(after, "B", every, All, "on")
                 = ExportCapsule(home, "B", every, All, "on")

LEMMA HomeFacts ==
    /\ Sequence(<<Genesis("B")>>) /\ Len(<<Genesis("B")>>) = 1
    /\ \A id : ~AlreadyImported(<<Genesis("B")>>, id)
<1>1. Sequence(<<Genesis("B")>>)
  BY GenesisSealed DEF SealedBy
<1>2. Genesis("B").type # ImportedType
  BY DEF Genesis, Sealed, ImportedType
<1>3. ASSUME NEW id, AlreadyImported(<<Genesis("B")>>, id) PROVE FALSE
  <2>1. PICK p \in DOMAIN <<Genesis("B")>> : <<Genesis("B")>>[p].type = ImportedType
    BY <1>3 DEF AlreadyImported
  <2>2. <<Genesis("B")>>[p] = Genesis("B")
    OBVIOUS
  <2> QED BY <1>2, <2>1, <2>2
<1> QED BY <1>1, <1>3

\* In a chain no two records have the same hash.
LEMMA HashesDiffer ==
    ASSUME NEW ch, NEW agent, SealedBy(ch, agent), NEW p \in DOMAIN ch, NEW q \in DOMAIN ch,
           ch[p].hash = ch[q].hash
    PROVE  p = q
<1>1. /\ ch[p].hash = <<ch[p].index, ch[p].prior, ch[p].time, ch[p].type, ch[p].content, agent>>
      /\ ch[q].hash = <<ch[q].index, ch[q].prior, ch[q].time, ch[q].type, ch[q].content, agent>>
      /\ ch[p].index = p - 1 /\ ch[q].index = q - 1
  BY DEF SealedBy
<1>2. ch[p].index = ch[q].index
  <2>1. <<ch[p].index, ch[p].prior, ch[p].time, ch[p].type, ch[p].content, agent>>
          = <<ch[q].index, ch[q].prior, ch[q].time, ch[q].type, ch[q].content, agent>>
    BY <1>1
  <2> QED BY <2>1
<1>3. p \in Int /\ q \in Int
  BY DEF SealedBy, Sequence
<1> QED BY <1>1, <1>2, <1>3

LEMMA ArrivesAsShared ==
    ASSUME NEW ch, SealedBy(ch, "A"), NEW indices, Len(indices) \in Nat, NEW filter, NEW title,
           ExportCapsule(ch, "A", indices, filter, title) # NoCapsule,
           NEW sent \in Altered(ExportCapsule(ch, "A", indices, filter, title))
    PROVE  AsShared(ExportCapsule(ch, "A", indices, filter, title), <<Genesis("B")>>, sent)
<1> DEFINE capsule == ExportCapsule(ch, "A", indices, filter, title)
           home    == <<Genesis("B")>>
           after   == ImportCapsule(home, "B", sent)
<1>1. Sequence(home) /\ Len(home) = 1 /\ ~AlreadyImported(home, sent.id)
  BY HomeFacts
<1>2. VerifyCapsule(capsule)
  BY TheSharedVerifies
<1>3. PICK id, header, records :
        /\ capsule = [id |-> id, header |-> header, records |-> records]
        /\ id = <<header, Hashes(records)>> /\ header.origin = "A"
        /\ records # <<>>
  <2> DEFINE rs == Selected(ch, indices, filter)
             hd == [version |-> 2, origin |-> "A", count |-> Len(rs),
                    root |-> MerkleRoot(Hashes(rs)), title |-> title]
  <2>1. /\ rs # <<>>
        /\ capsule = [id |-> <<hd, Hashes(rs)>>, header |-> hd, records |-> rs]
    BY DEF ExportCapsule
  <2>2. hd.origin = "A"
    OBVIOUS
  <2> HIDE DEF rs, hd, capsule
  <2> QED BY <2>1, <2>2
<1>4. records \in Seq(Shareable(ch))
  <2>1. capsule.records \in Seq(Shareable(ch))
    BY ExportFacts
  <2> HIDE DEF capsule
  <2> QED BY <1>3, <2>1
<1>5. sent \in Altered(capsule)
  OBVIOUS
<1> HIDE DEF capsule, home
<1>6. sent.id = id /\ sent.records \in Seq(Variants(ch))
  BY <1>3, <1>4, <1>5, AlteredFacts
<1>7. Sequence(sent.records)
  BY <1>6 DEF Sequence, Range
<1>8. CASE ~VerifyCapsule(sent)
  <2>1. after = home
    BY <1>1, <1>7, <1>8, ImportFacts
  <2>2. sent # capsule
    BY <1>2, <1>8
  <2> QED BY <2>1, <2>2 DEF AsShared, capsule, home
<1>9. CASE VerifyCapsule(sent)
  <2>1. IsImported(after, home, "B", sent)
    BY <1>1, <1>7, <1>9, ImportFacts
  <2>2. ImportCapsule(after, "B", sent) = after
    BY <1>1, <1>7, ImportedOnce
  <2> DEFINE every == [k \in DOMAIN after |-> k - 1]
  <2>3. Len(every) \in Nat
    <3> HIDE DEF after
    <3>1. DOMAIN after = 1 .. Len(after) /\ Len(after) \in Nat
      BY <2>1 DEF IsImported, Sequence
    <3>2. every = [k \in 1 .. Len(after) |-> k - 1]
      BY <3>1
    <3>3. every \in Seq(Int)
      BY <3>1, <3>2
    <3> QED BY <3>3
  <2>4. ExportCapsule(after, "B", every, All, "on") = ExportCapsule(home, "B", every, All, "on")
    <3> HIDE DEF every
    <3> QED BY <1>1, <1>7, <2>3, ImportedStays
  <2> HIDE DEF after
  <2>5. sent.header = header /\ Hashes(sent.records) = Hashes(records)
    <3>1. <<sent.header, Hashes(sent.records)>> = <<header, Hashes(records)>>
      BY <1>3, <1>6, <1>9 DEF VerifyCapsule
    <3> QED BY <3>1
  <2>6. /\ DOMAIN sent.records = DOMAIN records /\ Len(sent.records) = Len(records)
        /\ Len(records) \in Nat \ {0} /\ DOMAIN records = 1 .. Len(records)
    <3>1. DOMAIN Hashes(sent.records) = DOMAIN sent.records
      BY DEF Hashes
    <3>2. DOMAIN Hashes(records) = DOMAIN records
      BY DEF Hashes
    <3>3. DOMAIN sent.records = DOMAIN records
      BY <2>5, <3>1, <3>2
    <3>4. /\ DOMAIN sent.records = 1 .. Len(sent.records) /\ Len(sent.records) \in Nat
          /\ DOMAIN records = 1 .. Len(records) /\ Len(records) \in Nat /\ Len(records) # 0
      BY <1>3, <1>4, <1>6
    <3>5. Len(sent.records) = Len(records)
      <4> DEFINE m == Len(sent.records)
                 n == Len(records)
      <4>1. 1 .. m = 1 .. n /\ m \in Nat /\ n \in Nat /\ n # 0
        BY <3>3, <3>4
      <4> HIDE DEF m, n
      <4>2. n \in 1 .. m /\ 1 \in 1 .. m
        BY <4>1
      <4>3. m \in 1 .. n
        BY <4>1, <4>2
      <4>4. m = n
        BY <4>1, <4>2, <4>3
      <4> QED BY <4>4 DEF m, n
    <3> QED BY <3>3, <3>4, <3>5
  <2>7. ASSUME NEW k \in DOMAIN records
        PROVE  sent.records[k].body = records[k].body
    <3>1. sent.records[k].hash = records[k].hash
      <4>1. Hashes(sent.records)[k] = sent.records[k].hash
        BY <2>6 DEF Hashes
      <4>2. Hashes(records)[k] = records[k].hash
        BY DEF Hashes
      <4> QED BY <2>5, <4>1, <4>2
    <3>2. PICK p \in DOMAIN ch : records[k] = Exported(ch[p])
      <4>1. records[k] \in Shareable(ch)
        BY <1>4
      <4> QED BY <4>1 DEF Shareable
    <3>3. PICK q \in DOMAIN ch : IsChanged(sent.records[k], Exported(ch[q]))
      <4>1. sent.records[k] \in Variants(ch)
        BY <1>6, <2>6
      <4>2. PICK q \in DOMAIN ch : sent.records[k] \in Changed(Exported(ch[q])) \cup {Exported(ch[q])}
        BY <4>1 DEF Variants
      <4> QED BY <4>2, ChangedFacts
    <3>4. p = q
      <4>0. /\ Exported(ch[p]).hash = ch[p].hash /\ Exported(ch[q]).hash = ch[q].hash
            /\ sent.records[k].hash = Exported(ch[q]).hash
        <5>1. Exported(ch[p]).hash = ch[p].hash
          BY ExportedFacts
        <5>2. Exported(ch[q]).hash = ch[q].hash
          BY ExportedFacts
        <5>3. sent.records[k].hash = Exported(ch[q]).hash
          BY <3>3 DEF IsChanged
        <5> QED BY <5>1, <5>2, <5>3
      <4>1. ch[p].hash = ch[q].hash
        BY <3>1, <3>2, <4>0
      <4> QED BY <4>1, HashesDiffer
    <3>5. PICK o \in DOMAIN ch : Endorsed(sent.records[k], ch[o])
      <4>1. sent.header.origin = "A"
        BY <1>3, <2>5
      <4>2. Unforged(sent, ch, "A")
        <5> SUFFICES ASSUME NEW j \in DOMAIN sent.records,
                            NEW s \in {sent.records[j].signature, sent.records[j].commitment},
                            s # <<>>
                     PROVE  s \in Signed(ch)
          BY DEF Unforged
        <5>1. PICK r \in DOMAIN ch : IsChanged(sent.records[j], Exported(ch[r]))
          <6>1. sent.records[j] \in Variants(ch)
            BY <1>6
          <6>2. PICK r \in DOMAIN ch : sent.records[j] \in Changed(Exported(ch[r])) \cup {Exported(ch[r])}
            BY <6>1 DEF Variants
          <6> QED BY <6>2, ChangedFacts
        <5>2. s \in {ch[r].signature, Exported(ch[r]).commitment}
          BY <5>1, ExportedFacts DEF IsChanged
        <5> QED BY <5>2 DEF Signed
      <4>3. k \in DOMAIN sent.records
        BY <2>6
      <4> QED BY <1>9, <4>1, <4>2, <4>3, VerifiedIsEndorsed
    <3> DEFINE rec == sent.records[k]
    <3>6. /\ rec.hash = ch[o].hash
          /\ rec.body = IF rec.redacted THEN Projection(ch[o].content) ELSE ch[o].content
          /\ rec.redacted => ch[o].meta.exposure = Summary
      BY <3>5 DEF Endorsed
    <3>7. /\ rec.hash = ch[p].hash
          /\ records[k].body = IF ch[p].meta.exposure = Summary
                               THEN Projection(ch[p].content) ELSE ch[p].content
      <4>1. Exported(ch[p]).hash = ch[p].hash
        BY ExportedFacts
      <4>2. Exported(ch[p]).body = IF ch[p].meta.exposure = Summary
                                   THEN Projection(ch[p].content) ELSE ch[p].content
        BY ExportedFacts
      <4> QED BY <3>1, <3>2, <4>1, <4>2
    <3>8. o = p
      BY <3>6, <3>7, HashesDiffer
    <3>9. rec.redacted \/ ch[p].meta.exposure # Summary
      <4> SUFFICES ASSUME ~rec.redacted, ch[p].meta.exposure = Summary
                   PROVE  FALSE
        OBVIOUS
      <4>1. VerifyRecord(rec, sent.header.origin)
        BY <1>9, <2>6 DEF VerifyCapsule
      <4>2. rec.commitment = <<>>
        BY <4>1 DEF VerifyRecord
      <4>3. /\ Exported(ch[p]).redacted
            /\ Exported(ch[p]).commitment
                 = <<ch[p].agent, <<ch[p].hash, Exported(ch[p]).body>>>>
        BY ExportedFacts
      <4>4. Exported(ch[p]).commitment # <<>>
        BY <4>3
      <4> QED BY <3>3, <3>4, <4>2, <4>3, <4>4 DEF IsChanged
    <3> HIDE DEF rec
    <3>10. rec.body = records[k].body
      BY <3>6, <3>7, <3>8, <3>9
    <3> QED BY <3>10 DEF rec
  <2>8. ASSUME NEW k \in DOMAIN records
        PROVE  /\ after[k + 1].agent = "B" /\ after[k + 1].type = ImportedType
               /\ after[k + 1].content.text.origin = "A"
               /\ after[k + 1].content.text.body = records[k].body
               /\ Strength(after[k + 1].meta.class) >= Strength(Ceiling)
    <3>1. k \in 1 .. Len(sent.records) /\ Len(home) + k = k + 1
      BY <1>1, <2>6
    <3>2. Holds(after[k + 1], "B", sent, sent.records[k])
      BY <2>1, <3>1 DEF IsImported
    <3>3. sent.header.origin = "A" /\ sent.records[k].body = records[k].body
      BY <1>3, <2>5, <2>7
    <3> QED BY <3>2, <3>3 DEF Holds
  <2>9. Len(after) = 1 + Len(records)
    BY <1>1, <2>1, <2>6 DEF IsImported
  <2>10. after # home
    <3>1. Len(after) # 1
      <4> DEFINE n == Len(records)
      <4>1. n \in Nat \ {0}
        BY <2>6
      <4>2. Len(after) = 1 + n
        BY <2>9
      <4> HIDE DEF n
      <4> QED BY <4>1, <4>2
    <3> QED BY <1>1, <3>1
  <2>11. capsule.records = records
    BY <1>3
  <2>12. AsShared(capsule, home, sent)
    BY <2>2, <2>4, <2>8, <2>9, <2>10, <2>11 DEF AsShared, after
  <2> QED BY <2>12 DEF capsule, home
<1> QED BY <1>8, <1>9

LEMMA LeavesAsShared ==
    ASSUME NEW ch, SealedBy(ch, "A"), NEW indices, Len(indices) \in Nat, NEW filter, NEW title,
           NEW k \in DOMAIN ExportCapsule(ch, "A", indices, filter, title).records
    PROVE  LET rec == ExportCapsule(ch, "A", indices, filter, title).records[k]
               exposure == ch[rec.index + 1].meta.exposure
           IN /\ exposure \notin {Private, Quarantine}
              /\ exposure = Summary => rec.body.text = None
<1> DEFINE rec == ExportCapsule(ch, "A", indices, filter, title).records[k]
<1>1. PICK p \in DOMAIN ch :
         /\ rec = Exported(ch[p])
         /\ ch[p].meta.exposure \notin {Private, Quarantine}
         /\ ch[p].meta.exposure = Summary => Exported(ch[p]).body.text = None
  BY OnlyTheSharedLeaves
<1> HIDE DEF rec
<1>2. p \in Int /\ rec.index = p - 1
  <2>1. p \in Int /\ ch[p].index = p - 1
    BY DEF SealedBy, Sequence
  <2>2. Exported(ch[p]).index = ch[p].index
    BY ExportedFacts
  <2> QED BY <1>1, <2>1, <2>2
<1>3. rec.index + 1 = p
  BY <1>2
<1> QED BY <1>1, <1>3 DEF rec

LEMMA CapsulesDoTell == OnlyWhatWasShared
<1> SUFFICES ASSUME NEW ch \in OriginChains, NEW indices \in {<<0, 1, 2>>, <<2, 1, 5>>, <<1, 1>>},
                    NEW filter \in Filters,
                    ExportCapsule(ch, "A", indices, filter, "title") # NoCapsule
             PROVE  LET capsule == ExportCapsule(ch, "A", indices, filter, "title") IN
                    /\ \A k \in DOMAIN capsule.records :
                         LET exposure == ch[capsule.records[k].index + 1].meta.exposure
                         IN /\ exposure \notin {Private, Quarantine}
                            /\ exposure = Summary => capsule.records[k].body.text = None
                    /\ \A sent \in Altered(capsule) : AsShared(capsule, <<Genesis("B")>>, sent)
  BY ZenonT(60) DEF OnlyWhatWasShared, AsShared
<1>1. SealedBy(ch, "A")
  BY OriginsSealed
<1>2. Len(indices) \in Nat
  OBVIOUS
<1> DEFINE capsule == ExportCapsule(ch, "A", indices, filter, "title")
<1>3. \A k \in DOMAIN capsule.records :
        LET exposure == ch[capsule.records[k].index + 1].meta.exposure
        IN /\ exposure \notin {Private, Quarantine}
           /\ exposure = Summary => capsule.records[k].body.text = None
  BY <1>1, <1>2, LeavesAsShared, ZenonT(60)
<1>4. \A sent \in Altered(capsule) : AsShared(capsule, <<Genesis("B")>>, sent)
  BY <1>1, <1>2, ArrivesAsShared, ZenonT(60)
<1> QED BY <1>3, <1>4, ZenonT(60)

\* A capsule tells what its origin chose to share, and what arrives is taken over as that
\* or not at all (OnlyWhatWasShared): of chains and alterations of which
\* OnlyTheSharedLeaves, VerifiedIsEndorsed, ImportedOnce and ImportedStays speak.
THEOREM CapsulesStayTrue == Spec => []OnlyWhatWasShared
BY CapsulesDoTell, PTL
=============================================================================
