------------------------------- MODULE Chunker -------------------------------
(***************************************************************************)
(* The cutting of a text into data-height chunks (continuum.py,            *)
(* iter_chunks_with_lines).  A text is the sequence of the lengths of its  *)
(* lines in characters, a chunk the interval of characters it holds, from  *)
(* lo up to but not including hi, and the lines it says it is of.          *)
(***************************************************************************)
EXTENDS Naturals, Sequences, SequencesExt

CONSTANTS
    CharsPerToken,  \* 4 in approx_tokens
    TargetTokens, MinTokens, MaxTokens,
    LineLengths,    \* bounds of the texts that TLC cuts: the lengths of their
    MaxLines        \* lines, and the number of lines of the longest

ASSUME ChunkerAssumption ==
    /\ {CharsPerToken, TargetTokens, MinTokens, MaxTokens} \subseteq Nat \ {0}
    /\ MinTokens <= TargetTokens /\ TargetTokens <= MaxTokens
    /\ LineLengths \subseteq Nat \ {0} /\ MaxLines \in Nat

\* approx_tokens, of a number of characters.
Tokens(n) == IF n < CharsPerToken THEN 1 ELSE n \div CharsPerToken

Size(c) == c.hi - c.lo

\* The chunk being filled is empty when it has no characters.
Empty(at) == [lo |-> at, hi |-> at, first |-> 0, last |-> 0]
Start     == [done |-> <<>>, cur |-> Empty(0), at |-> 0, line |-> 0]

Flush(s) == IF Size(s.cur) = 0 THEN s
            ELSE [s EXCEPT !.done = Append(@, s.cur), !.cur = Empty(s.at)]

\* A line too long for any chunk is cut into pieces of the greatest size.
Slices(at, line, len) ==
    LET step == MaxTokens * CharsPerToken IN
    [i \in 1..((len + step - 1) \div step) |->
        [lo |-> at + (i - 1) * step,
         hi |-> at + (IF i * step < len THEN i * step ELSE len),
         first |-> line, last |-> line]]

Oversized(s, len) ==
    LET f == Flush(s) IN
    [f EXCEPT !.done = @ \o Slices(s.at, s.line + 1, len),
              !.cur = Empty(s.at + len), !.at = @ + len, !.line = @ + 1]

\* Any other line joins the chunk being filled, or the next one.
Fitting(s, len) ==
    LET f == IF Tokens(Size(s.cur) + len) > TargetTokens THEN Flush(s) ELSE s IN
    [f EXCEPT !.cur = [lo |-> f.cur.lo, hi |-> s.at + len, last |-> s.line + 1,
                       first |-> IF Size(f.cur) = 0 THEN s.line + 1 ELSE f.cur.first],
              !.at = @ + len, !.line = @ + 1]

TakeLine(s, len) ==
    IF Tokens(len) > MaxTokens THEN Oversized(s, len) ELSE Fitting(s, len)

\* MUTANT of Joined: the tail is dropped.
JoinedDropped(p, q) == p

Joined(p, q) == [p EXCEPT !.hi = q.hi, !.last = q.last]

\* The last chunk joins the one before it when it is small and both fit; the
\* two are held back until then.
MergeTail(c) ==
    LET n == Len(c) IN
    IF n >= 2 /\ Tokens(Size(c[n])) < MinTokens
              /\ Tokens(Size(c[n - 1]) + Size(c[n])) <= MaxTokens
      THEN Append(SubSeq(c, 1, n - 2), Joined(c[n - 1], c[n]))
      ELSE c

\* The loop over the lines: what is cut after each of them.
Scan(text) ==
    LET s[i \in 0..Len(text)] ==
            IF i = 0 THEN Start ELSE TakeLine(s[i - 1], text[i])
    IN  s

\* A text without lines gives one empty chunk.
ChunkLines(text) ==
    LET s == Flush(Scan(text)[Len(text)]) IN
    IF s.done = <<>> THEN <<[lo |-> 0, hi |-> 0, first |-> 1, last |-> 1]>>
    ELSE MergeTail(s.done)

-----------------------------------------------------------------------------
\* Where the lines of a text end: line i begins where line i - 1 ends.
LineEnds(text) ==
    LET at[i \in 0..Len(text)] == IF i = 0 THEN 0 ELSE at[i - 1] + text[i]
    IN  at

HoldsLines(text, c) ==
    /\ Size(c) > 0 /\ Tokens(Size(c)) <= MaxTokens
    /\ 1 <= c.first /\ c.first <= c.last /\ c.last <= Len(text)
    /\ LineEnds(text)[c.first - 1] <= c.lo /\ c.lo < LineEnds(text)[c.first]
    /\ LineEnds(text)[c.last - 1] < c.hi /\ c.hi <= LineEnds(text)[c.last]

\* Chunk c is ended for a reason: its last line is one that was cut into
\* pieces, or the first line of the next one would not have fitted.
CutDue(text, c, next) ==
    \/ Tokens(text[c.last]) > MaxTokens
    \/ Tokens(Size(c) + text[next.first]) > TargetTokens

\* The chunks are the text, in order and nothing twice; none is above the
\* ceiling; the lines each one says are the lines it holds; none ends before
\* it had to; and a last chunk that is too small is one that could not join
\* its predecessor, or two rests that make less than a token together.
WellCut(text) ==
    LET c == ChunkLines(text)
        n == Len(c)
    IN
    /\ c[1].lo = 0 /\ c[n].hi = LineEnds(text)[Len(text)]
    /\ \A i \in 1..(n - 1) : c[i].hi = c[i + 1].lo /\ CutDue(text, c[i], c[i + 1])
    /\ text # <<>> => \A i \in 1..n : HoldsLines(text, c[i])
    /\ n > 1 /\ Tokens(Size(c[n])) < MinTokens =>
        \/ Tokens(Size(c[n - 1]) + Size(c[n])) > MaxTokens
        \/ Size(c[n]) < CharsPerToken

ShortTexts == UNION {[1..n -> LineLengths] : n \in 0..MaxLines}
=============================================================================
