---------------------------- MODULE TextSplitter ----------------------------
(***************************************************************************)
(* app/rag_engine.py: split_text.  A text is its length and the positions  *)
(* at which a sentence ends (". ", "? " or "! "); a chunk is the range of  *)
(* positions it is cut from.  One step is one turn of the while loop.      *)
(*                                                                         *)
(* Positions count from 0 and "to" is exclusive, as in a Python slice.     *)
(* strip() of a chunk only takes the one space a cut may leave at an end   *)
(* (the text has single spaces), so no chunk of 20 characters is empty.    *)
(***************************************************************************)
EXTENDS Integers, Sequences

CONSTANTS ChunkSize, Overlap,     \* 1100 and 160 unless the caller says otherwise
          MaxLength,              \* bound: the longest text
          TextEnds                \* the sets of sentence ends a text may have

\* What split_text accepts without a ValueError.
ASSUME TextSplitterAssumption ==
  /\ ChunkSize \in Nat /\ ChunkSize >= 20
  /\ Overlap \in Nat /\ Overlap < ChunkSize
  /\ MaxLength \in Nat
  /\ TextEnds \subseteq SUBSET Nat

VARIABLES
  length,       \* len(text) after white space is collapsed
  ends,         \* where a sentence ends: text.startswith(". ", p) or the like
  start,        \* the local variable "start"
  chunks,       \* the ranges appended so far
  finished      \* the loop is over

vars == <<length, ends, start, chunks, finished>>

ChunkRange == [from : Nat, to : Nat]

\* A sentence end is two characters long, and the text does not end in a space.
Init ==
  /\ length \in 0..MaxLength
  /\ ends \in {E \in TextEnds : \A p \in E : p + 3 <= length}
  /\ start = 0
  /\ chunks = << >>
  /\ finished = (length = 0)
-----------------------------------------------------------------------------
Limit == IF start + ChunkSize < length THEN start + ChunkSize ELSE length

\* The places rfind(..., start, Limit) may return.
Candidates == {p \in ends : start <= p /\ p + 2 <= Limit}

\* boundary > start + chunk_size * 0.55
\* (In floating point; the two agree for the default sizes and the checked ones.)
FarEnough(p) == 20 * p > 20 * start + 11 * ChunkSize

\* A plausible slip: any sentence end will do.
CutsAtAny(to) ==
  \/ \E p \in Candidates : (\A q \in Candidates : q <= p) /\ to = p + 1
  \/ Candidates = {} /\ to = Limit

\* Where the chunk that begins at start ends.
CutsAt(to) ==
  \/ \E p \in Candidates : (\A q \in Candidates : q <= p) /\ FarEnough(p) /\ to = p + 1
  \/ (\A p \in Candidates : ~FarEnough(p)) /\ to = Limit

\* A plausible slip: the next chunk begins a whole chunk later.
NextStartBySize(to) == start + ChunkSize - Overlap

NextStart(to) == IF to - Overlap > 0 THEN to - Overlap ELSE 0

\* A plausible slip: a rest no longer than the overlap is taken as covered.
TurnLeavingRest ==
  /\ ~finished
  /\ \E to \in (start + 1)..length :
       /\ CutsAt(to)
       /\ chunks' = Append(chunks, [from |-> start, to |-> to])
       /\ finished' = (to + Overlap >= length)
       /\ start' = IF to + Overlap >= length THEN start ELSE NextStart(to)
  /\ UNCHANGED <<length, ends>>

Turn ==
  /\ ~finished
  /\ \E to \in (start + 1)..length :
       /\ CutsAt(to)
       /\ chunks' = Append(chunks, [from |-> start, to |-> to])
       /\ finished' = (to >= length)
       /\ start' = IF to >= length THEN start ELSE NextStart(to)
  /\ UNCHANGED <<length, ends>>

Returned == finished /\ UNCHANGED vars

Next == Turn \/ Returned

Spec == Init /\ [][Next]_vars
-----------------------------------------------------------------------------
Covered == IF chunks = << >> THEN 0 ELSE chunks[Len(chunks)].to

\* No text is lost: every position before the last cut is in some chunk, and
\* the loop ends at the end of the text only.
NothingLost ==
  /\ \A p \in 0..(Covered - 1) :
       \E i \in DOMAIN chunks : chunks[i].from <= p /\ p < chunks[i].to
  /\ finished => Covered = length

\* No chunk is longer than asked, and each repeats the last Overlap characters
\* of the one before it, wherever that one was cut.
BoundedAndOverlapping ==
  \A i \in DOMAIN chunks :
    /\ chunks[i].to - chunks[i].from <= ChunkSize
    /\ i > 1 => chunks[i - 1].to - chunks[i].from = Overlap

\* Every turn that does not end the loop moves start on, so the loop ends.
GetsOn == [][finished' \/ start' > start]_vars

\* The overlap is short enough for a sentence cut: the least such cut, one past
\* a boundary beyond 55 % of the chunk, lies more than Overlap after start.
OverlapSmall == 20 * Overlap <= 11 * ChunkSize + 20

(* The inductive invariant behind them, for an overlap that is small.      *)

TypeOK ==
  /\ length \in Nat
  /\ ends \subseteq Nat
  /\ start \in Nat
  /\ chunks \in Seq(ChunkRange)
  /\ finished \in BOOLEAN

\* The loop variable is Overlap before the last cut, inside the text, and
\* what is cut so far covers the text up to there.
SplitterInv ==
  /\ TypeOK
  /\ Covered <= length
  /\ finished => Covered = length
  /\ ~finished => /\ Covered < length
                  /\ start = IF chunks = << >> THEN 0 ELSE Covered - Overlap
  /\ NothingLost
  /\ BoundedAndOverlapping
=============================================================================
