------------------------- MODULE TextSplitterProofs -------------------------
(***************************************************************************)
(* Proofs about split_text: for every chunk size, every text and every     *)
(* overlap that is small, no text is lost, the chunks are bounded and      *)
(* overlap, and each turn of the loop gets on.                             *)
(***************************************************************************)
EXTENDS TextSplitter, TLAPS

\* What a cut is: inside the text, no longer than a chunk, and more than
\* Overlap after start unless it ends the text or is a whole chunk.
LEMMA CutFacts ==
  ASSUME SplitterInv, ~finished, OverlapSmall,
         NEW to \in (start + 1)..length, CutsAt(to)
  PROVE  /\ to \in Nat /\ start < to /\ to <= length
         /\ to - start <= ChunkSize
         /\ to < length => to - start > Overlap
<1>0. /\ ChunkSize \in Nat /\ ChunkSize >= 20 /\ Overlap \in Nat
      /\ Overlap < ChunkSize /\ start \in Nat /\ length \in Nat
      /\ ends \subseteq Nat
  BY TextSplitterAssumption DEF SplitterInv, TypeOK
<1>1. to \in Nat /\ start < to /\ to <= length
  BY <1>0
<1>2. CASE \E p \in Candidates : FarEnough(p) /\ to = p + 1
  <2>1. PICK p \in Candidates : FarEnough(p) /\ to = p + 1
    BY <1>2
  <2>2. p \in Nat /\ p + 2 <= Limit /\ 20 * p > 20 * start + 11 * ChunkSize
    BY <1>0, <2>1 DEF Candidates, FarEnough
  <2>3. Limit <= start + ChunkSize
    BY <1>0 DEF Limit
  <2>4. Limit \in Nat
    BY <1>0 DEF Limit
  <2>5. to - start <= ChunkSize
    BY <1>0, <2>1, <2>2, <2>3, <2>4
  <2>6. to - start > Overlap
    BY <1>0, <2>1, <2>2 DEF OverlapSmall
  <2> QED
    BY <1>1, <2>5, <2>6
<1>3. CASE to = Limit
  BY <1>0, <1>1, <1>3 DEF Limit
<1> QED
  BY <1>2, <1>3 DEF CutsAt

LEMMA InitInv == ASSUME OverlapSmall, Init PROVE SplitterInv
<1>1. TypeOK
  BY TextSplitterAssumption
     DEF Init, TypeOK, ChunkRange
<1>2. chunks = << >> /\ start = 0 /\ length \in Nat /\ Covered = 0
  BY TextSplitterAssumption DEF Init, Covered
<1>3. finished <=> length = 0
  BY Zenon DEF Init
<1>4. NothingLost /\ BoundedAndOverlapping
  BY <1>2, <1>3 DEF NothingLost, BoundedAndOverlapping
<1> QED
  BY <1>1, <1>2, <1>3, <1>4 DEF SplitterInv

LEMMA TurnInv == ASSUME OverlapSmall, SplitterInv, Turn PROVE SplitterInv'
<1>0. PICK to \in (start + 1)..length :
        /\ CutsAt(to)
        /\ chunks' = Append(chunks, [from |-> start, to |-> to])
        /\ finished' = (to >= length)
        /\ start' = IF to >= length THEN start ELSE NextStart(to)
  BY DEF Turn
<1>1. UNCHANGED <<length, ends>> /\ ~finished
  BY DEF Turn
<1>2. /\ to \in Nat /\ start < to /\ to <= length
      /\ to - start <= ChunkSize
      /\ to < length => to - start > Overlap
  BY <1>0, <1>1, CutFacts
<1>3. /\ start \in Nat /\ length \in Nat /\ Overlap \in Nat /\ ChunkSize \in Nat
      /\ chunks \in Seq(ChunkRange) /\ Len(chunks) \in Nat
      /\ ends \subseteq Nat
  BY TextSplitterAssumption DEF SplitterInv, TypeOK
<1>4. \A i \in 1..Len(chunks) : chunks[i].from \in Nat /\ chunks[i].to \in Nat
  <2> TAKE i \in 1..Len(chunks)
  <2>1. chunks[i] \in ChunkRange
    BY <1>3
  <2> QED
    BY <2>1 DEF ChunkRange
<1> DEFINE new == [from |-> start, to |-> to]
<1>f. finished' <=> to >= length
  BY <1>0, Zenon
<1>5. /\ new \in ChunkRange /\ new.from = start /\ new.to = to
      /\ chunks' \in Seq(ChunkRange)
      /\ Len(chunks') = Len(chunks) + 1
      /\ chunks' # << >>
      /\ chunks'[Len(chunks) + 1] = new
      /\ \A i \in 1..Len(chunks) : chunks'[i] = chunks[i]
  BY <1>0, <1>2, <1>3 DEF ChunkRange
<1>6. Covered' = to
  BY <1>3, <1>5 DEF Covered
<1>7. start' \in Nat /\ (to < length => start' = to - Overlap)
  BY <1>0, <1>2, <1>3 DEF NextStart
<1>8. TypeOK'
  BY <1>0, <1>1, <1>3, <1>5, <1>7 DEF TypeOK
<1>9. Covered \in Nat /\ start <= Covered
  BY <1>1, <1>3, <1>4 DEF SplitterInv, Covered
<1>10. NothingLost'
  <2>1. ASSUME NEW p \in 0..(to - 1)
        PROVE  \E i \in DOMAIN chunks' : chunks'[i].from <= p /\ p < chunks'[i].to
    <3>1. CASE p < Covered
      <4>1. p \in 0..(Covered - 1)
        BY <1>2, <1>9, <3>1
      <4>2. PICK i \in DOMAIN chunks : chunks[i].from <= p /\ p < chunks[i].to
        BY <4>1 DEF SplitterInv, NothingLost
      <4>3. i \in 1..Len(chunks) /\ i \in DOMAIN chunks'
        BY <1>3, <1>5
      <4> QED
        BY <1>5, <4>2, <4>3
    <3>2. CASE ~(p < Covered)
      <4>1. start <= p /\ p < to
        BY <1>2, <1>3, <1>9, <3>2
      <4>2. Len(chunks) + 1 \in DOMAIN chunks'
        BY <1>3, <1>5
      <4> QED
        BY <1>5, <4>1, <4>2
    <3> QED
      BY <3>1, <3>2
  <2>2. finished' => to = length
    BY <1>f, <1>2, <1>3
  <2> QED
    BY <1>1, <1>6, <2>1, <2>2 DEF NothingLost
<1>11. BoundedAndOverlapping'
  <2>1. ASSUME NEW i \in DOMAIN chunks'
        PROVE  /\ chunks'[i].to - chunks'[i].from <= ChunkSize
               /\ i > 1 => chunks'[i - 1].to - chunks'[i].from = Overlap
    <3>1. i \in 1..(Len(chunks) + 1)
      BY <1>3, <1>5
    <3>2. CASE i <= Len(chunks)
      <4>1. i \in DOMAIN chunks /\ i \in 1..Len(chunks)
        BY <1>3, <3>1, <3>2
      <4>2. i > 1 => i - 1 \in 1..Len(chunks)
        BY <1>3, <3>1, <3>2
      <4> QED
        BY <1>5, <4>1, <4>2 DEF SplitterInv, BoundedAndOverlapping
    <3>3. CASE i = Len(chunks) + 1
      <4>1. chunks'[i].to - chunks'[i].from <= ChunkSize
        BY <1>2, <1>5, <3>3
      <4>2. CASE i > 1
        <5>1. chunks # << >> /\ i - 1 = Len(chunks) /\ Len(chunks) \in 1..Len(chunks)
          BY <1>3, <3>3, <4>2
        <5>2. start = chunks[Len(chunks)].to - Overlap
          BY <1>1, <5>1 DEF SplitterInv, Covered
        <5>3. chunks[Len(chunks)].to - start = Overlap
          BY <1>3, <1>4, <5>1, <5>2
        <5> QED
          BY <1>5, <3>3, <4>1, <5>1, <5>3
      <4> QED
        BY <4>1, <4>2
    <3> QED
      BY <1>3, <3>1, <3>2, <3>3
  <2> QED
    BY <2>1 DEF BoundedAndOverlapping
<1>12. /\ Covered' <= length'
       /\ finished' => Covered' = length'
       /\ ~finished' => /\ Covered' < length'
                        /\ start' = IF chunks' = << >> THEN 0 ELSE Covered' - Overlap
  BY <1>f, <1>1, <1>2, <1>3, <1>5, <1>6, <1>7
<1> QED
  BY <1>8, <1>10, <1>11, <1>12 DEF SplitterInv

LEMMA StutterInv == ASSUME SplitterInv, UNCHANGED vars PROVE SplitterInv'
BY DEF SplitterInv, TypeOK, Covered, NothingLost, BoundedAndOverlapping, vars

\* Every turn of the loop that does not end it moves start on.
LEMMA TurnGetsOn ==
  ASSUME OverlapSmall, SplitterInv, Turn PROVE finished' \/ start' > start
<1>0. PICK to \in (start + 1)..length :
        /\ CutsAt(to)
        /\ finished' = (to >= length)
        /\ start' = IF to >= length THEN start ELSE NextStart(to)
  BY DEF Turn
<1>1. ~finished
  BY DEF Turn
<1>2. /\ to \in Nat /\ start < to /\ to <= length
      /\ to < length => to - start > Overlap
  BY <1>0, <1>1, CutFacts
<1>3. start \in Nat /\ length \in Nat /\ Overlap \in Nat
  BY TextSplitterAssumption DEF SplitterInv, TypeOK
<1>4. CASE to >= length
  BY <1>0, <1>4, Zenon
<1>5. CASE ~(to >= length)
  BY <1>0, <1>2, <1>3, <1>5 DEF NextStart
<1> QED
  BY <1>4, <1>5

\* split_text keeps its place: start is one overlap before the last cut, and
\* the chunks so far cover the text up to there.
THEOREM SplitterInvariant == ASSUME OverlapSmall PROVE Spec => []SplitterInv
<1>1. Init => SplitterInv
  BY InitInv
<1>2. SplitterInv /\ [Next]_vars => SplitterInv'
  BY TurnInv, StutterInv DEF Next, Returned
<1> QED
  BY <1>1, <1>2, PTL DEF Spec

\* No character of a text is in none of its chunks.
THEOREM TextIsNeverLost == ASSUME OverlapSmall PROVE Spec => []NothingLost
<1>1. SplitterInv => NothingLost
  BY DEF SplitterInv
<1> QED
  BY <1>1, SplitterInvariant, PTL

\* No chunk is longer than chunk_size, and neighbours share overlap characters.
THEOREM ChunksBounded == ASSUME OverlapSmall PROVE Spec => []BoundedAndOverlapping
<1>1. SplitterInv => BoundedAndOverlapping
  BY DEF SplitterInv
<1> QED
  BY <1>1, SplitterInvariant, PTL

\* The loop gets on at every turn, for the default sizes and all like them.
THEOREM LoopGetsOn == ASSUME OverlapSmall PROVE Spec => GetsOn
<1>1. SplitterInv /\ [Next]_vars => [finished' \/ start' > start]_vars
  BY TurnGetsOn DEF Next, Returned
<1> QED
  BY <1>1, SplitterInvariant, PTL DEF Spec, GetsOn
=============================================================================
