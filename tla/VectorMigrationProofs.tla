------------------------- MODULE VectorMigrationProofs -------------------------
(***************************************************************************)
(* Proofs about VectorMigration, for any rows, batch size, importers and   *)
(* number of changes and damages.                                          *)
(***************************************************************************)
EXTENDS VectorMigration, SequenceTheorems, FiniteSetTheorems, TLAPS

(* Sequences. *)

LEMMA PrefixOfConcat ==
  ASSUME NEW S, NEW s \in Seq(S), NEW t \in Seq(S), NEW n \in 0..Len(s)
  PROVE  SubSeq(s \o t, 1, n) = SubSeq(s, 1, n)
<1>1. CASE n = 0
  BY <1>1, SubSeqEmpty
<1>2. CASE n > 0
  BY <1>2, SubSeqOfConcat1
<1>3. QED
  BY <1>1, <1>2

LEMMA ElementsOfPrefix ==
  ASSUME NEW S, NEW s \in Seq(S), NEW n \in 0..Len(s)
  PROVE  ToSet(SubSeq(s, 1, n)) = {s[i] : i \in 1..n}
<1> DEFINE r == SubSeq(s, 1, n)
<1>1. /\ r \in Seq(S) /\ Len(r) = n
      /\ \A i \in 1..n : r[i] = s[i]
  BY SubSeqProperties, ElementOfSeq
<1> HIDE DEF r
<1>2. DOMAIN r = 1..n
  BY <1>1, LenProperties
<1>3. ToSet(r) = {s[i] : i \in 1..n}
  BY <1>1, <1>2 DEF ToSet
<1>4. QED
  BY <1>3 DEF r

LEMMA NextOfPrefix ==
  ASSUME NEW S, NEW s \in Seq(S), NEW n \in Nat, n < Len(s)
  PROVE  /\ s[n + 1] \in S
         /\ ToSet(SubSeq(s, 1, n + 1)) = ToSet(SubSeq(s, 1, n)) \cup {s[n + 1]}
<1>1. n \in 0..Len(s) /\ n + 1 \in 0..Len(s) /\ n + 1 \in 1..Len(s)
  BY LenProperties
<1>2. {s[i] : i \in 1..n + 1} = {s[i] : i \in 1..n} \cup {s[n + 1]}
  <2>1. 1..n + 1 = (1..n) \cup {n + 1}
    OBVIOUS
  <2>2. QED
    BY <2>1
<1>3. QED
  BY <1>1, <1>2, ElementsOfPrefix, ElementOfSeq

LEMMA ElementsOfSeq == ASSUME NEW S, NEW s \in Seq(S) PROVE ToSet(s) \subseteq S
  BY ElementOfSeq DEF ToSet

\* Reading one batch more of rows that stay as they are.
LEMMA NextBatch ==
  ASSUME NEW S, NEW s \in Seq(S), NEW m \in 0..Len(s), NEW n \in m..Len(s)
  PROVE  SubSeq(s, 1, m) \o SubSeq(s, m + 1, n) = SubSeq(s, 1, n)
  BY ConcatAdjacentSubSeq

LEMMA AppendKeepsDistinct ==
  ASSUME NEW S, NEW s \in Seq(S), NoDuplicates(s), NEW e \in S \ ToSet(s)
  PROVE  NoDuplicates(Append(s, e))
  BY AppendProperties DEF NoDuplicates, ToSet

LEMMA RemovalKeepsDistinct ==
  ASSUME NEW S, NEW s \in Seq(S), NEW k \in DOMAIN s
  PROVE  /\ RemoveAt(s, k) \in Seq(S) /\ Len(RemoveAt(s, k)) = Len(s) - 1
         /\ NoDuplicates(s) => NoDuplicates(RemoveAt(s, k))
<1> DEFINE low == SubSeq(s, 1, k - 1)
           high == SubSeq(s, k + 1, Len(s))
<1>1. k \in 1..Len(s) /\ Len(s) \in Nat
  OBVIOUS
<1>2. /\ low \in Seq(S) /\ Len(low) = k - 1
      /\ \A i \in 1..k - 1 : low[i] = s[i]
  BY <1>1, SubSeqProperties, ElementOfSeq
<1>3. /\ high \in Seq(S) /\ Len(high) = Len(s) - k
      /\ \A i \in 1..Len(s) - k : high[i] = s[k + i]
  <2>1. \A i \in k + 1..Len(s) : s[i] \in S
    BY <1>1, ElementOfSeq
  <2>2. QED
    BY <1>1, <2>1, SubSeqProperties
<1> HIDE DEF low, high
<1>4. /\ low \o high \in Seq(S) /\ Len(low \o high) = Len(s) - 1
      /\ \A i \in 1..Len(s) - 1 : (low \o high)[i] = s[IF i < k THEN i ELSE i + 1]
  BY <1>1, <1>2, <1>3, ConcatProperties, SMTT(30)
<1>5. RemoveAt(s, k) = low \o high
  BY DEF RemoveAt, low, high
<1>6. NoDuplicates(s) => NoDuplicates(low \o high)
  <2> SUFFICES ASSUME NoDuplicates(s),
                      NEW i \in 1..Len(s) - 1, NEW j \in 1..Len(s) - 1,
                      (low \o high)[i] = (low \o high)[j]
               PROVE  i = j
    BY <1>4, LenProperties, ZenonT(30) DEF NoDuplicates
  <2> DEFINE at(x) == IF x < k THEN x ELSE x + 1
  <2>1. at(i) \in DOMAIN s /\ at(j) \in DOMAIN s
    BY <1>1
  <2>2. (low \o high)[i] = s[at(i)] /\ (low \o high)[j] = s[at(j)]
    BY <1>4
  <2>3. at(i) = at(j)
    BY <2>1, <2>2 DEF NoDuplicates
  <2>4. QED
    BY <1>1, <2>3
<1>7. QED
  BY <1>4, <1>5, <1>6

(* The export. *)

\* A step of the export, or what befalls its file, leaves to the imports what
\* they have read.
LEMMA ImportsStay ==
  ASSUME MigrationInv, UNCHANGED <<importVars, target>>,
         exported' = exported \/ exported = None,
         \A p \in Importers : pc[p] = "reading" =>
           /\ exporting' # "idle" /\ position[p] <= Len(file'.rows)
           /\ SubSeq(file'.rows, 1, position[p]) = SubSeq(file.rows, 1, position[p])
  PROVE  ImportsFollowFile' /\ PublishedIsWhole' /\ OneImportPublishes' /\ NoDebris'
  BY DEF MigrationInv, ImportsFollowFile, SeenRows, PublishedIsWhole, OneImportPublishes,
         NoDebris, Published, importVars

LEMMA ExportBeginKeepsInv == ASSUME MigrationInv, ExportBegin PROVE MigrationInv'
<1> USE DEF MigrationInv, ExportBegin
<1>1. << >> \in Seq(Ids) /\ SubSeq(source, 1, 0) = << >> /\ Len(source) \in Nat
  BY SubSeqEmpty, LenProperties DEF TypeOK
<1>2. TypeOK'
  BY <1>1 DEF TypeOK, importVars, NoDuplicates, Files
<1>3. FooterIsOfExport'
  BY VectorMigrationAssumption DEF FooterIsOfExport
<1>4. offset = 0
  BY DEF ExportFollowsSource
<1>5. ExportFollowsSource'
  BY <1>1, <1>4 DEF ExportFollowsSource, TypeOK
<1>6. QED
  BY <1>2, <1>3, <1>5, ImportsStay DEF ImportsFollowFile

LEMMA ExportBatchKeepsInv == ASSUME MigrationInv, ExportBatch PROVE MigrationInv'
<1> USE DEF MigrationInv, ExportBatch
<1> DEFINE last == IF offset + BatchSize < Len(source) THEN offset + BatchSize ELSE Len(source)
           more == SubSeq(source, offset + 1, last)
<1>1. /\ source \in Seq(Ids) /\ Len(source) \in Nat /\ last \in 0..Len(source)
      /\ file.rows \in Seq(Ids) /\ Len(file.rows) \in Nat
      /\ file \in Files
      /\ BatchSize \in Nat \ {0} /\ offset \in Nat /\ total \in Nat
  BY VectorMigrationAssumption DEF TypeOK, Files
<1>2. more \in Seq(Ids)
  <2>1. \A i \in offset + 1..last : source[i] \in Ids
    BY <1>1, ElementOfSeq
  <2>2. QED
    BY <1>1, <2>1, SubSeqProperties
<1>3. file' = [file EXCEPT !.rows = file.rows \o more]
  OBVIOUS
<1> HIDE DEF more
<1>4. /\ file'.rows = file.rows \o more /\ file'.footer = file.footer
      /\ file' \in Files
      /\ Len(file'.rows) = Len(file.rows) + Len(more) /\ Len(more) \in Nat
  <2>1. /\ file.rows \o more \in Seq(Ids)
        /\ Len(file.rows \o more) = Len(file.rows) + Len(more) /\ Len(more) \in Nat
    BY <1>1, <1>2, ConcatProperties, LenProperties
  <2>2. QED
    BY <1>1, <1>3, <2>1 DEF Files
<1>5. TypeOK'
  BY <1>1, <1>4 DEF TypeOK, importVars, NoDuplicates
<1>6. FooterIsOfExport'
  BY <1>4 DEF FooterIsOfExport, TypeOK
<1>7. ASSUME changed = {}
      PROVE  file'.rows = SubSeq(source, 1, IF offset' < total THEN offset' ELSE total)
  <2>1. /\ total = Len(source) /\ offset < total
        /\ file.rows = SubSeq(source, 1, offset)
    BY <1>7 DEF ExportFollowsSource
  <2>2. SubSeq(source, 1, offset) \o SubSeq(source, offset + 1, last) = SubSeq(source, 1, last)
    <3>1. offset \in 0..Len(source) /\ last \in offset..Len(source)
      BY <1>1, <2>1
    <3> HIDE DEF last
    <3>2. QED
      BY <1>1, <3>1, NextBatch
  <2>3. last = IF offset' < total THEN offset' ELSE total
    BY <1>1, <2>1
  <2>4. QED
    BY <1>4, <2>1, <2>2, <2>3 DEF more
<1>8. ExportFollowsSource'
  BY <1>7 DEF ExportFollowsSource
<1>9. \A p \in Importers : pc[p] = "reading" =>
        /\ position[p] <= Len(file'.rows)
        /\ SubSeq(file'.rows, 1, position[p]) = SubSeq(file.rows, 1, position[p])
  <2> SUFFICES ASSUME NEW p \in Importers, pc[p] = "reading"
               PROVE  /\ position[p] <= Len(file'.rows)
                      /\ SubSeq(file'.rows, 1, position[p]) = SubSeq(file.rows, 1, position[p])
    OBVIOUS
  <2>1. position[p] \in 0..Len(file.rows)
    BY <1>1 DEF ImportsFollowFile, TypeOK
  <2>2. SubSeq(file.rows \o more, 1, position[p]) = SubSeq(file.rows, 1, position[p])
    BY <1>1, <1>2, <2>1, PrefixOfConcat
  <2>3. position[p] <= Len(file.rows) + Len(more)
    BY <1>1, <1>4, <2>1
  <2>4. QED
    BY <1>4, <2>2, <2>3
<1>10. QED
  BY <1>5, <1>6, <1>8, <1>9, ImportsStay

LEMMA ExportEndKeepsInv == ASSUME MigrationInv, ExportEnd PROVE MigrationInv'
<1> USE DEF MigrationInv, ExportEnd
<1>1. file \in Files /\ source \in Seq(Ids)
  BY DEF TypeOK
<1>2. exported = None /\ file.footer = None
  BY <1>1, VectorMigrationAssumption DEF FooterIsOfExport
<1>3. CASE exporting' = "done"
  <2>1. /\ Len(file.rows) = total /\ Len(source) = total
        /\ file' = [file EXCEPT !.footer = file.rows] /\ exported' = ToSet(file.rows)
    BY <1>3
  <2>2. ToSet(file.rows) \subseteq Ids /\ ToSet(file.rows) # None /\ file.rows # None
    BY <1>1, ElementsOfSeq, VectorMigrationAssumption DEF Files
  <2>3. TypeOK'
    BY <1>1, <1>3, <2>1, <2>2 DEF TypeOK, importVars, NoDuplicates, Files
  <2>4. FooterIsOfExport'
    BY <1>1, <1>3, <2>1, <2>2 DEF FooterIsOfExport
  <2>5. changed = {} => ToSet(file.rows) = ToSet(atStart)
    <3> SUFFICES ASSUME changed = {} PROVE ToSet(file.rows) = ToSet(atStart)
      OBVIOUS
    <3>1. /\ source = atStart /\ total = Len(source) /\ file.rows = SubSeq(source, 1, total)
      BY <2>1 DEF ExportFollowsSource, TypeOK
    <3>2. QED
      BY <1>1, <3>1, SubSeqFull
  <2>6. ExportFollowsSource'
    BY <1>3, <2>1, <2>5 DEF ExportFollowsSource, TypeOK
  <2>7. QED
    BY <1>1, <1>2, <1>3, <2>1, <2>3, <2>4, <2>6, ImportsStay DEF ImportsFollowFile, TypeOK
<1>4. CASE exporting' = "failed" /\ UNCHANGED <<file, exported>>
  <2>1. TypeOK'
    BY <1>4 DEF TypeOK, importVars, NoDuplicates
  <2>2. FooterIsOfExport' /\ ExportFollowsSource'
    BY <1>2, <1>4 DEF FooterIsOfExport, ExportFollowsSource
  <2>3. QED
    BY <1>4, <2>1, <2>2, ImportsStay DEF ImportsFollowFile
<1>5. QED
  BY <1>3, <1>4

LEMMA ExportCrashKeepsInv == ASSUME MigrationInv, ExportCrash PROVE MigrationInv'
<1> USE DEF MigrationInv, ExportCrash
<1>1. TypeOK'
  BY DEF TypeOK, importVars, NoDuplicates
<1>2. FooterIsOfExport' /\ ExportFollowsSource'
  BY DEF FooterIsOfExport, ExportFollowsSource
<1>3. QED
  BY <1>1, <1>2, ImportsStay DEF ImportsFollowFile

LEMMA ChangeKeepsInv == ASSUME MigrationInv, Change PROVE MigrationInv'
<1> USE DEF MigrationInv, Change
<1>1. /\ source \in Seq(Ids) /\ Len(source) \in Nat /\ NoDuplicates(source)
      /\ changed \subseteq {"inserted", "deleted"} /\ exporting = "batches"
  BY LenProperties DEF TypeOK
<1>2. FooterIsOfExport'
  BY DEF FooterIsOfExport
<1>3. ASSUME source' \in Seq(Ids), NoDuplicates(source'),
             \/ changed' = changed \cup {"inserted"} /\ Len(source') = Len(source) + 1
             \/ changed' = changed \cup {"deleted"} /\ Len(source') = Len(source) - 1
      PROVE  MigrationInv'
  <2>1. TypeOK'
    BY <1>3 DEF TypeOK, importVars, NoDuplicates
  <2>2. changed = {} => Len(source) = total
    BY <1>1 DEF ExportFollowsSource
  <2>3. changed' # {}
    BY <1>3
  <2>4. changed' = {"inserted"} => Len(source') > total
    <3> SUFFICES ASSUME changed' = {"inserted"} PROVE Len(source') > total
      OBVIOUS
    <3>1. changed \in {{}, {"inserted"}} /\ Len(source') = Len(source) + 1
      BY <1>1, <1>3
    <3>2. QED
      BY <1>1, <2>2, <3>1 DEF ExportFollowsSource, TypeOK
  <2>5. changed' = {"deleted"} => Len(source') < total
    <3> SUFFICES ASSUME changed' = {"deleted"} PROVE Len(source') < total
      OBVIOUS
    <3>1. changed \in {{}, {"deleted"}} /\ Len(source') = Len(source) - 1
      <4>1. "inserted" \notin changed' /\ "inserted" \notin changed
        BY <1>3
      <4>2. QED
        BY <1>1, <1>3, <4>1
    <3>2. QED
      BY <1>1, <2>2, <3>1 DEF ExportFollowsSource, TypeOK
  <2>6. ExportFollowsSource'
    BY <1>1, <2>3, <2>4, <2>5 DEF ExportFollowsSource
  <2>7. QED
    BY <1>2, <2>1, <2>6, ImportsStay DEF ImportsFollowFile
<1>4. ASSUME NEW id \in Ids \ ToSet(source), source' = Append(source, id),
             changed' = changed \cup {"inserted"}
      PROVE  MigrationInv'
  BY <1>1, <1>3, <1>4, AppendProperties, AppendKeepsDistinct
<1>5. ASSUME NEW i \in DOMAIN source, source' = RemoveAt(source, i),
             changed' = changed \cup {"deleted"}
      PROVE  MigrationInv'
  BY <1>1, <1>3, <1>5, RemovalKeepsDistinct
<1>6. QED
  BY <1>4, <1>5

LEMMA DamageKeepsInv == ASSUME MigrationInv, Damage PROVE MigrationInv'
<1> USE DEF MigrationInv, Damage
<1>1. /\ exporting # "idle" /\ exporting # "batches"
      /\ file \in Files
  BY DEF TypeOK
<1>2. ASSUME file' \in Files,
             file'.footer \in {None, file.footer}
      PROVE  MigrationInv'
  <2>1. TypeOK'
    BY <1>1, <1>2 DEF TypeOK, importVars, NoDuplicates
  <2>2. FooterIsOfExport' /\ ExportFollowsSource'
    BY <1>1, <1>2 DEF FooterIsOfExport, ExportFollowsSource
  <2>3. QED
    BY <2>1, <2>2, ImportsStay
<1>3. CASE \/ file' = [file EXCEPT !.footer = None, !.tail = FALSE]
           \/ file' = [file EXCEPT !.tail = TRUE]
  BY <1>1, <1>2, <1>3 DEF Files
<1>4. ASSUME NEW i \in DOMAIN file.rows, NEW id \in Ids, file' = [file EXCEPT !.rows[i] = id]
      PROVE  MigrationInv'
  <2>1. [file.rows EXCEPT ![i] = id] \in Seq(Ids)
    BY <1>1, ExceptSeq DEF Files
  <2>2. file' = [file EXCEPT !.rows = [file.rows EXCEPT ![i] = id]]
    BY <1>4
  <2>3. QED
    BY <1>1, <1>2, <2>1, <2>2 DEF Files
<1>5. ASSUME NEW i \in DOMAIN file.rows, file' = [file EXCEPT !.rows = RemoveAt(file.rows, i)]
      PROVE  MigrationInv'
  <2>1. RemoveAt(file.rows, i) \in Seq(Ids)
    BY <1>1, RemovalKeepsDistinct DEF Files
  <2>2. QED
    BY <1>1, <1>2, <1>5, <2>1 DEF Files
<1>6. QED
  BY <1>3, <1>4, <1>5

(* The imports. *)

\* A step of an import, or of the application, leaves the export alone.
LEMMA ExportStays ==
  ASSUME MigrationInv, UNCHANGED exportVars
  PROVE  FooterIsOfExport' /\ ExportFollowsSource'
  BY DEF MigrationInv, exportVars, FooterIsOfExport, ExportFollowsSource

\* What a step of import p has to keep, besides leaving the others alone.
LEMMA OtherImportsStay ==
  ASSUME MigrationInv, UNCHANGED exportVars, TypeOK',
         NEW p \in Importers,
         \A q \in Importers \ {p} :
           pc'[q] = pc[q] /\ staging'[q] = staging[q] /\ batch'[q] = batch[q] /\ position'[q] = position[q],
         pc'[p] = "reading" =>
           /\ exporting # "idle" /\ position'[p] <= Len(file.rows) /\ staging'[p] # None
           /\ staging'[p] \cup batch'[p] = ToSet(SubSeq(file.rows, 1, position'[p])),
         pc'[p] = "flush" =>
           exported # None /\ staging'[p] # None /\ staging'[p] \cup batch'[p] = exported,
         pc'[p] \in {"closed", "rename"} => exported # None /\ staging'[p] = exported,
         pc'[p] # "idle",
         pc'[p] \in {"ok", "failed"} => staging'[p] = None
  PROVE  FooterIsOfExport' /\ ExportFollowsSource' /\ ImportsFollowFile' /\ NoDebris'
<1>1. FooterIsOfExport' /\ ExportFollowsSource'
  BY ExportStays
<1>2. NoDebris'
  BY DEF MigrationInv, NoDebris
<1>3. ImportsFollowFile'
  BY DEF MigrationInv, ImportsFollowFile, SeenRows, exportVars
<1>4. QED
  BY <1>1, <1>2, <1>3

\* An import that does not rename leaves the target, and nobody succeeds.
LEMMA TargetStays ==
  ASSUME MigrationInv, UNCHANGED <<exportVars, target>>,
         \A q \in Importers : pc'[q] = "ok" => pc[q] = "ok"
  PROVE  PublishedIsWhole' /\ OneImportPublishes'
  BY DEF MigrationInv, exportVars, PublishedIsWhole, OneImportPublishes, Published

LEMMA ImportBeginKeepsInv ==
  ASSUME MigrationInv, NEW p \in Importers, ImportBegin(p) PROVE MigrationInv'
<1> USE DEF MigrationInv, ImportBegin, Goto
<1>1. /\ pc[p] = "idle" /\ batch[p] = {} /\ position[p] = 0 /\ staging[p] = None
      /\ None # {} /\ UNCHANGED exportVars
  BY VectorMigrationAssumption DEF ImportsFollowFile
<1>2. exporting # "idle" =>
        /\ Len(file.rows) \in Nat
        /\ ToSet(SubSeq(file.rows, 1, 0)) = {}
  <2>1. exporting # "idle" => file.rows \in Seq(Ids)
    BY DEF TypeOK, Files
  <2>2. exporting # "idle" => ToSet(SubSeq(file.rows, 1, 0)) = {file.rows[i] : i \in 1..0}
    BY <2>1, ElementsOfPrefix, LenProperties
  <2>3. QED
    BY <2>1, <2>2
<1>3. TypeOK'
  BY <1>1 DEF TypeOK, Labels, exportVars, NoDuplicates
<1>4. file # None => exporting # "idle"
  BY DEF TypeOK
<1>5. PublishedIsWhole' /\ OneImportPublishes'
  BY <1>1, TargetStays DEF TypeOK
<1>6. \A q \in Importers \ {p} :
        pc'[q] = pc[q] /\ staging'[q] = staging[q] /\ batch'[q] = batch[q] /\ position'[q] = position[q]
  BY DEF TypeOK
<1>7. CASE pc' = [pc EXCEPT ![p] = "failed"] /\ UNCHANGED <<staging, batch, position>>
  BY <1>1, <1>3, <1>5, <1>6, <1>7, OtherImportsStay DEF TypeOK
<1>8. CASE /\ pc' = [pc EXCEPT ![p] = IF file = None THEN "failing" ELSE "reading"]
           /\ staging' = [staging EXCEPT ![p] = {}] /\ UNCHANGED <<batch, position>>
  <2>1. /\ pc'[p] = (IF file = None THEN "failing" ELSE "reading")
        /\ staging'[p] = {} /\ batch'[p] = {} /\ position'[p] = 0
    BY <1>1, <1>8 DEF TypeOK
  <2>2. pc'[p] = "reading" =>
          /\ exporting # "idle" /\ position'[p] <= Len(file.rows)
          /\ staging'[p] \cup batch'[p] = ToSet(SubSeq(file.rows, 1, position'[p]))
    BY <1>2, <1>4, <2>1
  <2>3. QED
    BY <1>1, <1>3, <1>5, <1>6, <2>1, <2>2, OtherImportsStay
<1>9. QED
  BY <1>7, <1>8

LEMMA ReadRowKeepsInv ==
  ASSUME MigrationInv, NEW p \in Importers, ReadRow(p) PROVE MigrationInv'
<1> USE DEF MigrationInv, Goto
<1> DEFINE n == position[p]
           id == file.rows[n + 1]
           rows == batch[p] \cup {id}
<1>1. /\ pc[p] = "reading" /\ exporting # "idle" /\ n < Len(file.rows) /\ n \in Nat
      /\ file.rows \in Seq(Ids) /\ Len(file.rows) \in Nat
      /\ staging[p] # None /\ staging[p] \subseteq Ids /\ batch[p] \subseteq Ids
      /\ staging[p] \cup batch[p] = ToSet(SubSeq(file.rows, 1, n))
      /\ UNCHANGED <<exportVars, target>>
  BY DEF ReadRow, ImportsFollowFile, SeenRows, TypeOK, Files
<1>2. id \in Ids /\ ToSet(SubSeq(file.rows, 1, n + 1)) = staging[p] \cup rows
  BY <1>1, NextOfPrefix
<1>3. IsFiniteSet(rows) /\ Cardinality(rows) \in Nat
  BY FS_AddElement, FS_CardinalityType DEF TypeOK
<1>4. IsFiniteSet({}) /\ Cardinality({}) = 0 /\ BatchSize \in Nat \ {0}
  BY FS_EmptySet, VectorMigrationAssumption
<1>5. \/ /\ pc' = [pc EXCEPT ![p] = "failing"] /\ UNCHANGED <<staging, batch, position>>
      \/ /\ ~Full(rows)
         /\ batch' = [batch EXCEPT ![p] = rows]
         /\ position' = [position EXCEPT ![p] = n + 1]
         /\ UNCHANGED <<pc, staging>>
      \/ /\ staging' = [staging EXCEPT ![p] = staging[p] \cup rows]
         /\ batch' = [batch EXCEPT ![p] = {}]
         /\ position' = [position EXCEPT ![p] = n + 1]
         /\ UNCHANGED pc
  BY DEF ReadRow
<1> HIDE DEF n, rows
<1>6. staging[p] \cup rows \subseteq Ids /\ staging[p] \cup rows # None /\ rows \subseteq Ids
  <2>1. staging[p] \cup rows \subseteq Ids
    BY <1>1, <1>2 DEF rows
  <2>2. QED
    BY <2>1, VectorMigrationAssumption
<1>7. TypeOK'
  <2>1. ~Full(rows) => Cardinality(rows) < BatchSize
    BY <1>3, <1>4 DEF Full
  <2>2. /\ pc' \in [Importers -> Labels] /\ position' \in [Importers -> Nat]
        /\ staging' \in [Importers -> {None} \cup SUBSET Ids] /\ batch' \in [Importers -> SUBSET Ids]
    <3>1. pc' \in [Importers -> Labels]
      BY <1>5 DEF TypeOK, Labels
    <3>2. position' \in [Importers -> Nat]
      BY <1>1, <1>5 DEF TypeOK
    <3>3. staging' \in [Importers -> {None} \cup SUBSET Ids]
      BY <1>5, <1>6 DEF TypeOK
    <3>4. batch' \in [Importers -> SUBSET Ids]
      BY <1>5, <1>6 DEF TypeOK
    <3>5. QED
      BY <3>1, <3>2, <3>3, <3>4
  <2>3. \A q \in Importers : IsFiniteSet(batch'[q]) /\ Cardinality(batch'[q]) < BatchSize
    <3>1. \/ batch' = batch
          \/ batch' = [batch EXCEPT ![p] = rows] /\ Cardinality(rows) < BatchSize
          \/ batch' = [batch EXCEPT ![p] = {}]
      BY <1>5, <2>1
    <3>2. \A q \in Importers : IsFiniteSet(batch[q]) /\ Cardinality(batch[q]) < BatchSize
      BY DEF TypeOK
    <3>3. batch \in [Importers -> SUBSET Ids] /\ 0 < BatchSize
      BY <1>4 DEF TypeOK
    <3>4. QED
      BY <1>3, <1>4, <3>1, <3>2, <3>3
  <2>4. QED
    BY <1>1, <2>2, <2>3 DEF TypeOK, exportVars, NoDuplicates
<1>8. PublishedIsWhole' /\ OneImportPublishes'
  BY <1>1, <1>5, TargetStays DEF TypeOK
<1>9. \A q \in Importers \ {p} :
        pc'[q] = pc[q] /\ staging'[q] = staging[q] /\ batch'[q] = batch[q] /\ position'[q] = position[q]
  BY <1>5 DEF TypeOK
<1>10. CASE pc' = [pc EXCEPT ![p] = "failing"] /\ UNCHANGED <<staging, batch, position>>
  BY <1>1, <1>7, <1>8, <1>9, <1>10, OtherImportsStay DEF TypeOK
<1>11. CASE /\ batch' = [batch EXCEPT ![p] = rows]
            /\ position' = [position EXCEPT ![p] = n + 1]
            /\ UNCHANGED <<pc, staging>>
  <2>1. pc'[p] = "reading" /\ position'[p] = n + 1 /\ staging'[p] = staging[p] /\ batch'[p] = rows
    BY <1>1, <1>11 DEF TypeOK
  <2>2. QED
    BY <1>1, <1>2, <1>7, <1>8, <1>9, <2>1, OtherImportsStay
<1>12. CASE /\ staging' = [staging EXCEPT ![p] = staging[p] \cup rows]
            /\ batch' = [batch EXCEPT ![p] = {}]
            /\ position' = [position EXCEPT ![p] = n + 1]
            /\ UNCHANGED pc
  <2>1. /\ pc'[p] = "reading" /\ position'[p] = n + 1 /\ staging'[p] = staging[p] \cup rows
        /\ batch'[p] = {}
    BY <1>1, <1>12 DEF TypeOK
  <2>2. staging'[p] \cup batch'[p] = ToSet(SubSeq(file.rows, 1, n + 1))
    BY <1>2, <2>1
  <2>3. QED
    BY <1>1, <1>6, <1>7, <1>8, <1>9, <2>1, <2>2, OtherImportsStay
<1>13. QED
  BY <1>5, <1>10, <1>11, <1>12

LEMMA ReadEndKeepsInv ==
  ASSUME MigrationInv, NEW p \in Importers, ReadEnd(p) PROVE MigrationInv'
<1> USE DEF MigrationInv, ReadEnd, Goto
<1>1. /\ exporting # "idle" /\ file.rows \in Seq(Ids) /\ position[p] = Len(file.rows)
      /\ staging[p] # None /\ staging[p] \cup batch[p] = ToSet(SubSeq(file.rows, 1, position[p]))
  BY DEF ImportsFollowFile, SeenRows, TypeOK, Files
<1>2. staging[p] \cup batch[p] = ToSet(file.rows) /\ file.rows # None
  BY <1>1, SubSeqFull, VectorMigrationAssumption
<1>3. file.footer = file.rows => exported # None /\ staging[p] \cup batch[p] = exported
  BY <1>1, <1>2 DEF FooterIsOfExport
<1>4. TypeOK'
  BY DEF TypeOK, Labels, exportVars, NoDuplicates
<1>5. PublishedIsWhole' /\ OneImportPublishes'
  BY TargetStays DEF TypeOK
<1>6. pc'[p] = (IF file.footer = file.rows /\ ~file.tail THEN "flush" ELSE "failing")
  BY DEF TypeOK
<1>7. QED
  BY <1>1, <1>3, <1>4, <1>5, <1>6, OtherImportsStay DEF TypeOK

LEMMA FlushKeepsInv ==
  ASSUME MigrationInv, NEW p \in Importers, Flush(p) PROVE MigrationInv'
<1> USE DEF MigrationInv, Goto
<1>1. /\ pc[p] = "flush" /\ exported # None /\ staging[p] \cup batch[p] = exported
      /\ exported \subseteq Ids /\ UNCHANGED <<exportVars, batch, position, target>>
      /\ \/ pc' = [pc EXCEPT ![p] = "closed"] /\ staging' = [staging EXCEPT ![p] = exported]
         \/ pc' = [pc EXCEPT ![p] = "failing"] /\ UNCHANGED staging
  BY DEF Flush, ImportsFollowFile, TypeOK
<1>2. TypeOK'
  BY <1>1 DEF TypeOK, Labels, exportVars, NoDuplicates
<1>3. PublishedIsWhole' /\ OneImportPublishes'
  BY <1>1, TargetStays DEF TypeOK
<1>4. QED
  BY <1>1, <1>2, <1>3, OtherImportsStay DEF TypeOK

LEMMA LookAgainKeepsInv ==
  ASSUME MigrationInv, NEW p \in Importers, LookAgain(p) PROVE MigrationInv'
<1> USE DEF MigrationInv, LookAgain, Goto
<1>1. TypeOK'
  BY DEF TypeOK, Labels, exportVars, NoDuplicates
<1>2. PublishedIsWhole' /\ OneImportPublishes'
  BY TargetStays DEF TypeOK
<1>3. exported # None /\ staging[p] = exported
  BY DEF ImportsFollowFile
<1>4. QED
  BY <1>1, <1>2, <1>3, OtherImportsStay DEF TypeOK

LEMMA RenameKeepsInv ==
  ASSUME MigrationInv, NEW p \in Importers, Rename(p) PROVE MigrationInv'
<1> USE DEF MigrationInv, Goto
<1>1. /\ pc[p] = "rename" /\ exported # None /\ staging[p] = exported
      /\ exported \subseteq Ids /\ UNCHANGED <<exportVars, batch, position>>
  BY DEF Rename, ImportsFollowFile, TypeOK
<1>2. CASE /\ target \in {None, Empty} /\ target' = exported
           /\ pc' = [pc EXCEPT ![p] = "ok"] /\ staging' = [staging EXCEPT ![p] = None]
  <2>1. TypeOK'
    BY <1>1, <1>2 DEF TypeOK, Labels, exportVars, NoDuplicates
  <2>2. Published'
    BY <1>1, <1>2, VectorMigrationAssumption DEF Published
  <2>3. PublishedIsWhole'
    BY <1>1, <1>2 DEF PublishedIsWhole, exportVars
  <2>4. \A q \in Importers : pc[q] # "ok"
    BY <1>2 DEF OneImportPublishes, Published
  <2>5. OneImportPublishes'
    BY <1>2, <2>2, <2>4 DEF OneImportPublishes, TypeOK
  <2>6. QED
    BY <1>1, <1>2, <2>1, <2>3, <2>5, OtherImportsStay DEF TypeOK
<1>3. CASE pc' = [pc EXCEPT ![p] = "failing"] /\ UNCHANGED <<staging, target>>
  <2>1. TypeOK'
    BY <1>1, <1>3 DEF TypeOK, Labels, exportVars, NoDuplicates
  <2>2. PublishedIsWhole' /\ OneImportPublishes'
    BY <1>1, <1>3, TargetStays DEF TypeOK
  <2>3. QED
    BY <1>1, <1>3, <2>1, <2>2, OtherImportsStay DEF TypeOK
<1>4. QED
  BY <1>1, <1>2, <1>3 DEF Rename

LEMMA CleanUpKeepsInv ==
  ASSUME MigrationInv, NEW p \in Importers, CleanUp(p) PROVE MigrationInv'
<1> USE DEF MigrationInv, CleanUp, Goto
<1>1. TypeOK'
  BY DEF TypeOK, Labels, exportVars, NoDuplicates
<1>2. PublishedIsWhole' /\ OneImportPublishes'
  BY TargetStays DEF TypeOK
<1>3. QED
  BY <1>1, <1>2, OtherImportsStay DEF TypeOK

LEMMA ImportCrashKeepsInv ==
  ASSUME MigrationInv, NEW p \in Importers, ImportCrash(p) PROVE MigrationInv'
<1> USE DEF MigrationInv, ImportCrash
<1>1. TypeOK'
  BY DEF TypeOK, Labels, exportVars, NoDuplicates
<1>2. PublishedIsWhole' /\ OneImportPublishes'
  BY TargetStays DEF TypeOK
<1>3. QED
  BY <1>1, <1>2, OtherImportsStay DEF TypeOK

LEMMA AppOpensKeepsInv == ASSUME MigrationInv, AppOpens PROVE MigrationInv'
<1> USE DEF MigrationInv, AppOpens
<1>1. TypeOK'
  BY DEF TypeOK, exportVars, importVars, NoDuplicates
<1>2. FooterIsOfExport' /\ ExportFollowsSource'
  BY ExportStays
<1>3. ImportsFollowFile' /\ NoDebris'
  BY DEF ImportsFollowFile, NoDebris, SeenRows, exportVars, importVars
<1>4. ~Published /\ ~Published'
  BY DEF Published
<1>5. PublishedIsWhole' /\ OneImportPublishes'
  BY <1>4 DEF PublishedIsWhole, OneImportPublishes, importVars
<1>6. QED
  BY <1>1, <1>2, <1>3, <1>5

LEMMA MigrationInitially == Init => MigrationInv
<1> SUFFICES ASSUME Init PROVE MigrationInv
  OBVIOUS
<1>1. source \in Seq(Ids) /\ NoDuplicates(source)
  <2>1. source \in Collections
    BY DEF Init
  <2>2. PICK n \in 0..Cardinality(Ids) : source \in [1..n -> Ids]
    BY <2>1 DEF Collections
  <2>3. n \in Nat
    OBVIOUS
  <2>4. QED
    BY <2>1, <2>2, <2>3, SeqDef DEF Collections
<1>2. IsFiniteSet({}) /\ Cardinality({}) = 0 /\ BatchSize \in Nat \ {0}
  BY FS_EmptySet, VectorMigrationAssumption
<1>3. TypeOK
  BY <1>1, <1>2 DEF Init, TypeOK, Labels
<1>4. FooterIsOfExport /\ ExportFollowsSource /\ ImportsFollowFile
  BY DEF Init, FooterIsOfExport, ExportFollowsSource, ImportsFollowFile
<1>5. PublishedIsWhole /\ OneImportPublishes /\ NoDebris
  BY DEF Init, PublishedIsWhole, OneImportPublishes, NoDebris, Published
<1>6. QED
  BY <1>3, <1>4, <1>5 DEF MigrationInv

(* Theorems. *)

\* Whatever dies, is damaged or runs beside, the file's footer, what the
\* imports have read and the target agree with the one completed export.
THEOREM MigrationInvariant == Spec => []MigrationInv
<1>1. ASSUME MigrationInv, [Next]_vars PROVE MigrationInv'
  <2>1. CASE UNCHANGED vars
    BY <1>1, <2>1 DEF MigrationInv, TypeOK, FooterIsOfExport, ExportFollowsSource,
       ImportsFollowFile, PublishedIsWhole, OneImportPublishes, NoDebris, Published, SeenRows,
       NoDuplicates, vars, exportVars, importVars
  <2>2. CASE Next
    BY <1>1, <2>2, ExportBeginKeepsInv, ExportBatchKeepsInv, ExportEndKeepsInv,
       ExportCrashKeepsInv, ChangeKeepsInv, DamageKeepsInv, ImportBeginKeepsInv,
       ReadRowKeepsInv, ReadEndKeepsInv, FlushKeepsInv, LookAgainKeepsInv, RenameKeepsInv,
       CleanUpKeepsInv, ImportCrashKeepsInv, AppOpensKeepsInv DEF Next, Import
  <2>3. QED
    BY <1>1, <2>1, <2>2
<1>2. QED
  BY <1>1, MigrationInitially, PTL DEF Spec

\* A store at the target is all the rows of a completed export.
THEOREM PublishedStoreIsWhole == Spec => []PublishedIsWhole
<1>1. MigrationInv => PublishedIsWhole
  BY DEF MigrationInv
<1>2. QED
  BY <1>1, MigrationInvariant, PTL

\* One import at most reports success, and then its store is at the target.
THEOREM OneImportSucceeds == Spec => [](OneImportPublishes /\ NoDebris)
<1>1. MigrationInv => OneImportPublishes /\ NoDebris
  BY DEF MigrationInv
<1>2. QED
  BY <1>1, MigrationInvariant, PTL

\* What is published is the old collection as the export found it, unless it
\* was both added to and deleted from meanwhile.
THEOREM PublishedStoreIsSource == Spec => []PublishedIsSource
<1>1. MigrationInv => PublishedIsSource
  <2> SUFFICES ASSUME MigrationInv, Published, Cardinality(changed) <= 1
               PROVE  target = ToSet(atStart)
    BY DEF PublishedIsSource
  <2>1. exporting = "done" /\ target = exported /\ changed \subseteq {"inserted", "deleted"}
    BY DEF MigrationInv, PublishedIsWhole, FooterIsOfExport, TypeOK
  <2>2. changed # {"inserted", "deleted"}
    <3>1. Cardinality({"inserted"}) = 1 /\ IsFiniteSet({"inserted"})
      BY FS_Singleton
    <3>2. Cardinality({"inserted"} \cup {"deleted"}) = 2
      BY <3>1, FS_AddElement
    <3>3. {"inserted", "deleted"} = {"inserted"} \cup {"deleted"}
      OBVIOUS
    <3>4. QED
      BY <3>2, <3>3
  <2>3. changed = {} \/ changed = {"inserted"} \/ changed = {"deleted"}
    BY <2>1, <2>2
  <2>4. QED
    BY <2>1, <2>3 DEF MigrationInv, ExportFollowsSource
<1>2. QED
  BY <1>1, MigrationInvariant, PTL

\* No store at the target is ever replaced.
THEOREM TargetStaysPublished == Spec => TargetNeverReplaced
<1>1. [Next]_vars => [target \notin {None, Empty} => target' = target]_vars
  BY DEF Next, Import, ExportBegin, ExportBatch, ExportEnd, ExportCrash, Change, Damage,
     AppOpens, ImportBegin, ReadRow, ReadEnd, Flush, LookAgain, Rename, CleanUp, ImportCrash,
     vars, exportVars, importVars
<1>2. QED
  BY <1>1, PTL DEF Spec, TargetNeverReplaced
=============================================================================
