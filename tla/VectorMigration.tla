--------------------------- MODULE VectorMigration ---------------------------
(***************************************************************************)
(* scripts/migrate_vectors.py: one export of the old collection to a file, *)
(* and imports of the file into a new store, each a process of its own     *)
(* that may die.  An import builds its store in a staging directory and    *)
(* renames it to the target.  The operator may start imports twice or too  *)
(* early, the old application may still write to the collection, the new   *)
(* one may already open the target, and the file may be damaged between.   *)
(*                                                                         *)
(* A row is its chunk id; the checksum of rows is the rows themselves.     *)
(* Outside this repository: the order in which the old collection is read  *)
(* (by insertion), and that rename() replaces an empty directory and fails *)
(* on one that is not empty.                                               *)
(***************************************************************************)
EXTENDS Integers, Sequences, FiniteSets, SequencesExt

CONSTANTS Ids, Importers,
          NoSession,      \* ids whose rows upsert refuses (no session_id)
          BatchSize,
          None,           \* no file, no footer, no directory
          Empty,          \* a directory with nothing in it
          AppStore,       \* a store the new application made
          MaxChanges,     \* bound: changes of the old collection
          MaxDamages      \* bound: changes of the file by nobody's hand

ASSUME VectorMigrationAssumption ==
  /\ NoSession \subseteq Ids
  /\ None \notin Seq(Ids) /\ \A rows \in SUBSET Ids : rows \notin {None, Empty, AppStore}
  /\ BatchSize \in Nat \ {0}
  /\ MaxChanges \in Nat /\ MaxDamages \in Nat

VARIABLES
  source,     \* the old collection: its ids in the order they are read
  exporting,  \* the exporter: "idle", "batches", "done", "failed"
  total,      \* its local variables: how many rows there were
  offset,     \* ... and where the next batch begins
  file,       \* the export: its rows, its footer, is there more after it; or None
  atStart,    \* observation: the collection when the export began
  changed,    \* observation: how it changed since: "inserted", "deleted"
  exported,   \* observation: the ids of a completed export, or None
  spent,      \* how many changes and damages there were (the bounds)
  pc,         \* where each import is
  staging,    \* its directory: the ids in it, or None
  batch,      \* the ids of rows not written yet
  position,   \* how many rows it has read
  target      \* None, Empty, AppStore, or the ids of a published store

exportVars == <<source, exporting, total, offset, file, atStart, changed, exported, spent>>
importVars == <<pc, staging, batch, position>>
vars == <<exportVars, importVars, target>>

NoDuplicates(rows) == \A i, j \in DOMAIN rows : rows[i] = rows[j] => i = j

Collections == {rows \in UNION {[1..n -> Ids] : n \in 0..Cardinality(Ids)} : NoDuplicates(rows)}

Files == [rows : Seq(Ids), footer : {None} \cup Seq(Ids), tail : BOOLEAN]

Labels == {"idle", "reading", "flush", "closed", "rename", "failing", "ok", "failed", "dead"}

\* Types; there is a file once the export began, the old collection has no id
\* twice, and rows wait in batches shorter than batch_size.
TypeOK ==
  /\ source \in Seq(Ids) /\ NoDuplicates(source)
  /\ exporting \in {"idle", "batches", "done", "failed"}
  /\ total \in Nat /\ offset \in Nat
  /\ IF exporting = "idle" THEN file = None ELSE file \in Files
  /\ atStart \in Seq(Ids) /\ changed \subseteq {"inserted", "deleted"}
  /\ exported \in {None} \cup SUBSET Ids
  /\ pc \in [Importers -> Labels]
  /\ staging \in [Importers -> {None} \cup SUBSET Ids]
  /\ batch \in [Importers -> SUBSET Ids]
  /\ \A p \in Importers : IsFiniteSet(batch[p]) /\ Cardinality(batch[p]) < BatchSize
  /\ position \in [Importers -> Nat]

Init ==
  /\ source \in Collections
  /\ exporting = "idle"
  /\ total = 0 /\ offset = 0
  /\ file = None
  /\ atStart = source
  /\ changed = {}
  /\ exported = None
  /\ spent = [changes |-> 0, damages |-> 0]
  /\ pc = [p \in Importers |-> "idle"]
  /\ staging = [p \in Importers |-> None]
  /\ batch = [p \in Importers |-> {}]
  /\ position = [p \in Importers |-> 0]
  /\ target = None
-----------------------------------------------------------------------------
(* The export.                                                             *)

\* total = collection.count(); output.open("x"), which wants a new file
ExportBegin ==
  /\ exporting = "idle" /\ file = None
  /\ exporting' = "batches"
  /\ total' = Len(source)
  /\ file' = [rows |-> << >>, footer |-> None, tail |-> FALSE]
  /\ atStart' = source
  /\ changed' = {}
  /\ UNCHANGED <<source, offset, exported, spent, importVars, target>>

ExportBatch ==
  /\ exporting = "batches" /\ offset < total
  /\ LET last == IF offset + BatchSize < Len(source) THEN offset + BatchSize ELSE Len(source)
     IN  file' = [file EXCEPT !.rows = @ \o SubSeq(source, offset + 1, last)]
  /\ offset' = offset + BatchSize
  /\ UNCHANGED <<source, exporting, total, atStart, changed, exported, spent, importVars,
                 target>>

\* A plausible slip: the footer is written whatever was counted.
ExportEndUnchecked ==
  /\ exporting = "batches" /\ offset >= total
  /\ exporting' = "done"
  /\ file' = [file EXCEPT !.footer = file.rows]
  /\ exported' = ToSet(file.rows)
  /\ UNCHANGED <<source, total, offset, atStart, changed, spent, importVars, target>>

\* Both counts agree and the footer is written, or it is not.
ExportEnd ==
  /\ exporting = "batches" /\ offset >= total
  /\ \/ /\ Len(file.rows) = total /\ Len(source) = total
        /\ exporting' = "done"
        /\ file' = [file EXCEPT !.footer = file.rows]
        /\ exported' = ToSet(file.rows)
     \/ /\ Len(file.rows) # total \/ Len(source) # total
        /\ exporting' = "failed"
        /\ UNCHANGED <<file, exported>>
  /\ UNCHANGED <<source, total, offset, atStart, changed, spent, importVars, target>>

\* The exporter dies; the file stays as it is.
ExportCrash ==
  /\ exporting = "batches"
  /\ exporting' = "failed"
  /\ UNCHANGED <<source, total, offset, file, atStart, changed, exported, spent,
                 importVars, target>>

\* The old application, which should have been stopped, adds or deletes a row.
Change ==
  /\ spent.changes < MaxChanges /\ exporting = "batches"
  /\ spent' = [spent EXCEPT !.changes = @ + 1]
  /\ \/ \E id \in Ids \ ToSet(source) :
          source' = Append(source, id) /\ changed' = changed \cup {"inserted"}
     \/ \E i \in DOMAIN source :
          source' = RemoveAt(source, i) /\ changed' = changed \cup {"deleted"}
  /\ UNCHANGED <<exporting, total, offset, file, atStart, exported, importVars, target>>

\* The file is cut short, a row in it altered or lost, or something written
\* after its footer, while nobody uses it.
Damage ==
  /\ spent.damages < MaxDamages
  /\ file # None /\ exporting # "batches"
  /\ \A p \in Importers : pc[p] # "reading"
  /\ spent' = [spent EXCEPT !.damages = @ + 1]
  /\ \/ file' = [file EXCEPT !.footer = None, !.tail = FALSE]
     \/ file.footer # None /\ file' = [file EXCEPT !.tail = TRUE]
     \/ \E i \in DOMAIN file.rows, id \in Ids : file' = [file EXCEPT !.rows[i] = id]
     \/ \E i \in DOMAIN file.rows : file' = [file EXCEPT !.rows = RemoveAt(@, i)]
  /\ UNCHANGED <<source, exporting, total, offset, atStart, changed, exported, importVars,
                 target>>
-----------------------------------------------------------------------------
(* An import.                                                              *)

Goto(p, from, to) ==
  /\ pc[p] = from
  /\ pc' = [pc EXCEPT ![p] = to]

\* The target is looked at, a staging directory made and the file opened.
ImportBegin(p) ==
  /\ \/ /\ target # None
        /\ Goto(p, "idle", "failed")
        /\ UNCHANGED staging
     \/ /\ target = None
        /\ Goto(p, "idle", IF file = None THEN "failing" ELSE "reading")
        /\ staging' = [staging EXCEPT ![p] = {}]
  /\ UNCHANGED <<exportVars, batch, position, target>>

SeenRows(p) == ToSet(SubSeq(file.rows, 1, position[p]))

\* A plausible slip: a batch is written once it is too long.
FullLate(rows) == Cardinality(rows) > BatchSize

Full(rows) == Cardinality(rows) >= BatchSize

\* A row: an id seen before is refused; a full batch is written, unless upsert
\* refuses a row of it.
ReadRow(p) ==
  /\ pc[p] = "reading" /\ position[p] < Len(file.rows)
  /\ LET id   == file.rows[position[p] + 1]
         rows == batch[p] \cup {id}
     IN  \/ /\ id \in SeenRows(p)
            /\ Goto(p, "reading", "failing")
            /\ UNCHANGED <<staging, batch, position>>
         \/ /\ id \notin SeenRows(p) /\ ~Full(rows)
            /\ batch' = [batch EXCEPT ![p] = rows]
            /\ position' = [position EXCEPT ![p] = @ + 1]
            /\ UNCHANGED <<pc, staging>>
         \/ /\ id \notin SeenRows(p) /\ Full(rows)
            /\ rows \cap NoSession = {}
            /\ staging' = [staging EXCEPT ![p] = @ \cup rows]
            /\ batch' = [batch EXCEPT ![p] = {}]
            /\ position' = [position EXCEPT ![p] = @ + 1]
            /\ UNCHANGED pc
         \/ /\ id \notin SeenRows(p) /\ Full(rows)
            /\ rows \cap NoSession # {}
            /\ Goto(p, "reading", "failing")
            /\ UNCHANGED <<staging, batch, position>>
  /\ UNCHANGED <<exportVars, target>>

\* A plausible slip: the end of the rows will do.
ReadEndUnchecked(p) ==
  /\ pc[p] = "reading" /\ position[p] = Len(file.rows)
  /\ Goto(p, "reading", "flush")
  /\ UNCHANGED <<exportVars, staging, batch, position, target>>

\* The footer must be there, its count and checksum be those of the rows, and
\* nothing follow it.
ReadEnd(p) ==
  /\ pc[p] = "reading" /\ position[p] = Len(file.rows)
  /\ Goto(p, "reading", IF file.footer = file.rows /\ ~file.tail THEN "flush" ELSE "failing")
  /\ UNCHANGED <<exportVars, staging, batch, position, target>>

\* The last batch is written, the points are counted, the store is closed.
Flush(p) ==
  /\ pc[p] = "flush"
  /\ LET all == staging[p] \cup batch[p] IN
       \/ /\ batch[p] \cap NoSession = {} /\ Cardinality(all) = position[p]
          /\ Goto(p, "flush", "closed")
          /\ staging' = [staging EXCEPT ![p] = all]
       \/ /\ batch[p] \cap NoSession # {} \/ Cardinality(all) # position[p]
          /\ Goto(p, "flush", "failing")
          /\ UNCHANGED staging
  /\ UNCHANGED <<exportVars, batch, position, target>>

\* The target is looked at once more ...
LookAgain(p) ==
  /\ Goto(p, "closed", IF target = None THEN "rename" ELSE "failing")
  /\ UNCHANGED <<exportVars, staging, batch, position, target>>

\* A plausible slip: what is at the target by now is moved out of the way.
RenameOver(p) ==
  /\ Goto(p, "rename", "ok")
  /\ target' = staging[p]
  /\ staging' = [staging EXCEPT ![p] = None]
  /\ UNCHANGED <<exportVars, batch, position>>

\* ... and the directory renamed, which fails if the target is not empty.
Rename(p) ==
  /\ \/ /\ target \in {None, Empty}
        /\ Goto(p, "rename", "ok")
        /\ target' = staging[p]
        /\ staging' = [staging EXCEPT ![p] = None]
     \/ /\ target \notin {None, Empty}
        /\ Goto(p, "rename", "failing")
        /\ UNCHANGED <<staging, target>>
  /\ UNCHANGED <<exportVars, batch, position>>

\* A plausible slip: the staging directory stays when the import fails.
CleanUpForgotten(p) ==
  /\ Goto(p, "failing", "failed")
  /\ UNCHANGED <<exportVars, staging, batch, position, target>>

\* finally: shutil.rmtree(staging)
CleanUp(p) ==
  /\ Goto(p, "failing", "failed")
  /\ staging' = [staging EXCEPT ![p] = None]
  /\ UNCHANGED <<exportVars, batch, position, target>>

ImportCrash(p) ==
  /\ pc[p] \notin {"idle", "ok", "failed", "dead"}
  /\ pc' = [pc EXCEPT ![p] = "dead"]
  /\ UNCHANGED <<exportVars, staging, batch, position, target>>

\* The new application, started too early, makes the directory, then its store.
AppOpens ==
  /\ \/ target = None /\ target' = Empty
     \/ target = Empty /\ target' = AppStore
  /\ UNCHANGED <<exportVars, importVars>>

Import(p) ==
  \/ ImportBegin(p) \/ ReadRow(p) \/ ReadEnd(p) \/ Flush(p) \/ LookAgain(p) \/ Rename(p)
  \/ CleanUp(p)

Next ==
  \/ ExportBegin \/ ExportBatch \/ ExportEnd \/ ExportCrash
  \/ Change \/ Damage \/ AppOpens
  \/ \E p \in Importers : Import(p) \/ ImportCrash(p)

Spec == Init /\ [][Next]_vars
-----------------------------------------------------------------------------
Published == target \notin {None, Empty, AppStore}

\* docs/VECTOR_MIGRATION.md: "publishes the target directory only after
\* validation succeeds".  A published store holds all the rows of a completed
\* export, whatever died, was damaged or ran beside the import.
PublishedIsWhole == Published => exported # None /\ target = exported

\* ... and these are the rows the old collection had when the export began,
\* if since then it was not both added to and deleted from: a change in one
\* direction shows in the counts.
PublishedIsSource ==
  Published /\ Cardinality(changed) <= 1 => target = ToSet(atStart)

\* A footer is that of the one completed export, whatever happened to the rows.
FooterIsOfExport ==
  /\ exported # None <=> exporting = "done"
  /\ exporting # "idle" /\ file.footer # None =>
       exporting = "done" /\ exported = ToSet(file.footer)

\* The counts tell whether the old collection is the one the export began with,
\* unless it was both added to and deleted from.
ExportFollowsSource ==
  /\ exporting = "idle" => offset = 0
  /\ exporting = "batches" =>
       /\ total = Len(atStart)
       /\ changed = {} =>
            /\ source = atStart
            /\ file.rows = SubSeq(source, 1, IF offset < total THEN offset ELSE total)
       /\ changed = {"inserted"} => Len(source) > total
       /\ changed = {"deleted"} => Len(source) < total
  /\ exporting = "done" =>
       /\ changed # {"inserted"} /\ changed # {"deleted"}
       /\ changed = {} => exported = ToSet(atStart)

\* What an import has staged and batched is what it has read; past its check of
\* the footer it is the whole export, whatever becomes of the file.
ImportsFollowFile ==
  \A p \in Importers :
    /\ pc[p] = "idle" => batch[p] = {} /\ position[p] = 0 /\ staging[p] = None
    /\ pc[p] = "reading" =>
         /\ exporting # "idle" /\ position[p] <= Len(file.rows)
         /\ staging[p] # None /\ staging[p] \cup batch[p] = SeenRows(p)
    /\ pc[p] = "flush" =>
         exported # None /\ staging[p] # None /\ staging[p] \cup batch[p] = exported
    /\ pc[p] \in {"closed", "rename"} => exported # None /\ staging[p] = exported

\* tests/test_vector_migration.py:52: an import that fails, or succeeds, leaves
\* no staging directory; only one that was killed does.
NoDebris == \A p \in Importers : pc[p] \in {"ok", "failed"} => staging[p] = None

\* An import that reports success is the only one, and its store is there.
OneImportPublishes ==
  /\ \A p \in Importers : pc[p] = "ok" => Published
  /\ \A p, q \in Importers : pc[p] = "ok" /\ pc[q] = "ok" => p = q

\* Export, file, staging directories and target agree: the inductive invariant.
MigrationInv ==
  /\ TypeOK
  /\ FooterIsOfExport /\ ExportFollowsSource /\ ImportsFollowFile
  /\ PublishedIsWhole /\ OneImportPublishes /\ NoDebris

\* "Existing targets ... are never overwritten": a store at the target, the
\* application's or another import's, is never replaced.
TargetNeverReplaced ==
  [][target \notin {None, Empty} => target' = target]_vars
=============================================================================
