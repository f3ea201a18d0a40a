------------------------------ MODULE RagEngine ------------------------------
(***************************************************************************)
(* The document side of app/rag_engine.py over the collection of           *)
(* app/vector_store.py: which points the store holds and how ingestion,    *)
(* deletion and the reads select them.  VectorCollection holds its lock    *)
(* for the whole of get, query, upsert and delete, so each is one step.    *)
(*                                                                         *)
(* A document is what extract_pdf_pages and split_text make of a PDF: a    *)
(* sequence of batches of chunks.  A chunk stands for what _stable_chunk_id*)
(* hashes besides session and source (page, index and text), so two        *)
(* documents that share a chunk under one name share that point.           *)
(***************************************************************************)
EXTENDS Naturals, Sequences, FiniteSets

CONSTANTS Docs, Chunks, Sources,
          SourceOf,     \* the file name a document is uploaded under
          Batches,      \* its chunks, in batches of embedding_batch_size
          TopK          \* max_context_chunks

ASSUME RagEngineAssumption ==
  /\ IsFiniteSet(Chunks)
  /\ SourceOf \in [Docs -> Sources]
  /\ \A d \in Docs : /\ Batches[d] \in Seq(SUBSET Chunks)
                     /\ Batches[d] # << >>
  /\ TopK \in Nat \ {0}

VARIABLE vectors    \* the points of the collection

BatchPoints(s, d, i) ==
  {[session |-> s, source |-> SourceOf[d], chunk |-> c] : c \in Batches[d][i]}

\* The points of the document's first n batches, and of all of it.
PointsUpTo(s, d, n) == UNION {BatchPoints(s, d, i) : i \in 1..n}
DocumentPoints(s, d) == PointsUpTo(s, d, Len(Batches[d]))

\* The two filters ingestion and the other operations read with.
SourcePoints(s, source) == {p \in vectors : p.session = s /\ p.source = source}

SessionPoints(s) == {p \in vectors : p.session = s}

\* col.upsert of one batch
UpsertBatch(s, d, i) == vectors' = vectors \cup BatchPoints(s, d, i)

\* col.delete
DeletePoints(points) == vectors' = vectors \ points

\* query_documents: the nearest TopK points, or all there are; how near a
\* point is to the question is left open.
QueryResults(s) ==
  {points \in SUBSET SessionPoints(s) :
     \/ Cardinality(points) = TopK
     \/ Cardinality(points) < TopK /\ points = SessionPoints(s)}
=============================================================================
