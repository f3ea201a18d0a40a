--------------------------- MODULE MCCareerService ---------------------------
(* Instances of CareerService for TLC. *)
EXTENDS CareerService, TLC

\* One document of one batch.
OneDocSource  == "cv" :> "cv.pdf"
OneDocBatches == "cv" :> <<{"a"}>>

\* Two versions of one file that share a chunk, in one batch and in two.
VersionsSource  == [d \in {"old", "new"} |-> "cv.pdf"]
VersionsBatches == "old" :> <<{"a", "b"}>> @@ "new" :> <<{"b"}, {"c"}>>

Symmetric == Permutations(Tenants) \cup Permutations(Sessions) \cup Permutations(Requests)
SymmetricRequests == Permutations(Requests)
=============================================================================
