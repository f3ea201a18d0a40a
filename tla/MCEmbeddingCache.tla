-------------------------- MODULE MCEmbeddingCache --------------------------
(* Instances of EmbeddingCache for TLC: threads and texts are alike.        *)
EXTENDS EmbeddingCache, TLC

Alike == Permutations(Threads) \cup Permutations(Texts)
=============================================================================
