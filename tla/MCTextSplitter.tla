--------------------------- MODULE MCTextSplitter ---------------------------
(* Instances of TextSplitter for TLC: texts with at most two sentence ends. *)
EXTENDS TextSplitter

UpToTwoEnds == {{}} \cup {{p, q} : p, q \in 0..MaxLength}
=============================================================================
