---------------------------- MODULE MCGroundedChat ----------------------------
(* Values of the constants of GroundedChat that a configuration cannot write: *)
(* five points of one session, the third blank, the fourth unfit, the sixth   *)
(* unfit as it is stored, the fifth of another session, and what the threads  *)
(* of the two sessions' requests call.                                        *)
EXTENDS GroundedChat, TLC

CONSTANTS chat, writer, reader, alpha, beta, forged, here, there

MCPoints    == 1..6
MCSessionOf == (1 :> alpha) @@ (2 :> alpha) @@ (3 :> alpha) @@ (4 :> alpha)
                 @@ (5 :> beta) @@ (6 :> alpha)
MCMetaOf    == (1 :> here) @@ (2 :> there) @@ (3 :> here) @@ (4 :> there)
                 @@ (5 :> here) @@ (6 :> there)

Call(kind, s, ids) == [kind |-> kind, session |-> s, ids |-> ids]

\* query_documents, list_session_documents, delete_session_documents and
\* process_document, with two batches of one chunk.
Asking(s)  == <<Call("query", s, {})>>
Listing(s) == <<Call("get", s, {})>>
Erasing(s) == <<Call("get", s, {}), Call("delete", s, {})>>
Replacing(s) ==
  <<Call("get", s, {}), Call("upsert", s, {1}), Call("upsert", s, {2}),
    Call("delete", s, {1, 2})>>

MCContents == {{}, {1, 2, 3, 5}, {1, 4, 5, 6}}

\* A chat while the documents change, and two readers while they do.
MCWorkloads ==
  {(chat :> Asking(alpha)) @@ (writer :> w) @@ (reader :> << >>) :
     w \in {Erasing(alpha), Replacing(alpha)}}
  \cup {(chat :> Listing(alpha)) @@ (writer :> Erasing(alpha)) @@ (reader :> Listing(beta))}
===============================================================================
