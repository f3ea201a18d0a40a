----------------------------- MODULE GroundedChat -----------------------------
(***************************************************************************)
(* POST /chat of app/main.py once its session is known: query_documents    *)
(* over the collection (VectorStore), which other threads change and a     *)
(* shutdown closes meanwhile, then answer_with_context and                 *)
(* _ask_structured of app/ai_services.py, and last the grounding of the    *)
(* citations in _ground_chat_response.                                     *)
(*                                                                         *)
(* The provider is outside this repository.  Which citations its reply has *)
(* is left open until the loop over response.sources reads them, one a     *)
(* turn.  The rest of an answer's text is left out, and so is the          *)
(* relevance of a chunk.                                                   *)
(***************************************************************************)
EXTENDS VectorStore

CONSTANTS
  Blank,          \* points without text: migrated rows may be such
  Unfit,          \* points whose metadata SourceChunk refuses: migrated rows too
  UnfitRaw,       \* ... and those it refuses only if _trusted_source has not
                  \* made them fit, as with a page that is no number
  Forged,         \* chunk ids a reply may name that are no point's
  Metas,          \* source, page and snippet, as a whole
  MetaOf,         \* ... of each point
  MaxFallback,    \* how many blocks the fallback cites
  MaxCitations,   \* bound: citations in a reply
  NoAnswer

ASSUME GroundedChatAssumption ==
  /\ Blank \subseteq Points /\ UnfitRaw \subseteq Points /\ Unfit \subseteq UnfitRaw
  /\ Forged \cap Points = {}
  /\ MetaOf \in [Points -> Metas]
  /\ MaxFallback \in Nat \ {0}
  /\ MaxCitations \in Nat

Confidences == {"low", "medium", "high"}

Sources == [chunk : Points \cup Forged, meta : Metas]

Answers ==
  [sources : Seq(Sources), confidence : Confidences,
   mode : {"openai", "mock", "fallback", "not_invoked"},
   grounding : {"grounded", "unsupported", "no_context"}]

VARIABLES
  phase,      \* where each chat is after its query
  ranked,     \* context_blocks: the chunks found, nearest first
  mode,       \* generation_mode of the response being grounded
  read,       \* how many of its citations have been read
  cited,      \* observation: their chunk ids
  sources,    \* grounded: the citations kept
  answer

chatVars == <<phase, ranked, mode, read, cited, sources, answer>>
vars == <<storeVars, chatVars>>

Phases == {"query", "ask", "retry", "ground", "answered", "refused"}
Modes  == {"none", "openai", "mock", "fallback"}

TypeOK ==
  /\ StoreTypeOK
  /\ phase \in [Threads -> Phases]
  /\ ranked \in [Threads -> Seq(Points)]
  /\ mode \in [Threads -> Modes]
  /\ read \in [Threads -> Nat]
  /\ cited \in [Threads -> SUBSET (Points \cup Forged)]
  /\ sources \in [Threads -> Seq(Sources)]
  /\ answer \in [Threads -> Answers \cup {NoAnswer}]

ChatInit ==
  /\ StoreInit
  /\ phase = [t \in Threads |-> "query"]
  /\ ranked = [t \in Threads |-> << >>]
  /\ mode = [t \in Threads |-> "none"]
  /\ read = [t \in Threads |-> 0]
  /\ cited = [t \in Threads |-> {}]
  /\ sources = [t \in Threads |-> << >>]
  /\ answer = [t \in Threads |-> NoAnswer]

\* A thread whose one call is a query is a chat's.
IsChat(t) == Len(plan[t]) = 1 /\ plan[t][1].kind = "query"

Step(t, from, to) ==
  /\ phase[t] = from
  /\ phase' = [phase EXCEPT ![t] = to]

\* What query_documents returns of the points found.
Blocks(t) == found[t] \ Blank

Rankings(set) ==
  {order \in [1..Cardinality(set) -> set] : \A p \in set : \E i \in DOMAIN order : order[i] = p}
-----------------------------------------------------------------------------
\* Nothing found: the provider is not asked.
NoContext(t) ==
  /\ pc[t] = "ended" /\ IsChat(t) /\ Blocks(t) = {}
  /\ Step(t, "query", "answered")
  /\ answer' = [answer EXCEPT ![t] =
       [sources |-> << >>, confidence |-> "low", mode |-> "not_invoked",
        grounding |-> "no_context"]]
  /\ UNCHANGED <<storeVars, ranked, mode, read, cited, sources>>

FallbackLength(order) == IF Len(order) < MaxFallback THEN Len(order) ELSE MaxFallback

\* answer_with_context: the fallback is made first, from the blocks as they are,
\* and may not be valid.  In mock mode, or without a client, it is the response; which it is, is one
\* process's setting, and no property compares chats.
Prompt(t) ==
  /\ pc[t] = "ended" /\ IsChat(t) /\ Blocks(t) # {}
  /\ \E order \in Rankings(Blocks(t)) :
       /\ ranked' = [ranked EXCEPT ![t] = order]
       /\ IF \E i \in 1..FallbackLength(order) : order[i] \in UnfitRaw
          THEN Step(t, "query", "refused") /\ UNCHANGED mode
          ELSE \/ Step(t, "query", "ask") /\ UNCHANGED mode
               \/ Step(t, "query", "ground") /\ mode' = [mode EXCEPT ![t] = "mock"]
  /\ UNCHANGED <<storeVars, read, cited, sources, answer>>

\* The reply is JSON of the schema, or the request or its validation raises.
Replied(t, from) ==
  /\ Step(t, from, "ground")
  /\ mode' = [mode EXCEPT ![t] = "openai"]

\* The first request, with the schema enforced.
Ask(t) ==
  /\ \/ Replied(t, "ask")
     \/ Step(t, "ask", "retry") /\ UNCHANGED mode
  /\ UNCHANGED <<storeVars, ranked, read, cited, sources, answer>>

\* A plausible slip: the fallback is not marked.
RetryUnmarked(t) ==
  /\ \/ Replied(t, "retry")
     \/ Step(t, "retry", "ground") /\ UNCHANGED mode
  /\ UNCHANGED <<storeVars, ranked, read, cited, sources, answer>>

\* The second, with the schema in the prompt; after it the fallback.
Retry(t) ==
  /\ \/ Replied(t, "retry")
     \/ Step(t, "retry", "ground") /\ mode' = [mode EXCEPT ![t] = "fallback"]
  /\ UNCHANGED <<storeVars, ranked, read, cited, sources, answer>>
-----------------------------------------------------------------------------
(* _ground_chat_response                                                   *)

Allowed(t) == {ranked[t][i] : i \in DOMAIN ranked[t]}
Seen(t)    == {sources[t][i].chunk : i \in DOMAIN sources[t]}

\* The citations response.sources may have next.
NextCitations(t) ==
  IF mode[t] = "openai"
  THEN IF read[t] < MaxCitations THEN Sources ELSE {}
  ELSE IF read[t] < FallbackLength(ranked[t])
       THEN {[chunk |-> ranked[t][read[t] + 1], meta |-> MetaOf[ranked[t][read[t] + 1]]]}
       ELSE {}

\* _trusted_source: all but the id comes from the block, less a page that is no
\* number.
Trusted(source) == [chunk |-> source.chunk, meta |-> MetaOf[source.chunk]]

\* A plausible slip: the source is kept as the reply has it.
KeptAsGiven(t, source) ==
  IF source.chunk \in Allowed(t) /\ source.chunk \notin Seen(t)
  THEN Append(sources[t], source)
  ELSE sources[t]

Kept(t, source) ==
  IF source.chunk \in Allowed(t) /\ source.chunk \notin Seen(t)
  THEN Append(sources[t], Trusted(source))
  ELSE sources[t]

\* One turn of the loop over response.sources.
Cite(t) ==
  /\ phase[t] = "ground"
  /\ \E source \in NextCitations(t) :
       /\ source.chunk \notin Allowed(t) \cap Unfit
       /\ cited' = [cited EXCEPT ![t] = @ \cup {source.chunk}]
       /\ sources' = [sources EXCEPT ![t] = Kept(t, source)]
  /\ read' = [read EXCEPT ![t] = @ + 1]
  /\ UNCHANGED <<storeVars, phase, ranked, mode, answer>>

\* The stored metadata of a chunk cited is refused; nobody catches that.
CiteUnfit(t) ==
  /\ \E source \in NextCitations(t) : source.chunk \in Allowed(t) \cap Unfit
  /\ Step(t, "ground", "refused")
  /\ UNCHANGED <<storeVars, ranked, mode, read, cited, sources, answer>>

\* The response's own confidence; that of the fallback is medium.
Claimed(t) == IF mode[t] = "openai" THEN Confidences ELSE {"medium"}

Response(t, confidence) ==
  [sources    |-> sources[t],
   confidence |-> IF sources[t] # << >> THEN confidence ELSE "low",
   mode       |-> mode[t],
   grounding  |-> IF sources[t] # << >> THEN "grounded" ELSE "unsupported"]

\* A plausible slip: the confidence and the status of the reply are believed.
ConcludeBelieving(t) ==
  /\ mode[t] = "openai" \/ read[t] = FallbackLength(ranked[t])
  /\ Step(t, "ground", "answered")
  /\ \E confidence \in Claimed(t) :
       answer' = [answer EXCEPT ![t] = [Response(t, confidence) EXCEPT
                    !.confidence = confidence, !.grounding = "grounded"]]
  /\ UNCHANGED <<storeVars, ranked, mode, read, cited, sources>>

\* The end of the loop: confidence and status follow from the citations kept.
Conclude(t) ==
  /\ mode[t] = "openai" \/ read[t] = FallbackLength(ranked[t])
  /\ Step(t, "ground", "answered")
  /\ \E confidence \in Claimed(t) :
       answer' = [answer EXCEPT ![t] = Response(t, confidence)]
  /\ UNCHANGED <<storeVars, ranked, mode, read, cited, sources>>

ChatStep(t) == NoContext(t) \/ Prompt(t) \/ Ask(t) \/ Retry(t) \/ Cite(t)
               \/ CiteUnfit(t) \/ Conclude(t)

\* Every thread has ended, every chat that found its documents is answered.
Finished ==
  /\ \A t \in Threads :
       /\ pc[t] \in {"ended", "failed"} \/ plan[t] = << >>
       /\ pc[t] = "ended" /\ IsChat(t) => phase[t] \in {"answered", "refused"}
  /\ shutdown = "done"
  /\ UNCHANGED vars

Next ==
  \/ \E t \in Threads : ThreadStep(t) /\ UNCHANGED chatVars
  \/ Close /\ UNCHANGED chatVars
  \/ \E t \in Threads : ChatStep(t)
  \/ Finished

Spec == ChatInit /\ [][Next]_vars

FairSpec == Spec /\ StoreFairness
-----------------------------------------------------------------------------
Answered(t) == answer[t] # NoAnswer

\* docs/ARCHITECTURE.md: "Model-provided citations are discarded unless their
\* chunk IDs exist in the retrieval set; filenames, pages, snippets, and scores
\* are rebuilt from trusted metadata."  The sources are the citations that this
\* chat's query found in its session, all of them and each once, with the
\* metadata stored, whatever else the reply cites and however often.
SourcesAreRetrieved ==
  \A t \in Threads :
    /\ Seen(t) = cited[t] \cap (found[t] \ Blank)
    /\ Len(sources[t]) = Cardinality(Seen(t))
    /\ \A i \in DOMAIN sources[t] :
         /\ SessionOf[sources[t][i].chunk] = plan[t][1].session
         /\ sources[t][i].meta = MetaOf[sources[t][i].chunk]

\* "Invalid or omitted citations remain explicitly unsupported": the status says
\* what the answer rests on, nothing but sources found makes it confident, and
\* the fallback always rests on some.
StatusTellsGrounding ==
  \A t \in Threads : Answered(t) =>
    /\ answer[t].grounding = "no_context" <=> found[t] \ Blank = {}
    /\ answer[t].grounding = "grounded" <=> cited[t] \cap (found[t] \ Blank) # {}
    /\ answer[t].confidence # "low" => answer[t].grounding = "grounded"
    /\ answer[t].mode \in {"mock", "fallback"} => answer[t].grounding = "grounded"

(* The inductive invariant behind them.                                    *)

\* A chat goes on when its query is back, with what that found; until it asks
\* for citations nothing is cited.
ChatFollowsQuery ==
  \A t \in Threads :
    /\ IsChat(t) => /\ pc[t] # "scroll"
                    /\ \A p \in found[t] : SessionOf[p] = plan[t][1].session
    /\ phase[t] # "query" => pc[t] = "ended" /\ IsChat(t) /\ Allowed(t) = Blocks(t)
    /\ phase[t] = "query" => ranked[t] = << >>
    /\ phase[t] \in {"query", "ask", "retry"} =>
         sources[t] = << >> /\ cited[t] = {} /\ read[t] = 0 /\ answer[t] = NoAnswer
    /\ phase[t] \in {"ask", "retry", "ground"} => Blocks(t) # {}

\* While citations are read: those kept are the valid ones read, and the
\* fallback's are all valid.
CitationsFiltered ==
  \A t \in Threads :
    /\ Seen(t) = cited[t] \cap Allowed(t)
    /\ Len(sources[t]) = Cardinality(Seen(t))
    /\ \A i \in DOMAIN sources[t] : sources[t][i].meta = MetaOf[sources[t][i].chunk]
    /\ phase[t] = "ground" =>
         /\ mode[t] # "none" /\ answer[t] = NoAnswer
         /\ mode[t] # "openai" /\ read[t] > 0 => sources[t] # << >>

\* Each chat's phase, citations and answer agree with what its query found.
ChatInv ==
  /\ TypeOK
  /\ ChatFollowsQuery
  /\ CitationsFiltered
  /\ StatusTellsGrounding
=============================================================================
