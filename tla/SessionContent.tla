---------------------------- MODULE SessionContent ----------------------------
(***************************************************************************)
(* What the service promises of the documents of a session, whatever the   *)
(* threads, locks, faults and crashes behind it: one change at a time; an  *)
(* upload adds to an owned session, and takes older points away only when  *)
(* its own are all there; a deletion gives the session up when it is empty.*)
(***************************************************************************)
CONSTANTS Sessions, Docs, SourceOf,
          PointsOf(_, _),   \* a document's points in a session
          Nothing           \* no change is under way

VARIABLES
  owned,      \* the sessions somebody owns
  content,    \* all points
  change      \* change[s]: the document being stored, "deletion", or Nothing

contentVars == <<owned, content, change>>

ContentInit ==
  /\ owned = {}
  /\ content = {}
  /\ change = [s \in Sessions |-> Nothing]

Open(s) ==
  /\ owned' = owned \cup {s}
  /\ UNCHANGED <<content, change>>

Begin(s) ==
  /\ change[s] = Nothing
  /\ \E c \in Docs \cup {"deletion"} : change' = [change EXCEPT ![s] = c]
  /\ UNCHANGED <<owned, content>>

\* Part of a document comes in.
Add(s) ==
  /\ change[s] \in Docs
  /\ s \in owned
  /\ content \subseteq content'
  /\ content' \ content \subseteq PointsOf(s, change[s])
  /\ UNCHANGED <<owned, change>>

\* What an earlier version had, and the stored one has not, goes.
Replace(s) ==
  /\ change[s] \in Docs
  /\ PointsOf(s, change[s]) \subseteq content'
  /\ content' \subseteq content
  /\ \A p \in content \ content' : p.session = s /\ p.source = SourceOf[change[s]]
  /\ UNCHANGED <<owned, change>>

Erase(s) ==
  /\ change[s] = "deletion"
  /\ content' = {p \in content : p.session # s}
  /\ UNCHANGED <<owned, change>>

GiveUp(s) ==
  /\ change[s] = "deletion"
  /\ \A p \in content : p.session # s
  /\ owned' = owned \ {s}
  /\ UNCHANGED <<content, change>>

\* Changes end, one or, in a crash, all; whether complete is not promised.
End ==
  /\ \A s \in Sessions : change'[s] \in {change[s], Nothing}
  /\ change' = [s \in Sessions |-> change'[s]]
  /\ UNCHANGED <<owned, content>>

ContentNext ==
  \/ \E s \in Sessions :
       Open(s) \/ Begin(s) \/ Add(s) \/ Replace(s) \/ Erase(s) \/ GiveUp(s)
  \/ End

ContentSpec == ContentInit /\ [][ContentNext]_contentVars
-----------------------------------------------------------------------------
\* At the abstract level already: no point without an owner.
EveryPointIsOwned == \A p \in content : p.session \in owned
===============================================================================
