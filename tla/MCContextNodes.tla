--------------------------- MODULE MCContextNodes ---------------------------
(***************************************************************************)
(* ContextNodes for TLC, and the users of ContextClient by themselves: the *)
(* initial state says in part which of them the behaviour belongs to.      *)
(***************************************************************************)
EXTENDS ContextNodes, TLC

CONSTANTS c1, c2, c3

VARIABLE part  \* "pair", "three": any users; "nodes": one of the workloads

mcVars == <<part, vars>>

\* A writer, a writer or reader, and one who locks, gets and unlocks.
AnyModes == (c1 :> {WLOCK}) @@ (c2 :> {RLOCK, WLOCK}) @@ (c3 :> {LOCK_UNLOCK})

Task(node, event) == [node |-> node, event |-> event]
NoTask == Task("none", Empty)

Event(t, v) == [timestamp |-> t, value |-> v]

\* Three events of a cumulative sum: with Period 1 the first leaves the window
\* of the third, and no sum is 0.
Sums ==
  (c1 :> Task("cumulative sum", Event(1, 1))) @@ (c2 :> Task("cumulative sum", Event(2, 2)))
    @@ (c3 :> Task("cumulative sum", Event(3, 4)))

\* Two events merged, which both write attribute a, and a get.
Merges ==
  (c1 :> Task("merge data", [a |-> 1, b |-> 1])) @@ (c2 :> Task("merge data", [a |-> 2]))
    @@ (c3 :> Task("get context", Empty))

\* Two events of an arithmetic mean.
Means ==
  (c1 :> Task("arithmetic mean", Event(1, 1))) @@ (c2 :> Task("arithmetic mean", Event(2, 2)))
    @@ (c3 :> NoTask)

AllWorkloads == {Sums, Merges, Means}

\* Any users save as merge data does: what they read and their own mark.
Marks == [c \in Call |-> Task("merge data", c :> TRUE)]

MCInit ==
  \/ part = "nodes" /\ NodesInit
  \/ /\ part \in {"pair", "three"}
     /\ CtxInit
     /\ task = Marks
     /\ outcome = [c \in Call |-> "none"]

MCNext ==
  /\ \/ part = "pair" /\ Next /\ locking'[c3] = "none" /\ UNCHANGED nodeVars
     \/ part = "three" /\ Next /\ UNCHANGED nodeVars
     \/ part = "nodes" /\ NodesNext
  /\ UNCHANGED part

-----------------------------------------------------------------------------
(* The fairness of ContextClient for the pair, of ContextNodes for the     *)
(* means.                                                                  *)

others == <<part, nodeVars>>

Fairness ==
  \A c \in {c1, c2} :
    /\ WF_mcVars(part = "pair" /\ OnMessage(c) /\ UNCHANGED others)
    /\ WF_mcVars(part = "pair" /\ TimeoutRequest(c) /\ UNCHANGED others)
    /\ WF_mcVars(part = "pair" /\ Grant(c) /\ UNCHANGED others)
    /\ WF_mcVars(part = "pair" /\ RecvUnlock(c) /\ UNCHANGED others)
    /\ WF_mcVars(part = "pair" /\ HoldTimeout(c) /\ UNCHANGED others)
    /\ WF_mcVars(part = "pair" /\ Unlocked(c) /\ UNCHANGED others)
    /\ WF_mcVars(part = "pair" /\ entry[c] = Processing /\ Release(c) /\ UNCHANGED others)
    /\ WF_mcVars(task = Means /\ part = "nodes" /\ Located(c) /\ UNCHANGED part)
    /\ WF_mcVars(task = Means /\ part = "nodes" /\ Finish(c) /\ UNCHANGED part)
    /\ WF_mcVars(task = Means /\ part = "nodes" /\ TimeoutRequest(c) /\ UNCHANGED others)

MCSpec == MCInit /\ [][MCNext]_mcVars /\ Fairness

\* Every promise of the client is settled and every execution of a handler ends;
\* a lock granted to a request that had expired at the client comes back, and
\* contextMap empties.
ContextsSettle ==
  /\ part = "pair" => Settled /\ NothingLeftBehind
  /\ task = Means => HandlerEnds
=============================================================================
