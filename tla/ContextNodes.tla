---------------------------- MODULE ContextNodes ----------------------------
(***************************************************************************)
(* The nodes that keep a context: cumulative sum, merge data, get context  *)
(* (orchestrator/nodes) and arithmetic mean (lib/samples), as users of     *)
(* ContextClient.  A call is one execution of handleMessage; the calls on  *)
(* one context are those of one node instance, for the events of several   *)
(* devices, and of get context nodes that name the same path.              *)
(***************************************************************************)
EXTENDS ContextClient, Integers, SequencesExt

CONSTANTS
  Workloads,  \* the tasks the calls may have
  Period      \* the temporal window of cumulative sum

Node == {"none", "cumulative sum", "merge data", "get context", "arithmetic mean"}

ASSUME WorkloadsAssumption ==
  \A w \in Workloads : DOMAIN w = Call /\ \A c \in Call : w[c].node \in Node

\* A cumulative sum has its context to itself and those who get it.
ASSUME SumsAssumption ==
  \A w \in Workloads : \A c \in Call : w[c].node = "cumulative sum" =>
    /\ w[c].event.timestamp \in Int /\ w[c].event.value \in Int
    /\ \A d \in Call : w[d].node \in {"none", "cumulative sum", "get context"}

ASSUME PeriodAssumption == Period \in Nat

VARIABLES
  task,     \* what handleMessage is given: the node each call executes, the event
  outcome   \* what handleMessage resolves or rejects with

nodeVars == <<task, outcome>>
vars == <<ctxVars, nodeVars>>

-----------------------------------------------------------------------------
(* What the nodes compute from a context and an event *)

SumOf(entries) ==
  LET total[n \in 0..Len(entries)] == IF n = 0 THEN 0 ELSE total[n - 1] + entries[n].value
  IN  total[Len(entries)]

NoSum == [sum |-> 0, entries |-> <<>>]

\* A context without a sum, or with the sum 0, starts again without entries.
Started(ctx) == IF "sum" \notin DOMAIN ctx \/ ctx.sum = 0 THEN NoSum ELSE ctx

\* An event older than the last one.
Messy(ctx, event) ==
  LET entries == Started(ctx).entries
  IN  entries # <<>> /\ Last(entries).timestamp > event.timestamp

\* The entries that leave the window leave the sum, the new one enters it.
CumulativeSum(ctx, event) ==
  LET entries == Started(ctx).entries
      from == SelectInSeq(entries, LAMBDA e : e.timestamp >= event.timestamp - Period)
      kept == IF from = 0 THEN <<>> ELSE SubSeq(entries, from, Len(entries))
      old  == IF from = 0 THEN entries ELSE SubSeq(entries, 1, from - 1)
  IN  [sum |-> Started(ctx).sum - SumOf(old) + event.value,
       entries |-> Append(kept, event)]

\* The attributes of the event over those of the context.
MergeData(ctx, event) == event @@ ctx

\* An attribute the context does not have counts as 0.
Attribute(ctx, name) == IF name \in DOMAIN ctx THEN ctx[name] ELSE 0

Mean(ctx, event) ==
  [counter |-> Attribute(ctx, "counter") + 1, sum |-> Attribute(ctx, "sum") + event.value]

Compute(t, ctx) ==
  CASE t.node = "cumulative sum"  -> CumulativeSum(ctx, t.event)
    [] t.node = "merge data"      -> MergeData(ctx, t.event)
    [] t.node = "arithmetic mean" -> Mean(ctx, t.event)

\* Parameters the node refuses: for cumulative sum a value or time of 0.
Valid(t) == t.node = "cumulative sum" => t.event.value # 0 /\ t.event.timestamp # 0

\* "Messy time": cumulative sum refuses an event older than its last one.
Refused(t, ctx) == t.node = "cumulative sum" /\ Messy(ctx, t.event)

LockMode(node) == IF node = "get context" THEN LOCK_UNLOCK ELSE WLOCK

-----------------------------------------------------------------------------
(* handleMessage *)

HandleMessage(c) ==
  /\ task[c].node # "none"
  /\ outcome[c] = "none"
  /\ IF Valid(task[c])
     THEN /\ LockAndGetContext(c, LockMode(task[c].node))
          /\ outcome' = [outcome EXCEPT ![c] = "running"]
     ELSE /\ outcome' = [outcome EXCEPT ![c] = "error"]
          /\ UNCHANGED ctxVars
  /\ UNCHANGED task

\* Mutant of Located: the order of the events is not looked at.
LocatedUnordered(c) ==
  /\ outcome[c] = "running"
  /\ locking[c] = "resolved" /\ unlocking[c] = "none" /\ task[c].node # "get context"
  /\ UnlockContext(c, TRUE, Compute(task[c], got[c]))
  /\ UNCHANGED nodeVars

\* The context is there: compute and save, or unlock for "Messy time".
Located(c) ==
  /\ outcome[c] = "running"
  /\ locking[c] = "resolved" /\ unlocking[c] = "none" /\ task[c].node # "get context"
  /\ IF Refused(task[c], got[c])
     THEN UnlockContext(c, FALSE, got[c])
     ELSE UnlockContext(c, TRUE, Compute(task[c], got[c]))
  /\ UNCHANGED nodeVars

\* Mutant of AfterFailedSave: a failed save goes on with the message.
AfterFailedSaveGoesOn(node) == "messages"

\* How a failed save ends: two nodes resolve with a text.
AfterFailedSave(node) ==
  IF node = "arithmetic mean" THEN "error" ELSE "text"

AfterFailedLock(node) == IF node = "merge data" THEN "text" ELSE "error"

Finish(c) ==
  /\ outcome[c] = "running"
  /\ \/ /\ locking[c] = "rejected"
        /\ outcome' = [outcome EXCEPT ![c] = AfterFailedLock(task[c].node)]
     \/ /\ task[c].node = "get context" /\ locking[c] = "resolved"
        /\ outcome' = [outcome EXCEPT ![c] = "messages"]
     \/ /\ unlocking[c] \in {"resolved", "rejected"}
        /\ outcome' = [outcome EXCEPT ![c] =
             IF Refused(task[c], got[c]) THEN "error"
             ELSE IF unlocking[c] = "resolved" THEN "messages"
             ELSE AfterFailedSave(task[c].node)]
  /\ UNCHANGED <<ctxVars, task>>

Serve ==
  /\ ServerNext \/ ClientNext
  /\ UNCHANGED nodeVars

NodesInit ==
  /\ CtxInit
  /\ task \in Workloads
  /\ outcome = [c \in Call |-> "none"]

NodesNext ==
  \/ \E c \in Call : HandleMessage(c) \/ Located(c) \/ Finish(c)
  \/ Serve

NodesSpec == NodesInit /\ [][NodesNext]_vars

\* The event loop runs what is ready; the context manager may never answer.
NodesFairSpec ==
  /\ NodesSpec
  /\ \A c \in Call :
       /\ WF_vars(Located(c)) /\ WF_vars(Finish(c))
       /\ WF_vars(TimeoutRequest(c) /\ UNCHANGED nodeVars)

-----------------------------------------------------------------------------
(* Properties *)

\* The context after the first n saves.
ContextAfter(n) == IF n = 0 THEN Empty ELSE saves[n].context

\* The context is the fold of the events whose saves were carried out, in
\* their order: each save is what its node computes from the one before, no
\* update is lost or made of a stale content.
ContextIsFold ==
  /\ content = ContextAfter(Len(saves))
  /\ \A i \in DOMAIN saves :
       saves[i].context = Compute(task[saves[i].call], ContextAfter(i - 1))

SavedEvents == [i \in DOMAIN saves |-> task[saves[i].call].event]

\* What counts of an event: nothing, when it is before the window that ends at
\* the last one.
InWindow(e) ==
  [value |-> IF e.timestamp >= Last(SavedEvents).timestamp - Period THEN e.value ELSE 0]

\* The node takes a sum of 0 for none and forgets its entries.
NoSumForgotten == \A i \in 1..(Len(saves) - 1) : saves[i].context.sum # 0

\* The sum of the saved events in the window that ends at the last one
\* (the help of the node: "the cumulative sum of a given attribute in a given
\* temporal window"), as long as no sum was 0 before.
WindowSum ==
  saves # <<>> /\ task[Last(saves).call].node = "cumulative sum" /\ NoSumForgotten =>
    content.sum = SumOf([i \in DOMAIN saves |-> InWindow(SavedEvents[i])])

\* Messages go on only for an event that entered the context, once (and always
\* do for one of "get context", which has nothing to save); arithmetic mean ends
\* with messages for the next nodes or with a failure.
OutputIsSaved ==
  \A c \in Call :
    /\ outcome[c] = "messages" /\ task[c].node # "get context" =>
         \E i \in DOMAIN saves : {j \in DOMAIN saves : saves[j].call = c} = {i}
    /\ task[c].node = "arithmetic mean" => outcome[c] # "text"

\* Every execution ends.
HandlerEnds == \A c \in Call : outcome[c] = "running" ~> outcome[c] # "running"
=============================================================================
