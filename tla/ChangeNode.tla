---------------------------- MODULE ChangeNode ------------------------------
(***************************************************************************)
(* The change node (nodes/change/index.js) and the reading and writing of  *)
(* message fields that all nodes share (lib/DataHandlerBase.js): the rules *)
(* on the objects the message is made of, and what they say, on trees.     *)
(***************************************************************************)
EXTENDS Naturals, Sequences, SequencesExt

CONSTANTS
  Rules,     \* rules: [t, p, tot, to]; to is a path, or a plain value [kind, v]
  Messages,  \* messages, as their objects: the first is the root
  MaxRules,
  Fields,    \* names of fields
  MaxDepth,  \* bounds the paths that are looked at
  Numerals,  \* texts that read as numbers
  Lower      \* texts in lower case

VARIABLES rules, message, result

vars == <<rules, message, result>>

\* Values of fields: plain ones, and references to objects.
Atom(type, v) == [kind |-> type, v |-> v, id |-> 0]
Ref(i) == [kind |-> "object", v |-> "", id |-> i]
Unknown == [kind |-> "unknown", v |-> "", id |-> 0]

-----------------------------------------------------------------------------
(* DataHandlerBase *)

\* What a field of a value is.
Field(at, key, objects) ==
  IF at.kind = "object" /\ key \in DOMAIN objects[at.id] THEN objects[at.id][key] ELSE Unknown

\* _get: a field that is not there throws.
Get(path, objects) ==
  LET at[n \in 0..Len(path)] == IF n = 0 THEN Ref(1) ELSE Field(at[n - 1], path[n], objects)
  IN at[Len(path)]

Written(object, key, value) ==
  [k \in DOMAIN object \cup {key} |-> IF k = key THEN value ELSE object[k]]

\* One step of _set on its way: objects that are not there are made; a field of a
\* plain value cannot be.
Descend(st, key) ==
  IF st.at.kind = "object" /\ key \notin DOMAIN st.objects[st.at.id]
  THEN LET new == Ref(Len(st.objects) + 1)
       IN [objects |-> Append([st.objects EXCEPT ![st.at.id] = Written(@, key, new)], <<>>), at |-> new]
  ELSE [st EXCEPT !.at = Field(@, key, st.objects)]

\* _set: the objects afterwards, none when it throws.
Set(path, value, objects) ==
  LET way[n \in 0..(Len(path) - 1)] ==
        IF n = 0 THEN [objects |-> objects, at |-> Ref(1)] ELSE Descend(way[n - 1], path[n])
      end == way[Len(path) - 1]
  IN IF end.at.kind # "object" THEN <<>>
     ELSE [end.objects EXCEPT ![end.at.id] = Written(@, path[Len(path)], value)]

\* Plain values are no objects, and are there.
Plain(value) == value.kind \notin {"object", "unknown"}

\* The objects of a message that was parsed from JSON: a field is plain or an
\* object that is in no other field.
IsTree(objects) ==
  /\ Len(objects) \in Nat \ {0} /\ objects = [i \in 1..Len(objects) |-> objects[i]]
  /\ \A i \in 1..Len(objects) : \A k \in DOMAIN objects[i] :
       \/ Plain(objects[i][k])
       \/ objects[i][k].id \in 2..Len(objects) /\ objects[i][k] = Ref(objects[i][k].id)
  /\ \A i, j \in 1..Len(objects) : \A k \in DOMAIN objects[i], l \in DOMAIN objects[j] :
       objects[i][k] = objects[j][l] /\ ~Plain(objects[i][k]) => i = j /\ k = l

-----------------------------------------------------------------------------
(* handleMessage *)

\* Number(x), of a plain value.
ToNumber(x) ==
  CASE x.kind = "num" -> x.v
    [] x.kind = "bool" -> IF x.v = "true" THEN "1" ELSE "0"
    [] x.kind = "str" -> IF x.v = "" THEN "0" ELSE IF x.v \in Numerals THEN x.v ELSE "NaN"

\* toLowerCase throws on what is no text.
Legible(rule) ==
  rule.tot \in {"str", "num"} \/ (rule.tot \in {"bool", "boolean"} /\ rule.to.kind = "str")

\* What a literal rule writes.
Literal(rule) ==
  CASE rule.tot = "str" -> Atom(rule.to.kind, rule.to.v)
    [] rule.tot = "num" -> Atom("num", ToNumber(rule.to))
    [] rule.tot \in {"bool", "boolean"} ->
         Atom("bool", IF Lower[rule.to.v] \in {"1", "true"} THEN "true" ELSE "false")

\* The value of a set rule; unknown when it is of another type, or not there.
RuleValue(rule, objects) ==
  CASE Legible(rule) -> Literal(rule)
    [] rule.tot = "msg" -> Get(rule.to, objects)
    [] OTHER -> Unknown

\* Rules of other kinds are passed over.
Applies(rule) == rule.t = "set"

\* No objects stand for a rejection.
TryRule(objects, rule) ==
  IF objects = <<>> \/ ~Applies(rule) THEN objects
  ELSE IF RuleValue(rule, objects) = Unknown THEN <<>>
  ELSE Set(rule.p, RuleValue(rule, objects), objects)

\* The objects after each of the rules.
Tried(rs, objects) ==
  LET st[n \in 0..Len(rs)] == IF n = 0 THEN objects ELSE TryRule(st[n - 1], rs[n]) IN st

Outcome(rs, objects) == Tried(rs, objects)[Len(rs)]

Pending == [status |-> "pending"]

Init ==
  /\ message \in Messages
  /\ \E n \in 0..MaxRules : rules \in [1..n -> Rules]
  /\ result = Pending

HandleMessage ==
  /\ result = Pending
  /\ result' = LET objects == Outcome(rules, message)
               IN IF objects = <<>> THEN [status |-> "rejected"]
                  ELSE [status |-> "resolved", objects |-> objects]
  /\ UNCHANGED <<rules, message>>

Next == HandleMessage

Spec == Init /\ [][Next]_vars

-----------------------------------------------------------------------------
(* What the rules say.  A tree gives each path its value, "object" for an   *)
(* inner one.                                                               *)

Paths == SeqOf(Fields, MaxDepth)

\* Rules of the editor name a field, and a plain value or where they copy from.
IsRule(rule) ==
  rule.t = "set" =>
    /\ rule.p \in Paths \ {<<>>}
    /\ IF rule.tot = "msg" THEN rule.to \in Paths ELSE rule.to.kind \in {"str", "num", "bool"}

\* The tree the objects show.
TreeOf(objects) ==
  [p \in {q \in Paths : Get(q, objects) # Unknown} |->
     [kind |-> Get(p, objects).kind, v |-> Get(p, objects).v]]

Inner == [kind |-> "object", v |-> ""]

Below(p, tree) == {q \in DOMAIN tree : IsPrefix(p, q)}

\* The tree with sub at p.
Grafted(tree, p, sub) ==
  [q \in (DOMAIN tree \ Below(p, tree)) \cup {r \in Paths : IsStrictPrefix(r, p)}
         \cup {r \in Paths : IsPrefix(p, r) /\ SubSeq(r, Len(p) + 1, Len(r)) \in DOMAIN sub} |->
     IF IsPrefix(p, q) THEN sub[SubSeq(q, Len(p) + 1, Len(q))]
     ELSE IF q \in DOMAIN tree THEN tree[q] ELSE Inner]

SubTree(tree, p) ==
  [q \in {r \in Paths : p \o r \in DOMAIN tree} |-> tree[p \o q]]

\* A rule can be followed: its value is legible, or there to take, and nothing
\* plain is on its way. "Nothing" marks the tree of a message that fails.
Nothing == <<>>

Said(tree, rule) ==
  IF tree = Nothing \/ rule.t # "set" THEN tree
  ELSE IF \/ rule.tot # "msg" /\ ~Legible(rule)
          \/ rule.tot = "msg" /\ rule.to \notin DOMAIN tree
          \/ \E q \in DOMAIN tree : IsStrictPrefix(q, rule.p) /\ tree[q] # Inner
       THEN Nothing
       ELSE Grafted(tree, rule.p,
              IF rule.tot = "msg" THEN SubTree(tree, rule.to)
              ELSE [q \in {<<>>} |-> [kind |-> Literal(rule).kind, v |-> Literal(rule).v]])

SaidByAll ==
  LET tree[n \in 0..Len(rules)] == IF n = 0 THEN TreeOf(message) ELSE Said(tree[n - 1], rules[n])
  IN tree[Len(rules)]

InTurn ==
  /\ result.status = "rejected" <=> SaidByAll = Nothing
  /\ result.status = "resolved" => TreeOf(result.objects) = SaidByAll

-----------------------------------------------------------------------------
(* Properties *)

\* Whether a rule takes an object of the message, when its turn comes.
TakesObject ==
  \E i \in DOMAIN rules :
    /\ rules[i].t = "set" /\ rules[i].tot = "msg"
    /\ LET before == Tried(rules, message)[i - 1]
       IN before # <<>> /\ Get(rules[i].to, before).kind = "object"

\* As long as plain values are copied, the message handed on is the one the set
\* rules describe one after the other, fields they do not name included, and
\* the node fails exactly when one of them cannot be followed.
PlainSetsInTurn == result # Pending /\ ~TakesObject => InTurn
=============================================================================
