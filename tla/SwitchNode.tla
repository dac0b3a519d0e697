----------------------------- MODULE SwitchNode -----------------------------
(***************************************************************************)
(* The switch node (nodes/switch/index.js): a message goes to the output   *)
(* of every rule that its property passes. Values are those of JSON, with  *)
(* the conversions and comparisons of JavaScript; a number and a text      *)
(* carry the text they are written with. The operators on the insides of   *)
(* texts (cont, regex) are left out.                                       *)
(***************************************************************************)
EXTENDS Naturals, Sequences, SequencesExt

CONSTANTS
  Messages,  \* messages: [a, o], o being [b] or a value
  Rules,     \* rules: [t, v, v2], v and v2 being [type, value], where a path is the value
  MaxRules   \* the longest list of rules

VARIABLES config, message, result

vars == <<config, message, result>>

Undefined == [t |-> "undefined", v |-> ""]
Null == [t |-> "null", v |-> ""]
Bool(b) == [t |-> "bool", v |-> IF b THEN "true" ELSE "false"]
Num(x) == [t |-> "num", v |-> x]
Str(x) == [t |-> "str", v |-> x]
Promise == [t |-> "promise", v |-> ""]
Thrown == [t |-> "error", v |-> ""]

\* Number(value).
Number(x) ==
  CASE x.t = "num" -> x
    [] x.t = "str" -> Num(IF x.v = "" THEN "0" ELSE IF x.v = "x" THEN "NaN" ELSE x.v)
    [] x.t = "bool" -> Num(IF x.v = "true" THEN "1" ELSE "0")
    [] x.t = "null" -> Num("0")
    [] OTHER -> Num("NaN")

\* The order of numbers, and of texts.
Order == <<"", "0", "1", "2", "x">>
Rank(x) == CHOOSE i \in DOMAIN Order : Order[i] = x.v

\* Texts compare as texts, anything else as numbers, none of them NaN.
Comparands(a, b) == IF a.t = "str" /\ b.t = "str" THEN <<a, b>> ELSE <<Number(a), Number(b)>>
Compares(a, b) == \A k \in {1, 2} : Comparands(a, b)[k].v # "NaN"
Le(a, b) == Compares(a, b) /\ Rank(Comparands(a, b)[1]) <= Rank(Comparands(a, b)[2])
Lt(a, b) == Compares(a, b) /\ Rank(Comparands(a, b)[1]) < Rank(Comparands(a, b)[2])
Same(a, b) == a = b /\ a # Num("NaN")

\* operators
Holds(t, a, b, c) ==
  CASE t = "eq" -> Same(a, b)
    [] t = "neq" -> ~Same(a, b)
    [] t = "lt" -> Lt(a, b)
    [] t = "lte" -> Le(a, b)
    [] t = "gt" -> Lt(b, a)
    [] t = "gte" -> Le(b, a)
    [] t = "btwn" -> Le(b, a) /\ Le(a, c)
    [] t \in {"true", "else"} -> a = Bool(TRUE)
    [] t = "false" -> a = Bool(FALSE)
    [] t = "null" -> a \in {Undefined, Null}
    [] t = "nnull" -> a \notin {Undefined, Null}

\* _get: to look for a field of null throws.
Get(path, m) ==
  CASE path = "a" -> m.a
    [] path = "o.b" -> IF m.o = Null THEN Thrown
                       ELSE IF "b" \in DOMAIN m.o THEN m.o.b ELSE Undefined

\* _getType and _getTyped: what can be a number becomes one.
Typed(x) == IF Number(x).v # "NaN" THEN Number(x) ELSE x

\* retrieveRuleValue. An error becomes a rejected promise, taken for the value.
RuleValue(v, m) ==
  CASE v.type = "msg" -> IF Get(v.value, m) = Thrown THEN Promise ELSE Typed(Get(v.value, m))
    [] v.type = "num" -> Number(Str(v.value))
    [] v.type = "str" -> Str(v.value)
    [] v.type = "none" -> Undefined

Passes(rule, prop, m) == Holds(rule.t, prop, RuleValue(rule.v, m), RuleValue(rule.v2, m))

\* Mutant of ElseFlag: the otherwise rule looks at the rule before it only.
ElseFlagLast(flag, rule, passed) == ~passed

\* elseflag after a rule: an otherwise rule sets it again.
ElseFlag(flag, rule, passed) == ~passed /\ (flag \/ rule.t = "else")

Stops(c, passed) == c.checkall = "false" /\ passed

TryRule(c, prop, m, st, rule) ==
  LET passed == Passes(rule, IF rule.t = "else" THEN Bool(st.flag) ELSE prop, m)
  IN IF st.done THEN st
     ELSE [onward |-> Append(st.onward, passed),
           flag |-> ElseFlag(st.flag, rule, passed),
           done |-> Stops(c, passed),
           killed |-> st.killed \/ Promise \in {RuleValue(rule.v, m), RuleValue(rule.v2, m)}]

Start == [onward |-> <<>>, flag |-> TRUE, done |-> FALSE, killed |-> FALSE]

\* The loop over the rules.
Tried(c, m) ==
  LET st[n \in 0..Len(c.rules)] ==
        IF n = 0 THEN Start ELSE TryRule(c, Get(c.property, m), m, st[n - 1], c.rules[n])
  IN st[Len(c.rules)]

\* What handleMessage makes of a message: a rejection, the outputs, or, when a
\* promise is rejected that nobody looks at, the end of the process.
Outcome(c, m) ==
  IF Get(c.property, m) = Thrown THEN [status |-> "rejected"]
  ELSE IF Tried(c, m).killed THEN [status |-> "killed"]
  ELSE [status |-> "resolved", onward |-> Tried(c, m).onward]

-----------------------------------------------------------------------------

Pending == [status |-> "pending"]

Init ==
  /\ message \in Messages
  /\ \E n \in 0..MaxRules : \E rules \in [1..n -> Rules] : \E checkall \in {"true", "false"} :
       \E property \in {"a", "o.b"} :
         config = [property |-> property, checkall |-> checkall, rules |-> rules]
  /\ result = Pending

HandleMessage ==
  /\ result = Pending
  /\ result' = Outcome(config, message)
  /\ UNCHANGED <<config, message>>

Next == HandleMessage

Spec == Init /\ [][Next]_vars

-----------------------------------------------------------------------------
(* Properties *)

Prop == Get(config.property, message)
RuleAt(i) == config.rules[i]
Onward(i) == i \in DOMAIN result.onward /\ result.onward[i]
Resolved == result.status = "resolved"
Elses == {i \in DOMAIN config.rules : RuleAt(i).t = "else"}

\* A rule applies when its test passes, the only otherwise rule when none before
\* it does.
Matches(i) == Passes(RuleAt(i), Prop, message)
Applies(i) == IF i \in Elses THEN \A j \in 1..(i - 1) : ~Matches(j) ELSE Matches(i)

\* With one otherwise rule at most, an output has the message when its rule
\* applies and, if the node stops at the first match, none before it does.
OutputsFollowRules ==
  Resolved /\ (\A i, j \in Elses : i = j) =>
    \A i \in DOMAIN config.rules :
      Onward(i) <=> Applies(i) /\ (config.checkall = "true" \/ \A j \in 1..(i - 1) : ~Applies(j))

\* A list of rules that ends in an otherwise rule loses no message, and one that
\* stops at the first match duplicates none.
NeitherLostNorDoubled ==
  Resolved =>
    /\ (config.rules # <<>> /\ Last(config.rules).t = "else" => \E i \in DOMAIN config.rules : Onward(i))
    /\ (config.checkall = "false" =>
          \A i, j \in DOMAIN config.rules : Onward(i) /\ Onward(j) => i = j)
=============================================================================
