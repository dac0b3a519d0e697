--------------------------- MODULE MCNodeHandlers ---------------------------
(***************************************************************************)
(* NodeHandlers for TLC: messages, rules, responses, devices and files of  *)
(* the kinds the code tells apart.                                         *)
(***************************************************************************)
EXTENDS NodeHandlers, TLC

-----------------------------------------------------------------------------
(* Switch: every list of three rules, of every operator, on messages of    *)
(* every kind.                                                             *)

Val(t, v) == [t |-> t, v |-> v]
Values == {Val("undefined", ""), Val("null", ""), Val("bool", "true"), Val("bool", "false"),
           Val("num", "0"), Val("num", "1"), Val("num", "2"),
           Val("str", ""), Val("str", "1"), Val("str", "x")}
AnyMessage ==
  [a : Values, o : {Val("null", ""), Val("undefined", "")}
                   \cup [b : {Val("num", "1"), Val("str", "x"), Val("bool", "true")}]]

None == [type |-> "none", value |-> ""]
Of(type, value) == [type |-> type, value |-> value]
Rule(t, v) == [t |-> t, v |-> v, v2 |-> None]
SomeRules ==
  {Rule("eq", Of("num", "1")), Rule("neq", Of("str", "1")), Rule("lt", Of("msg", "o.b")),
   Rule("lte", Of("num", "1")), Rule("gt", Of("str", "x")), Rule("gte", Of("msg", "a")),
   [t |-> "btwn", v |-> Of("num", "1"), v2 |-> Of("msg", "o.b")]}
  \cup {Rule(t, None) : t \in {"true", "false", "null", "nnull", "else"}}

-----------------------------------------------------------------------------
(* Change: messages of two fields, plain or objects with a field of their  *)
(* own, and rules that set, and read, either, or are refused.              *)

Atom(type, v) == [kind |-> type, v |-> v, id |-> 0]
Ref(i) == [kind |-> "object", v |-> "", id |-> i]
ChangedPaths == {<<"a">>, <<"b">>, <<"a", "x">>, <<"b", "x">>}
SmallMessages ==
  {<<[a |-> Atom("num", "0")]>>,
   <<[a |-> Ref(2)], [x |-> Atom("str", "s")]>>,
   <<[a |-> Ref(2), b |-> Ref(3)], [x |-> Atom("str", "s")], [x |-> Atom("num", "0")]>>}
Str(v) == [kind |-> "str", v |-> v]
Num(v) == [kind |-> "num", v |-> v]
SetsAndDeletes ==
  [t : {"set"}, p : ChangedPaths, tot : {"str"}, to : {Str("v")}]
  \cup [t : {"set"}, p : ChangedPaths, tot : {"msg"}, to : ChangedPaths]
  \cup [t : {"set"}, p : {<<"b">>}, tot : {"num"}, to : {Str("7"), Str("v")}]
  \cup [t : {"set"}, p : {<<"b">>}, tot : {"bool"}, to : {Str("TRUE"), Num("7")}]
  \cup [t : {"set"}, p : {<<"b">>}, tot : {"boolean"}, to : {Str("v")}]
  \cup [t : {"set"}, p : {<<"b">>}, tot : {"json"}, to : {Str("v")}]
  \cup [t : {"delete"}, p : {<<"a">>}, tot : {"str"}, to : {Str("v")}]

InLowerCase == [v \in {"v", "7", "TRUE"} |-> IF v = "TRUE" THEN "true" ELSE v]

-----------------------------------------------------------------------------
(* Http: every configuration, responses of up to three pieces. *)

Requests ==
  [url : {"none", "templated", "no protocol", "http", "other"},
   body : {"absent", "not JSON", "null", "undefined", "text", "number", "object"},
   method : {"GET", "POST", "PUT", "PATCH", "DELETE"},
   type : {"unset", "set"},
   ret : {"txt", "obj", "bin"}, response : {"unset", "set"}]

Pieces == {"a", "b", "c"}
Responses == {<<>>, <<"a">>, <<"a", "b">>, <<"a", "b", "c">>}

-----------------------------------------------------------------------------
(* Output nodes: every node with every outcome of the paths it reads, lists *)
(* with repeated devices, an empty list, and the editor's default list of   *)
(* one empty name; a failing publish, the process killed twice.             *)

Paths == {<<"unset", <<>>>>, <<"absent", <<>>>>, <<"one", <<"d1">>>>,
          <<"list", <<>>>>, <<"list", <<"d1", "d2", "d1">>>>, <<"list", <<"d2", "d2">>>>}
Attributes == {"unset", "absent", "there"}
Sources == {"configured", "self", "dynamic", "other"}

Outputs ==
  [kind : {"multi device out", "multi actuate"}, attrs : Attributes, source : Sources,
   origin : {"d3"}, configured : {<<>>, <<"">>, <<"d1", "d1", "d2">>}, dynamic : Paths]
  \cup [kind : {"device out", "actuate"}, attrs : Attributes, source : Sources,
        origin : {"d3"}, configured : {<<>>, <<"d1">>}, dynamic : Paths]
  \cup [kind : {"notification"}, meta : {"unset", "absent", "object", "not an object"},
        text : {"absent", "empty", "string", "other"}]
  \cup [kind : {"publish-ftp"}, filename : Attributes, content : Attributes]

-----------------------------------------------------------------------------
(* Ftp: messages for one file.                                             *)

Upload(u, p, r) == [url |-> u, paths |-> p, response |-> r]
Uploads == {Upload("set", "there", "set"), Upload("set", "there", "unset"),
            Upload("undefined", "there", "set"), Upload("empty", "there", "set"), Upload("set", "absent", "set")}
=============================================================================
