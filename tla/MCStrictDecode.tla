--------------------------- MODULE MCStrictDecode ---------------------------
(***************************************************************************)
(* Documents of a type like landlock's Profile: a list of rules with a     *)
(* required port.  "Name" and "name" are fields of two structs that fold   *)
(* alike, which no profile type has today and fields.go provides for.      *)
(***************************************************************************)
EXTENDS StrictDecode

MCNames == <<"Name", "PORT", "Port", "Rules", "name", "note", "port", "rules">>
MCFold == [n \in ToSet(MCNames) |->
             CASE n \in {"Name", "name"} -> "NAME" [] n \in {"PORT", "Port", "port"} -> "PORT"
               [] n \in {"Rules", "rules"} -> "RULES" [] n = "note" -> "NOTE"]
Field(type, required) == [type |-> type, required |-> required]
MCFields ==
  [Profile |-> [Name |-> Field(TextType, FALSE),
                rules |-> Field(ListOf(StructOf("Rule")), FALSE)],
   Rule |-> [name |-> Field(TextType, FALSE), port |-> Field(NumberType, TRUE)]]

Ports == {<<n, v>> : n \in {"port", "Port"}, v \in {Null, Number(0), Number(80)}}
Others == {<<"name", Text("a")>>, <<"Name", Text("a")>>, <<"note", Text("port")>>,
           <<"note", Object(<< <<"name", Null>>, <<"Name", Null>> >>)>>}
RuleObjects ==
  {Object(<<>>)}
    \cup {Object(<<m>>) : m \in Ports \cup Others}
    \cup {Object(<<m, n>>) : m \in Ports, n \in Ports \cup Others}
    \cup {Object(<<n, <<"port", Number(80)>>, n>>) : n \in Ports}
    \cup {Object(<< <<"Port", v>>, <<"PORT", w>> >>) : v, w \in {Null, Number(0)}}

Plain == Object(<< <<"port", Number(80)>> >>)
Lists == {Array(<<>>), Null, Array(<<Plain>>), Array(<<Null, Object(<<>>), Object(<<>>)>>), Array(<<Object(<<>>)>>),
          Array(<<Plain, Object(<< <<"Port", Number(80)>>, <<"note", Null>> >>)>>),
          Array(<<Object(<< <<"note", Null>>, <<"port", Number(0)>> >>)>>), Number(80)}

Profiles ==
  {Object(<< <<"rules", Array(<<rule>>)>> >>) : rule \in RuleObjects}
    \cup {Object(<< <<n, list>> >>) : n \in {"rules", "Rules", "note"}, list \in Lists}
    \cup {Object(<< <<"rules", one>>, <<n, other>> >>) : n \in {"rules", "Rules"}, one, other \in Lists}
    \cup {Object(<< <<n, Text("a")>>, <<"rules", list>> >>) : n \in {"Name", "name", "note"}, list \in Lists}

Documents == Profiles \cup {Null, Number(0), Array(<<>>), Object(<<>>)}

Given(document, trailing, utf8, policy) ==
  [document |-> document, trailing |-> trailing, utf8 |-> utf8, policy |-> policy]

MCPolicies == {{}, Rejectable} \cup {Rejectable \ {c} : c \in Rejectable}

\* Every document alone, and lists of two under policies of their own.
Sampled == {Object(<< <<"rules", Array(<<Plain>>)>> >>), Object(<< <<"note", Null>> >>)}
MCInputs ==
  {<<Given(d, FALSE, TRUE, p)>> : d \in Documents, p \in MCPolicies}
    \cup {<<Given(d, t, u, p)>> : d \in Sampled \cup {Null}, t, u \in BOOLEAN, p \in MCPolicies}
    \cup {<<Given(d, FALSE, u, p), Given(e, FALSE, TRUE, q)>> :
            d, e \in Sampled, u \in BOOLEAN, p, q \in {{}, {"unknown"}, {"utf8"}}}
=============================================================================
