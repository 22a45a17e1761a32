---------------------------- MODULE MCExchange ----------------------------
(* Exchange for TLC: many requests that expect nothing, and one request    *)
(* with many expectations.                                                 *)
EXTENDS Exchange, TLC

MCHole == ("{{a}}" :> [name |-> "a", filter |-> "none"]
        @@ "{{a|enc}}" :> [name |-> "a", filter |-> "encode"]
        @@ "{{c}}" :> [name |-> "c", filter |-> "none"])
MCLower == [n \in {"x", "X", "host", "Host", "content-type", "Content-Type",
                   "content-length", "proxy-connection", "accept-encoding", "composed", "replayed"} |->
               CASE n = "X" -> "x" [] n = "Host" -> "host"
                 [] n = "Content-Type" -> "content-type" [] OTHER -> n]
MCTarget == <<"target">>

Field(name, value) == [name |-> name, value |-> value]
Paths == {<<"/", "p">>, <<"{{a}}">>, <<"/", "{{a|enc}}">>, <<"/", "{{c}}">>, <<"/", "{{?}}">>,
          <<"/", "nl">>, <<"p">>}
Values == {None, Unusable, <<>>, [a |-> <<"/", "p">>], [a |-> <<"p", "nl">>], [a |-> <<"{{b}}">>]}
Headers == {<<>>, <<Field("Host", <<"p">>)>>, <<Field("x", <<"{{a}}">>)>>,
            <<Field("X", <<"p">>), Field("x", <<"q">>)>>,
            <<Field("Content-Type", <<"form">>), Field("proxy-connection", <<"p">>)>>}
Bodies(route) == {[kind |-> "none", text |-> <<>>], [kind |-> "string", text |-> <<"p">>],
                  [kind |-> "document", text |-> <<"{{a}}">>]}
    \cup (IF route = "replay" THEN {[kind |-> "absent", text |-> <<>>]} ELSE {})
(* What a device sends: of every type, none of it, and too much. *)
Device(type, text) ==
    [path |-> <<"/", "{{c}}">>,
     headers |-> <<Field("X", <<"q">>), Field("Host", <<"q">>), Field("Content-Type", <<type>>)>>,
     sent |-> [type |-> type, text |-> text]]
Sent == {<<>>, <<"q">>, <<"[k]", "{{a}}">>, <<"q", "q", "q">>, <<"q", "q", "q", "q">>}
Plain == Device("text", <<"q">>)
NoExpect == [k \in {} |-> 0]
Asked(route, path, headers, b, values, expect, device) ==
    [route |-> route, path |-> path, headers |-> headers, body |-> b, vars |-> values,
     expect |-> expect, device |-> device]

Schemas ==
    {[type |-> {"integer"}], [type |-> {"number"}, minimum |-> 2, maximum |-> 3],
     [title |-> "t", type |-> {"string", "null"}, minLength |-> 2, pattern |-> "x"],
     [maxLength |-> 1], [const |-> <<"null", 0>>], [enum |-> {<<"number", 2>>, <<"array", <<>>>>}],
     [type |-> {"array"}, items |-> [type |-> {"integer"}], minItems |-> 1],
     [items |-> [minimum |-> 3], maxItems |-> 2], [items |-> [not |-> [type |-> {"number"}]]],
     [items |-> [items |-> [items |-> [type |-> {"null"}]]]], [uniqueItems |-> TRUE],
     [properties |-> [i |-> [type |-> {"integer"}]], required |-> {"i", "j"}],
     [properties |-> [i |-> [minimum |-> 3]], additionalProperties |-> FALSE],
     [additionalSchema |-> [type |-> {"null"}]], [anyOf |-> {[type |-> {"null"}]}],
     [type |-> {"int"}]}
(* With what is nested in them, once, twice and three times. *)
Nested(S) == UNION {Parts(s) : s \in S}
MCSchema == Schemas \cup Nested(Schemas) \cup Nested(Nested(Schemas))
                \cup Nested(Nested(Nested(Schemas)))
MCNesting == [s \in MCSchema |->
    IF Parts(s) = {} THEN 0 ELSE IF Nested(Parts(s)) = {} THEN 1
    ELSE IF Nested(Nested(Parts(s))) = {} THEN 2 ELSE 3]
Expectations ==
    {[status |-> 200]} \cup {[schema |-> s] : s \in Schemas}
        \cup {[status |-> 200, schema |-> s] : s \in Schemas}

MCRequests ==
    {Asked(route, path, headers, b, values, NoExpect, Plain) :
        route \in {"send", "saved"}, path \in Paths, headers \in Headers, b \in Bodies("send"),
        values \in Values}
    \cup {Asked("replay", path, headers, b, values, NoExpect, device) :
        path \in {<<"/", "p">>, <<"/", "{{a|enc}}">>, <<"/", "nl">>, <<>>}, headers \in Headers,
        b \in Bodies("replay"), values \in Values,
        device \in {Device(type, <<"q">>) : type \in {"json", "text"}}}
    \cup {Asked("replay", <<>>, headers, [kind |-> "absent", text |-> <<>>], values, NoExpect,
                Device(type, text)) :
        headers \in Headers, values \in Values,
        type \in {"json", "form", "text", "other"}, text \in Sent}
    \cup {Asked("send", <<"/", "p">>, <<>>, [kind |-> "none", text |-> <<>>], None, e, Plain) :
        e \in Expectations}

Str(n, patterns) == <<"string", [length |-> n, matches |-> patterns]>>
MCParse ==
    (<<"1">> :> <<"number", 2>> @@ <<"1", "2">> :> <<"number", 24>>
        @@ <<"1", ".5">> :> <<"number", 3>> @@ <<"1", "2", "3", "4">> :> <<"number", 2468>>
        @@ <<"s">> :> Str(1, {}) @@ <<"s", "x">> :> Str(2, {"x"}) @@ <<"null">> :> <<"null", 0>>
        @@ <<"[", "]">> :> <<"array", <<>>>>
        @@ <<"[", "1", "]">> :> <<"array", <<<<"number", 2>>>>>>
        @@ <<"[", "1,1", "]">> :> <<"array", <<<<"number", 2>>, <<"number", 2>>>>>>
        @@ <<"[", "s,1.5", "]">> :> <<"array", <<Str(1, {}), <<"number", 3>>>>>>
        @@ <<"{", "}">> :> <<"object", [k \in {} |-> 0]>>
        @@ <<"{", "i:1", "}">> :> <<"object", [i |-> <<"number", 2>>]>>
        @@ <<"{", "i:1.5,k:1", "}">> :> <<"object", [i |-> <<"number", 3>>, k |-> <<"number", 2>>]>>)
Inside(v) == CASE v[1] = "array" -> Range(v[2]) [] v[1] = "object" -> Range(v[2]) [] OTHER -> {}
MCValue == LET whole == Range(MCParse) IN whole \cup UNION {Inside(v) : v \in whole}
MCAnswers ==
    {[status |-> 200, text |-> t] : t \in DOMAIN MCParse \cup {<<>>, <<"<html>">>}}
        \cup {[status |-> 500, text |-> <<"1">>]}
=============================================================================
