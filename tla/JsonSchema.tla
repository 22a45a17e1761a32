----------------------------- MODULE JsonSchema -----------------------------
(***************************************************************************)
(* The subset of JSON Schema a response is checked with                    *)
(* (utils/schema-validate.js), and what such a schema means.               *)
(*                                                                         *)
(* A JSON value is a pair of its type and its contents; a string is known  *)
(* by the patterns it matches and its length, a number is given in halves, *)
(* so that some are no integers, an object is a function on its property   *)
(* names.  A schema is a record of its keywords, in which "type" is always *)
(* a list, lists are sets, and additionalProperties with a schema in it is *)
(* a keyword of its own, additionalSchema.                                 *)
(***************************************************************************)
EXTENDS Integers, SequencesExt

CONSTANTS
    Value,      \* the JSON values there are, all that is in them included
    Schema,     \* the schemas there are, likewise
    Nesting,    \* how deep each of them is nested
    Deepest,    \* the most of it
    MaxDepth,   \* MAX_DEPTH
    MaxErrors   \* MAX_ERRORS

TypeName == {"object", "array", "string", "number", "integer", "boolean", "null"}
Annotation == {"title", "description"}
(* The keywords that are enforced; combinators, references and everything  *)
(* the validator has not heard of are refused.                             *)
Enforced == {"type", "required", "properties", "items", "additionalProperties", "enum",
             "const", "minimum", "maximum", "minLength", "maxLength", "minItems",
             "maxItems", "pattern"}

Has(schema, keyword) == keyword \in DOMAIN schema
Subschemas(schema) ==
    (IF Has(schema, "items") THEN {schema.items} ELSE {})
        \cup (IF Has(schema, "properties")
              THEN {schema.properties[name] : name \in DOMAIN schema.properties} ELSE {})
(* Those that are refused have schemas in them too. *)
Parts(schema) ==
    Subschemas(schema)
        \cup (IF Has(schema, "additionalSchema") THEN {schema.additionalSchema} ELSE {})
        \cup (IF Has(schema, "anyOf") THEN schema.anyOf ELSE {})
        \cup (IF Has(schema, "not") THEN {schema.not} ELSE {})

(* What JSON.parse makes of a text, and keywords with arguments of the     *)
(* right kind.                                                             *)
IsValue(value) ==
    LET v == value[2]
    IN  CASE value[1] = "string" -> v.length \in Nat
          [] value[1] = "number" -> v \in Int
          [] value[1] = "array"  -> v \in Seq(Value)
          [] value[1] = "object" -> IsFiniteSet(DOMAIN v) /\ \A name \in DOMAIN v : v[name] \in Value
          [] OTHER               -> value[1] \in TypeName
IsSchema(schema) ==
    /\ Has(schema, "minLength") => schema.minLength \in Nat
    /\ Has(schema, "maxLength") => schema.maxLength \in Nat
    /\ Has(schema, "minItems") => schema.minItems \in Nat
    /\ Has(schema, "maxItems") => schema.maxItems \in Nat
    /\ Has(schema, "minimum") => schema.minimum \in Int
    /\ Has(schema, "maximum") => schema.maximum \in Int
    /\ Has(schema, "required") => IsFiniteSet(schema.required)
    /\ Has(schema, "additionalProperties") => schema.additionalProperties \in BOOLEAN
    /\ \A sub \in Parts(schema) : sub \in Schema /\ Nesting[sub] < Nesting[schema]

ASSUME SchemaAssumption ==
    /\ MaxDepth \in Nat /\ MaxErrors \in Nat \ {0}
    /\ Deepest \in Nat /\ Nesting \in [Schema -> 0..Deepest]
    /\ \A value \in Value : IsValue(value)
    /\ \A schema \in Schema : IsSchema(schema)

---------------------------------------------------------------------------
(* The schemas that pass at a depth: every keyword at every level is one   *)
(* that is enforced.                                                       *)
Supported[depth \in 0..(MaxDepth + 1)] ==
    IF depth > MaxDepth THEN {}
    ELSE {schema \in Schema :
             /\ DOMAIN schema \subseteq Annotation \cup Enforced
             /\ Has(schema, "type") => schema.type # {} /\ schema.type \subseteq TypeName
             /\ Has(schema, "enum") => schema.enum # {}
             /\ Subschemas(schema) \subseteq Supported[depth + 1]}

(* Mutant of AssertSupported: what is nested is not looked at. *)
AssertSupported_Flat(schema) ==
    DOMAIN schema \subseteq Annotation \cup Enforced
(* assertSupported *)
AssertSupported(schema) == schema \in Supported[0]

MatchesType(value, name) ==
    CASE name = "integer" -> value[1] = "number" /\ value[2] % 2 = 0
      [] OTHER            -> value[1] = name

(* sameValue: deep, and blind to the order of an object's properties. *)
SameValue(a, b) == a = b

(* The messages so far, which are only counted here. *)
Out == [length : 0..MaxErrors, dropped : Nat]
(* Adds n messages, and counts those as dropped for which there is no room.*)
PushAll(out, n) ==
    LET room == MaxErrors - out.length
        kept == IF n <= room THEN n ELSE room
    IN  [length |-> out.length + kept, dropped |-> out.dropped + (n - kept)]
Push(out, found) == IF found THEN PushAll(out, 1) ELSE out

(* One test after the other, each going on with the messages so far. *)
CheckAll(tests, out) ==
    LET after[k \in 0..Len(tests)] == IF k = 0 THEN out ELSE tests[k][after[k - 1]]
    IN  after[Len(tests)]

CheckString(v, s, out) ==
    Push(Push(Push(out,
        Has(s, "minLength") /\ v.length < s.minLength),
        Has(s, "maxLength") /\ v.length > s.maxLength),
        Has(s, "pattern") /\ s.pattern \notin v.matches)

CheckNumber(v, s, out) ==
    Push(Push(out,
        Has(s, "minimum") /\ v < s.minimum),
        Has(s, "maximum") /\ v > s.maximum)

(* "check" has the tests of the schemas in s. *)
CheckArray(v, s, check, out) ==
    LET sized == Push(Push(out,
                     Has(s, "minItems") /\ Len(v) < s.minItems),
                     Has(s, "maxItems") /\ Len(v) > s.maxItems)
    IN  IF Has(s, "items") THEN CheckAll([k \in 1..Len(v) |-> check[s.items][v[k]]], sized)
        ELSE sized

(* The properties come in the order of the source, here in any: only the   *)
(* number of the messages counts.                                          *)
Named(s) == IF Has(s, "properties") THEN DOMAIN s.properties ELSE {}
CheckObject(v, s, check, out) ==
    LET missing == IF Has(s, "required") THEN s.required \ DOMAIN v ELSE {}
        extra == IF Has(s, "additionalProperties") /\ ~s.additionalProperties
                 THEN DOMAIN v \ Named(s) ELSE {}
        names == SetToSeq(Named(s) \cap DOMAIN v)
        inner == CheckAll([k \in 1..Len(names) |-> check[s.properties[names[k]]][v[names[k]]]],
                          PushAll(out, Cardinality(missing)))
    IN  PushAll(inner, Cardinality(extra))

(* _check: the type first, and nothing else when it is wrong. *)
CheckOne(value, schema, check, out) ==
    IF out.length >= MaxErrors THEN [out EXCEPT !.dropped = @ + 1]
    ELSE IF Has(schema, "type") /\ ~\E name \in schema.type : MatchesType(value, name)
    THEN Push(out, TRUE)
    ELSE LET listed == Push(Push(out,
                           Has(schema, "enum") /\ ~\E v \in schema.enum : SameValue(v, value)),
                           Has(schema, "const") /\ ~SameValue(value, schema.const))
         IN  CASE value[1] = "string" -> CheckString(value[2], schema, listed)
               [] value[1] = "number" -> CheckNumber(value[2], schema, listed)
               [] value[1] = "array"  -> CheckArray(value[2], schema, check, listed)
               [] value[1] = "object" -> CheckObject(value[2], schema, check, listed)
               [] OTHER               -> listed
CheckBy(schema, check) ==
    [value \in Value |-> [out \in Out |-> CheckOne(value, schema, check, out)]]
Check[schema \in Schema] == CheckBy(schema, [sub \in Subschemas(schema) |-> Check[sub]])

(* validate: no message, and none dropped. *)
Clean(out) == out.length = 0 /\ out.dropped = 0
Validate(value, schema) == Clean(Check[schema][value][[length |-> 0, dropped |-> 0]])

---------------------------------------------------------------------------
(* What a schema means, the keywords that are refused here included        *)
(* ("anyOf", "not" and such): a value conforms if it satisfies every *)
(* keyword that speaks about values of its type.  "meant" has the meaning  *)
(* of the schemas in it.                                                   *)
Meets(value, schema, meant) ==
    LET Is(type, keyword) == value[1] = type /\ Has(schema, keyword)
        v == value[2]
    IN  /\ Has(schema, "type") => \E name \in schema.type : MatchesType(value, name)
        /\ Has(schema, "enum") => value \in schema.enum
        /\ Has(schema, "const") => value = schema.const
        /\ Is("string", "minLength") => v.length >= schema.minLength
        /\ Is("string", "maxLength") => v.length <= schema.maxLength
        /\ Is("string", "pattern") => schema.pattern \in v.matches
        /\ Is("number", "minimum") => v >= schema.minimum
        /\ Is("number", "maximum") => v <= schema.maximum
        /\ Is("array", "minItems") => Len(v) >= schema.minItems
        /\ Is("array", "maxItems") => Len(v) <= schema.maxItems
        /\ Is("array", "items") => \A k \in 1..Len(v) : v[k] \in meant[schema.items]
        /\ Is("array", "uniqueItems") => \A j, k \in 1..Len(v) : v[j] = v[k] => j = k
        /\ Is("object", "required") => schema.required \subseteq DOMAIN v
        /\ Is("object", "properties") =>
              \A name \in DOMAIN v \cap DOMAIN schema.properties :
                  v[name] \in meant[schema.properties[name]]
        /\ Is("object", "additionalProperties") =>
              schema.additionalProperties \/ DOMAIN v \subseteq Named(schema)
        /\ Is("object", "additionalSchema") =>
              \A name \in DOMAIN v : v[name] \in meant[schema.additionalSchema]
        /\ Has(schema, "anyOf") => \E sub \in schema.anyOf : value \in meant[sub]
        /\ Has(schema, "not") => value \notin meant[schema.not]
Meaning[schema \in Schema] ==
    LET meant == [sub \in Parts(schema) |-> Meaning[sub]]
    IN  {value \in Value : Meets(value, schema, meant)}
Conforms(value, schema) == value \in Meaning[schema]
=============================================================================
