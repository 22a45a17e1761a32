------------------------------ MODULE Exchange ------------------------------
(***************************************************************************)
(* A request sent from the dashboard, the command line or a client, and    *)
(* the check of its answer (utils/admin/send.js with utils/template.js,    *)
(* utils/header-case.js, utils/form-encode.js, utils/schema-validate.js).  *)
(*                                                                         *)
(* Three routes lead to sendViaProxy: /send (a request typed), /saved      *)
(* (/saved-requests/:id/send, a file) and /replay (a captured request with *)
(* edits; what is captured of a device's request is decided by             *)
(* utils/body-capture.js and utils/request-log.js).  A text is a sequence  *)
(* of tokens: the templates in it, "/", line breaks, bracketed keys, and   *)
(* everything else.  The answer is collected piece by piece up to a limit  *)
(* when an expectation is going to read it, and told by each caller in its *)
(* own words.                                                              *)
(***************************************************************************)
EXTENDS JsonSchema

CONSTANTS
    Requests,     \* what is asked: route, path, headers, body, vars, expect,
                  \* and for a replay what the device had sent
    Answers,      \* what the proxy may answer: a status and a text
    Hole,         \* the well-formed templates -> their variable and filter
    Odd,          \* text in double braces that is no template
    Braces,       \* a token of a value that looks like a template
    Lower,        \* header names -> the same in lower case
    Parse,        \* JSON.parse: texts -> values, those that are JSON
    MaxBytes,     \* MAX_VALIDATE_BYTES, in tokens
    MaxParse,     \* MAX_PARSE_BYTES, in tokens
    MaxChars,     \* MAX_BODY_CHARS, in tokens
    Target,       \* the instance's host, as a text
    Elsewhere,    \* what another host, or none, is reached by
    Unusable,     \* variables with a bad name, too long, or too many
    None

(* A text is a sequence of tokens; those in Template are to be resolved.   *)
IsText(text) == text \in Seq(Range(text))
Template == DOMAIN Hole \cup Odd
OneLine(text) == "nl" \notin Range(text)

HeaderName == DOMAIN Lower
AreHeaders(headers) ==
    /\ headers \in Seq(Range(headers))
    /\ \A h \in Range(headers) :
          DOMAIN h = {"name", "value"} /\ h.name \in HeaderName /\ IsText(h.value)

(* A device's request has been through an HTTP parser, and names a path of *)
(* the host that its connection is to; the type that its body is read as   *)
(* is the one that its content-type names (the last, if the parser left    *)
(* more than one).                                                         *)
IsDevice(device) ==
    LET headers == device.headers
        type == device.sent.type
        names(k) == Lower[headers[k].name] = "content-type"
    IN  /\ IsText(device.path) /\ OneLine(device.path) /\ IsText(device.sent.text)
        /\ device.path # <<>> => Head(device.path) = "/"
        /\ AreHeaders(headers) /\ \A h \in Range(headers) : OneLine(h.value)
        /\ type \in {"json", "form", "text"} =>
              \E k \in DOMAIN headers :
                 /\ names(k) /\ headers[k].value = <<type>>
                 /\ \A j \in DOMAIN headers : names(j) => j <= k

(* What can be asked for.  What looks like a template in a value is no     *)
(* token of a template, and a value has no key of a form.                  *)
IsRequest(r) ==
    /\ DOMAIN r = {"route", "path", "headers", "body", "vars", "expect", "device"}
    /\ r.route \in {"send", "saved", "replay"}
    /\ IsText(r.path) /\ AreHeaders(r.headers)
    /\ DOMAIN r.body = {"kind", "text"} /\ IsText(r.body.text)
    /\ r.body.kind \in {"none", "string", "document"}
          \cup (IF r.route = "replay" THEN {"absent"} ELSE {})
    /\ r.vars \notin {None, Unusable} =>
          \A name \in DOMAIN r.vars :
             IsText(r.vars[name]) /\ Range(r.vars[name]) \cap (Template \cup {"[k]"}) = {}
    /\ "schema" \in DOMAIN r.expect => r.expect.schema \in Schema
    /\ IsDevice(r.device)

(* Names are compared in lower case, in which the proxy's own are written. *)
ASSUME ExchangeAssumption ==
    /\ MaxBytes \in Nat /\ MaxChars \in Nat /\ MaxParse \in Nat
    /\ DOMAIN Hole \cap Odd = {}
    /\ Template \cap {"%", "{k}", "1", "n", "identity", "json", "text", "form"} = {}
    /\ Lower \in [HeaderName -> HeaderName]
    /\ \A name \in HeaderName : Lower[Lower[name]] = Lower[name]
    /\ \A name \in {"host", "accept-encoding", "content-length", "content-type", "composed",
                    "replayed"} : name \in HeaderName /\ Lower[name] = name
    /\ IsText(Target) /\ OneLine(Target) /\ Range(Target) \cap Template = {}
    /\ Elsewhere # Target
    /\ None # Unusable /\ <<>> \notin {None, Unusable}
    /\ \A r \in Requests : IsRequest(r)
    /\ \A a \in Answers : a # None /\ IsText(a.text)
    /\ \A text \in DOMAIN Parse : text # <<>> /\ Parse[text] \in Value

VARIABLES
    request,  \* the request asked for
    wire,     \* what was sent to the proxy, or None
    reply,    \* what the proxy answers, or None before it does
    taken,    \* how much of its body has arrived
    body,     \* the part of it that is held
    cut,      \* truncated
    answer    \* the answer to the caller, or None

exchangeVars == <<request, wire, reply, taken, body, cut, answer>>

ExchangeTypeOK ==
    /\ request \in Requests
    /\ taken \in Nat /\ cut \in BOOLEAN
    /\ Len(body) <= MaxBytes

ExchangeInit ==
    /\ request \in Requests
    /\ wire = None /\ reply = None /\ answer = None
    /\ taken = 0 /\ body = <<>> /\ cut = FALSE

---------------------------------------------------------------------------
(* What the log has of a device's request. *)

(* A parser reads the types that can be shown, if the length is announced  *)
(* and is not too much; anything else is piped through unread, and its     *)
(* entry has no body.  (A body in chunks is read as it comes.)             *)
Claims(sent) == sent.type \in {"json", "form", "text"} /\ Len(sent.text) <= MaxParse

(* _capBody: a body too long for the log becomes a text, cut.              *)
CapBody(sent) ==
    IF sent.text = <<>> \/ ~Claims(sent) THEN [kind |-> "none", text |-> <<>>]
    ELSE IF Len(sent.text) > MaxChars
    THEN [kind |-> "string", text |-> Append(SubSeq(sent.text, 1, MaxChars), "...")]
    ELSE [kind |-> IF sent.type = "text" THEN "string" ELSE "document", text |-> sent.text]
Truncated(sent) == Claims(sent) /\ Len(sent.text) > MaxChars

---------------------------------------------------------------------------
(* Checking and resolving the fields. *)

(* originalNames: how the device spelled the names that are not in lower   *)
(* case, the first spelling winning; applyNames gives a field its spelling.*)
OriginalNames(headers) ==
    LET spelled == {k \in DOMAIN headers : headers[k].name # Lower[headers[k].name]}
        first(low) == Min({k \in spelled : Lower[headers[k].name] = low})
    IN  [low \in {Lower[headers[k].name] : k \in spelled} |-> headers[first(low)].name]
ApplyNames(h, names) ==
    IF Lower[h.name] \in DOMAIN names THEN [h EXCEPT !.name = names[Lower[h.name]]] ELSE h

(* A replay lays its edits over what was captured: a header that is edited *)
(* under its lower-case name keeps its place, any other comes after, and   *)
(* both get the spelling of the device.                                    *)
Merged(r) ==
    LET device == r.device.headers
        edit(low) == SelectInSeq(r.headers, LAMBDA h : h.name = low)
        over(h) == IF edit(Lower[h.name]) = 0 THEN h
                   ELSE [h EXCEPT !.value = r.headers[edit(Lower[h.name])].value]
        known == {Lower[device[k].name] : k \in DOMAIN device}
        added == FlattenSeq([k \in DOMAIN r.headers |->
                    IF r.headers[k].name \in known THEN <<>> ELSE <<r.headers[k]>>])
        all == [k \in DOMAIN device |-> over(device[k])] \o added
    IN  IF r.route # "replay" THEN r
        ELSE [r EXCEPT !.path = IF @ = <<>> THEN r.device.path ELSE @,
                       !.headers = [k \in DOMAIN all |-> ApplyNames(all[k], OriginalNames(device))],
                       !.body = IF @.kind = "absent" THEN CapBody(r.device.sent) ELSE @]

Opens(token) == token \in Template \cup {Braces}

(* validateRequestFields: a path that opens with a template is let through *)
(* for now, line breaks are not.                                           *)
FieldsOk(r) ==
    /\ r.path # <<>> => (Head(r.path) = "/" \/ Opens(Head(r.path))) /\ OneLine(r.path)
    /\ \A k \in DOMAIN r.headers : OneLine(r.headers[k].value)

(* A filter may change the text, "encode" so that nothing special is left. *)
Filtered(value, filter) == IF filter = "encode" THEN [k \in DOMAIN value |-> "%"] ELSE value
Resolvable(text, values) ==
    \A token \in Range(text) :
        token \notin Odd /\ (token \in DOMAIN Hole => Hole[token].name \in DOMAIN values)
(* resolve: one pass; a value that looks like a template stays as it is.   *)
Resolve(text, values) ==
    FlattenSeq([k \in DOMAIN text |->
        IF text[k] \in DOMAIN Hole
        THEN Filtered(values[Hole[text[k]].name], Hole[text[k]].filter)
        ELSE <<text[k]>>])

(* resolveFields *)
AllResolvable(r) ==
    /\ Resolvable(r.path, r.vars) /\ Resolvable(r.body.text, r.vars)
    /\ \A k \in DOMAIN r.headers : Resolvable(r.headers[k].value, r.vars)
ResolveFields(r) ==
    LET field(h) == [h EXCEPT !.value = Resolve(@, r.vars)]
    IN  [r EXCEPT !.path = Resolve(@, r.vars), !.body.text = Resolve(@, r.vars),
                  !.headers = [k \in DOMAIN @ |-> field(@[k])]]

(* withContentTypeDefault, which a replay does without. *)
Types(r) == {k \in DOMAIN r.headers : Lower[r.headers[k].name] = "content-type"}
WithContentTypeDefault(r) ==
    IF r.route = "replay" \/ r.body.kind = "none" \/ Types(r) # {} THEN r
    ELSE [r EXCEPT !.headers = Append(@, [name |-> "content-type",
              value |-> IF r.body.kind = "string" THEN <<"text">> ELSE <<"json">>])]

(* validateVariables *)
VariablesOk(r) == r.vars # Unusable
(* A replay with no variables in it is not resolved, and only then.        *)
Templated(r) == ~(r.route = "replay" /\ r.vars = None)
WithVariables(r) == IF r.vars = None /\ Templated(r) THEN [r EXCEPT !.vars = <<>>] ELSE r

ExpectOk(e) == "schema" \in DOMAIN e => AssertSupported(e.schema)

---------------------------------------------------------------------------
(* What goes out. *)

(* Names are folded to lower case, the last spelling and value winning.    *)
Folded(r) == {Lower[r.headers[k].name] : k \in DOMAIN r.headers}
LastOf(r, low) ==
    r.headers[SelectLastInSeq(r.headers, LAMBDA h : Lower[h.name] = low)]
Recomputed == {"content-length", "connection", "proxy-connection", "accept-encoding", "host"}
Marker(r) == IF r.route = "replay" THEN "replayed" ELSE "composed"

(* A string as it is, a form when the headers say so, JSON otherwise.      *)
Encoded(r) ==
    IF r.body.kind # "document" THEN r.body.kind
    ELSE IF "content-type" \in Folded(r) /\ LastOf(r, "content-type").value = <<"form">>
    THEN "form" ELSE "json"

(* encodeForm: a key in brackets was read as a document in a field, and is *)
(* written as JSON.                                                        *)
Written(r) ==
    IF Encoded(r) # "form" THEN r.body.text
    ELSE [k \in DOMAIN r.body.text |-> IF r.body.text[k] = "[k]" THEN "{k}" ELSE r.body.text[k]]

(* Mutant of Fields: names are matched as they are spelled. *)
Fields_Spelled(r) ==
    {r.headers[k] : k \in {j \in DOMAIN r.headers : r.headers[j].name \notin Recomputed}}
        \cup {[name |-> "host", value |-> Target], [name |-> "accept-encoding", value |-> <<"identity">>],
              [name |-> Marker(r), value |-> <<"1">>]}
        \cup (IF r.body.kind = "none" THEN {} ELSE {[name |-> "content-length", value |-> <<"n">>]})
(* The spellings come back in the last step, on the fields that are the    *)
(* proxy's own too.                                                        *)
Fields(r) ==
    LET own == [low \in {"host", "accept-encoding", Marker(r)}
                         \cup (IF r.body.kind = "none" THEN {} ELSE {"content-length"}) |->
                   CASE low = "host" -> Target [] low = "accept-encoding" -> <<"identity">>
                     [] low = "content-length" -> <<"n">> [] OTHER -> <<"1">>]
        names == (Folded(r) \ Recomputed) \cup DOMAIN own
    IN  {[name  |-> IF low \in Folded(r) THEN LastOf(r, low).name ELSE low,
          value |-> IF low \in DOMAIN own THEN own[low] ELSE LastOf(r, low).value] :
             low \in names}

(* The request line is the URL http://target followed by the path, and the *)
(* proxy goes to the host that it reads in the URL, not to the one in the  *)
(* header.  A path that opens with a slash ends the host there; any other  *)
(* runs into it.                                                           *)
HostOf(path) == IF Head(path) = "/" THEN Target ELSE Elsewhere

Refuse(status) ==
    answer' = [status |-> status, verdict |-> "none"] /\ UNCHANGED <<wire, reply, taken, body, cut>>

(* Mutant of Lacking: the request that was cut is sent as it is in the log.*)
Lacking_Path(r) == IF Merged(r).path = <<>> THEN 400 ELSE 0
(* A path is required; the body of a request captured in part is too. *)
Lacking(r) ==
    IF r.route = "replay" /\ Truncated(r.device.sent) /\ r.body.kind = "absent" THEN 409
    ELSE IF Merged(r).path = <<>> THEN 400 ELSE 0

(* What was typed is checked, a file is not; then, if the request is a     *)
(* template, what it has become is checked again.                          *)
Serve ==
    /\ wire = None /\ answer = None
    /\ LET r == WithContentTypeDefault(WithVariables(Merged(request)))
           out == IF Templated(r) THEN ResolveFields(r) ELSE r
           first == /\ request.route = "saved" \/ FieldsOk(request)
                    /\ ExpectOk(r.expect) /\ VariablesOk(r)
       IN  IF ~first THEN Refuse(400)
           ELSE IF Lacking(request) # 0 THEN Refuse(Lacking(request))
           ELSE IF Templated(r) /\ ~(AllResolvable(r) /\ out.path # <<>> /\ FieldsOk(out))
           THEN Refuse(400)
           ELSE \/ \E status \in {404, 503, 409} : Refuse(status)
                \/ /\ wire' = [host |-> HostOf(out.path), path |-> out.path,
                               fields |-> Fields(out), encoding |-> Encoded(out),
                               body |-> Written(out)]
                   /\ UNCHANGED <<reply, taken, body, cut, answer>>
    /\ UNCHANGED request

---------------------------------------------------------------------------
(* The answer. *)

Respond ==
    /\ wire # None /\ reply = None /\ answer = None
    /\ reply' \in Answers
    /\ UNCHANGED <<request, wire, taken, body, cut, answer>>

(* The proxy cannot be reached, or nothing comes for 30 s. *)
Fail ==
    /\ wire # None /\ answer = None
    /\ answer' = [status |-> 502, verdict |-> "none"]
    /\ UNCHANGED <<request, wire, reply, taken, body, cut>>

Expecting == DOMAIN request.expect # {}

(* The next n tokens arrive; past the limit what was held is let go.       *)
Data(n) ==
    /\ reply # None /\ answer = None
    /\ taken + n <= Len(reply.text)
    /\ taken' = taken + n
    /\ IF ~Expecting \/ cut THEN UNCHANGED <<body, cut>>
       ELSE IF Len(body) + n > MaxBytes THEN cut' = TRUE /\ body' = <<>>
       ELSE body' = body \o SubSeq(reply.text, taken + 1, taken + n) /\ UNCHANGED cut
    /\ UNCHANGED <<request, wire, reply, answer>>

(* checkExpectation *)
Passed(expect) ==
    /\ "status" \in DOMAIN expect => reply.status = expect.status
    /\ "schema" \in DOMAIN expect =>
          ~cut /\ body # <<>> /\ body \in DOMAIN Parse /\ Validate(Parse[body], expect.schema)

ReplyEnd ==
    /\ reply # None /\ answer = None /\ taken = Len(reply.text)
    /\ answer' = [status |-> 200,
                  verdict |-> IF ~Expecting THEN "none"
                              ELSE IF Passed(request.expect) THEN "passed" ELSE "failed"]
    /\ UNCHANGED <<request, wire, reply, taken, body, cut>>

ExchangeNext == Serve \/ Respond \/ Fail \/ (\E n \in 1..2 : Data(n)) \/ ReplyEnd

ExchangeSpec == ExchangeInit /\ [][ExchangeNext]_exchangeVars

---------------------------------------------------------------------------
(* What the callers say of the answer a. *)

(* runOne of the command line: three words, and a check that was not made  *)
(* is none of the other two.                                               *)
CliRunOne(a) ==
    IF a.status # 200 THEN "failed"
    ELSE IF a.verdict = "none" THEN "unchecked" ELSE a.verdict

(* run of a client; one that could not be sent throws, and is a failed row *)
(* of its collection.                                                      *)
Run(a) == [checked |-> a.verdict # "none", passed |-> a.verdict = "passed"]
Row(a) == IF a.status # 200 THEN [checked |-> TRUE, passed |-> FALSE] ELSE Run(a)

(* assertPasses and assertCollectionPasses (of that one row) come back.    *)
AssertPasses(a, requireCheck) ==
    a.status = 200 /\ IF Run(a).checked THEN Run(a).passed ELSE ~requireCheck
AssertCollectionPasses(a, requireCheck) ==
    IF Row(a).checked THEN Row(a).passed ELSE ~requireCheck

(* The row of a run on the screen counts as ok. *)
ScreenOk(a) == a.status = 200 /\ reply.status < 400 /\ a.verdict # "failed"

(* replayEntry and sendComposed: the toast, and whether the editor closes. *)
Announce(a) ==
    IF a.status # 200 THEN "error" ELSE IF a.verdict = "failed" THEN "warning" ELSE "success"

---------------------------------------------------------------------------
(* A request that goes out is one request, whatever was typed, saved,      *)
(* captured or put in a variable: no line break in its path or headers, no *)
(* header twice under two spellings, the Host header, the length and the   *)
(* marker the proxy's own, a body in the encoding that its content-type    *)
(* names, and no template left in it unless it is a replay that asked for  *)
(* none.  The proxy takes it to the instance's own host, unless its path   *)
(* still opens with double braces after the last check: those of a value,  *)
(* or in a replay without variables.                                       *)
OneCleanRequest ==
    wire # None =>
        LET named(low) == {f \in wire.fields : Lower[f.name] = low}
            texts == {wire.path, wire.body} \cup {f.value : f \in wire.fields}
        IN  /\ \A f \in wire.fields : OneLine(f.value) /\ Cardinality(named(Lower[f.name])) = 1
            /\ OneLine(wire.path)
            /\ wire.host = Target \/ Opens(Head(wire.path))
            /\ \A f \in named("host") : f.value = Target
            /\ named("host") # {} /\ named(Marker(request)) # {}
            /\ (named("content-length") # {}) = (wire.encoding # "none")
            /\ wire.encoding = "form" => \A f \in named("content-type") : f.value = <<"form">>
            /\ wire.encoding # "none" /\ request.route # "replay" => named("content-type") # {}
            /\ Templated(request) =>
                  \A text \in texts : Range(text) \cap Template = {}

(* "the target host comes from the instance and cannot be set by the       *)
(* caller" (send.js:6), in which the exception is not made (OwnHost.cfg).  *)
HostIsOwn == wire # None => wire.host = Target

(* The greens of the callers, and those that speak of a check. *)
Asserted(a) ==
    CliRunOne(a) = "passed" \/ AssertPasses(a, TRUE) \/ AssertCollectionPasses(a, TRUE)
Green(a) ==
    \/ Asserted(a) \/ ScreenOk(a) \/ Announce(a) = "success"
    \/ AssertPasses(a, FALSE) \/ AssertCollectionPasses(a, FALSE)

(* Green means that the answer is what was expected, all of it, and red    *)
(* that it is not: neither a keyword nobody evaluates, nor a body that was *)
(* cut, nor the way it was cut in pieces, nor the number of its mistakes   *)
(* changes the verdict.  Every caller tells it so: none shows green for an *)
(* answer that is not what was expected, or for one that never came; and   *)
(* the command line and an assertion never for one nobody checked.         *)
VerdictIsTrue ==
    answer # None =>
        LET e == request.expect
            whole == Len(reply.text) <= MaxBytes /\ reply.text \in DOMAIN Parse
            meets == /\ "status" \in DOMAIN e => reply.status = e.status
                     /\ "schema" \in DOMAIN e => whole /\ Conforms(Parse[reply.text], e.schema)
        IN  /\ answer.verdict = "failed" => reply # None /\ ~meets
            /\ Green(answer) => reply # None /\ taken = Len(reply.text) /\ meets
            /\ Asserted(answer) => Expecting

(* Replaying a request without touching its body or its type sends the     *)
(* body that the device sent, all of it and in its own encoding, or is     *)
(* refused; with variables, what the templates in it stand for.  (A body   *)
(* that no parser claimed is not in the log, and the replay goes out       *)
(* without one; a form with a key in brackets comes out as JSON.)          *)
ReplayedAsSent ==
    LET sent == request.device.sent
        typed == {h \in Range(request.headers) : Lower[h.name] = "content-type"}
    IN  wire # None /\ request.route = "replay" /\ request.body.kind = "absent" /\ typed = {}
          /\ Claims(sent) /\ sent.text # <<>> /\ ~(sent.type = "form" /\ "[k]" \in Range(sent.text)) =>
            /\ wire.body = IF Templated(request) THEN Resolve(sent.text, request.vars) ELSE sent.text
            /\ wire.encoding = IF sent.type = "text" THEN "string" ELSE sent.type
=============================================================================
