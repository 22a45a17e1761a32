----------------------------- MODULE TestSuites -----------------------------
(***************************************************************************)
(* Test suites that kill a path or set a mock for as long as a test runs   *)
(* and put back what they found (clients/js/block-client.js,               *)
(* clients/js/mock-client.js and their Python twins), the server routes    *)
(* they call (utils/admin/hosts.js, utils/admin/toggles.js), and everybody *)
(* else who calls them: the command line and the dashboard.  There is one  *)
(* host whose paths are killed, and one instance, of a host that stays,    *)
(* whose mocks are set.                                                    *)
(*                                                                         *)
(* Every call is one step: the server answers it, or it fails, having had  *)
(* its effect or not.  A suite holds a stack of frames: withBlock or       *)
(* withMock called inside the body of another.                             *)
(***************************************************************************)
EXTENDS Blocking, FiniteSets

CONSTANTS
    Suite,
    RequireSsl,   \* the suites whose client throws when SSL is off
    Mock,
    Loaded,       \* the rules the file may hold when the server starts
    MaxDepth,     \* bound on the frames of one suite
    MaxCalls,     \* bound on the frames opened
    MaxOutside    \* bound on the writes made outside any frame's own steps

ASSUME TestSuitesAssumption ==
    /\ RequireSsl \subseteq Suite /\ Loaded \subseteq SUBSET Path
    /\ MaxDepth \in Nat /\ MaxCalls \in Nat /\ MaxOutside \in Nat

VARIABLES
    rules,    \* hostSettings[host].blocks
    ssl,      \* hostSettings[host].ssl
    toggle,   \* instanceStatus[id]: mock -> on, off or unset
    shown,    \* the rules the dashboard has in its copy of the host
    menu,     \* the row whose menu is open, as the tree had it then, or none
    stack,    \* suite -> the frames it is in, the innermost last
    calm,     \* <<suite, kind>>: nobody else wrote since the suite's last look
    calls,    \* frames opened
    outside   \* writes made outside

screen == <<shown, menu>>
vars == <<rules, ssl, toggle, shown, menu, stack, calm, calls, outside>>

State == {"on", "off", "unset"}

(* A frame of withBlock and of clearBlocks, and one of withMock. *)
BlockFrame == [kind : {"block"}, path : Path \cup {NoRule}, before : SUBSET Path,
               lift : SUBSET Path, put : SUBSET Path,
               at : {"look", "set", "body", "compare", "restore", "done"}]
MockFrame == [kind : {"mock"}, mock : Mock, to : {"on", "off"}, before : State,
              at : {"look", "set", "body", "restore", "done"}]

(* A node of the tree: its path, and the rule that kills it or none. *)
Row == [path : Path, by : Path \cup {NoRule}]

TypeOK ==
    /\ rules \subseteq Path /\ shown \subseteq Path /\ ssl \in BOOLEAN
    /\ toggle \in [Mock -> State]
    /\ menu \subseteq Row /\ \A r, q \in menu : r = q
    /\ stack \in [Suite -> Seq(BlockFrame \cup MockFrame)]
    /\ calm \subseteq Suite \X {"block", "mock"}
    /\ calls \in 0..MaxCalls /\ outside \in 0..MaxOutside

Init ==
    /\ rules \in Loaded /\ shown = rules /\ menu = {} /\ ssl \in BOOLEAN
    /\ toggle \in [Mock -> State]
    /\ stack = [s \in Suite |-> <<>>]
    /\ calm = {} /\ calls = 0 /\ outside = 0

---------------------------------------------------------------------------
(* The server. *)

(* GET /hosts/blocks?host= *)
HostBlocks == rules

(* POST /hosts/block *)
PostBlock(path, blocked) ==
    rules' = IF blocked THEN AddBlock(rules, path) ELSE RemoveBlock(rules, path)

(* POST /toggle *)
PostToggle(mock, to) == toggle' = [toggle EXCEPT ![mock] = to]

(* A write of one suite, or of nobody's, ends the calm of the others. *)
Disturbed(kind, by) == {c \in calm : c[2] # kind \/ c[1] \in by}

---------------------------------------------------------------------------
(* The frames of a suite. *)

In(s) == stack[s] # <<>>
Top(s) == stack[s][Len(stack[s])]
Is(s, kind, at) == In(s) /\ Top(s).kind = kind /\ Top(s).at = at

Becomes(s, f) == stack' = [stack EXCEPT ![s][Len(stack[s])] = f]
Moves(s, at) == Becomes(s, [Top(s) EXCEPT !.at = at])
(* The frame is left, by its return or by an exception. *)
Leaves(s) == stack' = [stack EXCEPT ![s] = SubSeq(@, 1, Len(@) - 1)]

(* A frame is opened at the top of a test, or in the body of another. *)
Opens(s, f) ==
    /\ calls < MaxCalls /\ calls' = calls + 1
    /\ Len(stack[s]) < MaxDepth
    /\ In(s) => Top(s).at = "body"
    /\ stack' = [stack EXCEPT ![s] = Append(@, f)]

WithBlock(s, p) ==
    /\ Opens(s, [kind |-> "block", path |-> p, before |-> {}, lift |-> {},
                 put |-> {}, at |-> "look"])
    /\ UNCHANGED <<rules, ssl, toggle, screen, calm, outside>>

(* A teardown puts the host back to no rules at all. *)
ClearBlocks(s) ==
    /\ Opens(s, [kind |-> "block", path |-> NoRule, before |-> {}, lift |-> {},
                 put |-> {}, at |-> "compare"])
    /\ UNCHANGED <<rules, ssl, toggle, screen, calm, outside>>

WithMock(s, m, to) ==
    /\ Opens(s, [kind |-> "mock", mock |-> m, to |-> to, before |-> "unset",
                 at |-> "look"])
    /\ UNCHANGED <<rules, ssl, toggle, screen, calm, outside>>

(* `const before = await this.listBlocks(host)` *)
ListBefore(s) ==
    /\ Is(s, "block", "look")
    /\ Becomes(s, [Top(s) EXCEPT !.before = HostBlocks, !.at = "set"])
    /\ UNCHANGED <<rules, ssl, toggle, screen, calm, calls, outside>>

(* block() stores the rule, then throws when it cannot fire.  The call     *)
(* stands before the try: the rule stays.                                  *)
Throws(s) == ~ssl /\ s \in RequireSsl

Block(s) ==
    /\ Is(s, "block", "set")
    /\ PostBlock(Top(s).path, TRUE)
    /\ calm' = Disturbed("block", {s})
    /\ IF Throws(s) THEN Leaves(s) ELSE Moves(s, "body")
    /\ UNCHANGED <<ssl, toggle, screen, calls, outside>>

(* The body returns or throws: the finally clause runs. *)
EndBody(s) ==
    /\ In(s) /\ Top(s).at = "body"
    /\ Moves(s, IF Top(s).kind = "block" THEN "compare" ELSE "restore")
    /\ UNCHANGED <<rules, ssl, toggle, screen, calm, calls, outside>>

(* `const after = await this.listBlocks(host)` *)
ListAfter(s) ==
    /\ Is(s, "block", "compare")
    /\ LET before == Top(s).before
       IN Becomes(s, [Top(s) EXCEPT !.lift = HostBlocks \ before,
                        !.put = before \ HostBlocks,
                        !.at = IF HostBlocks = before THEN "done" ELSE "restore"])
    /\ calm' = calm \cup {<<s, "block">>}
    /\ UNCHANGED <<rules, ssl, toggle, screen, calls, outside>>

Restoring(s, lift, put) ==
    Becomes(s, [Top(s) EXCEPT !.lift = lift, !.put = put,
                  !.at = IF lift = {} /\ put = {} THEN "done" ELSE "restore"])

(* Removals go first. *)
Lift(s, rule) ==
    /\ Is(s, "block", "restore") /\ rule \in Top(s).lift
    /\ PostBlock(rule, FALSE)
    /\ calm' = Disturbed("block", {s})
    /\ Restoring(s, Top(s).lift \ {rule}, Top(s).put)
    /\ UNCHANGED <<ssl, toggle, screen, calls, outside>>

(* Mutant of PutBack: the rules are put back before the others are lifted. *)
PutBack_Early(s, rule) ==
    /\ Is(s, "block", "restore") /\ rule \in Top(s).put
    /\ PostBlock(rule, TRUE)
    /\ calm' = Disturbed("block", {s})
    /\ IF Throws(s) THEN Leaves(s) ELSE Restoring(s, Top(s).lift, Top(s).put \ {rule})
    /\ UNCHANGED <<ssl, toggle, screen, calls, outside>>
PutBack(s, rule) ==
    /\ Is(s, "block", "restore") /\ Top(s).lift = {} /\ rule \in Top(s).put
    /\ PostBlock(rule, TRUE)
    /\ calm' = Disturbed("block", {s})
    /\ IF Throws(s) THEN Leaves(s) ELSE Restoring(s, {}, Top(s).put \ {rule})
    /\ UNCHANGED <<ssl, toggle, screen, calls, outside>>

(* `const prior = await this.getState(...)` *)
GetState(s) ==
    /\ Is(s, "mock", "look")
    /\ Becomes(s, [Top(s) EXCEPT !.before = toggle[Top(s).mock], !.at = "set"])
    /\ UNCHANGED <<rules, ssl, toggle, screen, calm, calls, outside>>

SetMock(s) ==
    /\ Is(s, "mock", "set")
    /\ PostToggle(Top(s).mock, Top(s).to)
    /\ calm' = Disturbed("mock", {s})
    /\ Moves(s, "body")
    /\ UNCHANGED <<rules, ssl, screen, calls, outside>>

(* `prior === null ? false : prior`: the API has no "unset". *)
Prior(before) == IF before = "unset" THEN "off" ELSE before

ResetMock(s) ==
    /\ Is(s, "mock", "restore")
    /\ PostToggle(Top(s).mock, Prior(Top(s).before))
    /\ calm' = Disturbed("mock", {s}) \cup {<<s, "mock">>}
    /\ Moves(s, "done")
    /\ UNCHANGED <<rules, ssl, screen, calls, outside>>

Return(s) ==
    /\ In(s) /\ Top(s).at = "done"
    /\ Leaves(s)
    /\ UNCHANGED <<rules, ssl, toggle, screen, calm, calls, outside>>

(* A call is refused, is never answered, or its answer is lost: it had its *)
(* effect or it had none.  The exception leaves the frame, the rest of its *)
(* finally clause with it.                                                 *)
Effect(s) ==
    LET f == Top(s)
    IN \/ f.kind = "block" /\ f.at = "set" /\ PostBlock(f.path, TRUE) /\ UNCHANGED toggle
       \/ f.kind = "block" /\ f.at = "restore"
          /\ \/ \E rule \in f.lift : PostBlock(rule, FALSE)
             \/ f.lift = {} /\ \E rule \in f.put : PostBlock(rule, TRUE)
          /\ UNCHANGED toggle
       \/ f.kind = "mock" /\ f.at = "set" /\ PostToggle(f.mock, f.to) /\ UNCHANGED rules
       \/ f.kind = "mock" /\ f.at = "restore"
          /\ PostToggle(f.mock, Prior(f.before)) /\ UNCHANGED rules
       \/ UNCHANGED <<rules, toggle>>

CallFails(s) ==
    /\ In(s) /\ Top(s).at \notin {"body", "done"}
    /\ Effect(s)
    /\ calm' = Disturbed(Top(s).kind, {s})
    /\ Leaves(s)
    /\ UNCHANGED <<ssl, screen, calls, outside>>

---------------------------------------------------------------------------
(* Everybody else, the body of a test included. *)

Writes ==
    /\ outside < MaxOutside /\ outside' = outside + 1
    /\ UNCHANGED <<stack, calls>>

(* An open menu stays open.  Bound: one that has no write left to make is   *)
(* closed.                                                                 *)
Outside ==
    /\ Writes
    /\ menu' = IF outside' < MaxOutside THEN menu ELSE {}

(* npm run mock -- block, unblock; or a client outside a frame.  What the  *)
(* command reads before and after decides only what it prints.  A path may *)
(* be spelled with gaps.                                                   *)
Commanded(raw, blocked) ==
    /\ Outside
    /\ Usable(raw) /\ Normalized(raw) \in Path
    /\ PostBlock(Normalized(raw), blocked)
    /\ calm' = Disturbed("block", {})
    /\ UNCHANGED <<ssl, toggle, shown>>

CmdBlock(raw) == Commanded(raw, TRUE)
CmdUnblock(raw) == Commanded(raw, FALSE)

(* A call the body of a test makes itself. *)
BodyCalls(s, p, blocked) ==
    /\ Outside
    /\ In(s) /\ Top(s).at = "body"
    /\ PostBlock(p, blocked)
    /\ calm' = Disturbed("block", {s})
    /\ UNCHANGED <<ssl, toggle, shown>>

Toggled(m, to) ==
    /\ Outside
    /\ PostToggle(m, to)
    /\ calm' = Disturbed("mock", {})
    /\ UNCHANGED <<rules, ssl, shown>>

(* POST /hosts/ssl *)
SetSsl ==
    /\ Outside
    /\ ssl' = ~ssl
    /\ UNCHANGED <<rules, toggle, shown, calm>>

(* DELETE /hosts/:host: the row goes, its rules and preferences with it. *)
ForgetHost ==
    /\ Outside
    /\ rules' = {} /\ ssl' = FALSE
    /\ calm' = Disturbed("block", {})
    /\ UNCHANGED <<toggle, shown>>

(* A batch of hosts, or a fetch, brings the dashboard's copy up to date.   *)
(* A menu that is open stays as it is.                                     *)
Show ==
    /\ shown # rules /\ shown' = rules
    /\ UNCHANGED <<rules, ssl, toggle, menu, stack, calm, calls, outside>>

(* The rule the tree finds for a row, with a blockCovering of its own.     *)
BlockedBy(p) == BlockCovering(p, shown)

(* A right click builds the menu of a row, in place of one that is open.   *)
(* Bound: it is opened only while a write is left for it to make.          *)
OpenMenu(p) ==
    /\ outside < MaxOutside
    /\ menu' = {[path |-> p, by |-> BlockedBy(p)]} /\ menu' # menu
    /\ UNCHANGED <<rules, ssl, toggle, shown, stack, calm, calls, outside>>

(* A click elsewhere, Escape, a scroll, a resize, another window. *)
CloseMenu ==
    /\ menu # {} /\ menu' = {}
    /\ UNCHANGED <<rules, ssl, toggle, shown, stack, calm, calls, outside>>

(* The menu offers to block the row's path, or to lift the rule that kills *)
(* it.  Mutant of Offered: the rule offered is the row's own path.         *)
Offered_Own(row) == row.path
Offered(row) == IF row.by = NoRule THEN row.path ELSE row.by

(* The item of the menu is clicked: it says what the menu said, whatever   *)
(* the rules are by now.                                                   *)
Fire(row) ==
    /\ Writes
    /\ PostBlock(Offered(row), row.by = NoRule)
    /\ shown' = rules' /\ menu' = {}
    /\ calm' = Disturbed("block", {})
    /\ UNCHANGED <<ssl, toggle>>

(* The ways a command may spell a path: with a slash at its end, or two.   *)
Spelled(p) == {<<Gap>> \o p, <<Gap>> \o p \o <<Gap>>}

SuiteStep(s) ==
    \/ \E p \in Path : WithBlock(s, p)
    \/ ClearBlocks(s)
    \/ \E m \in Mock, to \in {"on", "off"} : WithMock(s, m, to)
    \/ ListBefore(s) \/ Block(s) \/ EndBody(s) \/ ListAfter(s)
    \/ \E rule \in Path : Lift(s, rule) \/ PutBack(s, rule)
    \/ GetState(s) \/ SetMock(s) \/ ResetMock(s)
    \/ Return(s) \/ CallFails(s)
    \/ \E p \in Path, blocked \in BOOLEAN : BodyCalls(s, p, blocked)

Next ==
    \/ \E s \in Suite : SuiteStep(s)
    \/ \E p \in Path : \E raw \in Spelled(p) : CmdBlock(raw) \/ CmdUnblock(raw)
    \/ \E m \in Mock, to \in {"on", "off"} : Toggled(m, to)
    \/ SetSsl \/ ForgetHost
    \/ Show \/ CloseMenu
    \/ \E p \in Path : OpenMenu(p)
    \/ \E row \in menu : Fire(row)

Spec == Init /\ [][Next]_vars

---------------------------------------------------------------------------
(* A withBlock, a clearBlocks or a withMock that came to its end leaves    *)
(* the host killing exactly the paths, and the mock answering exactly when *)
(* it did, before the frame - whatever the body did, or others did during  *)
(* it, and whichever rules the block absorbed - unless somebody else wrote *)
(* while it was putting things back.                                       *)
SuiteRestores ==
    \A s \in Suite : In(s) =>
        LET f == Top(s)
        IN f.at = "done" /\ <<s, f.kind>> \in calm =>
             IF f.kind = "block" THEN Kills(rules) = Kills(f.before)
             ELSE (toggle[f.mock] = "on") = (f.before = "on")

(* A menu does what it said, however long it has been open and whatever    *)
(* was written meanwhile.  Where it offered to block a path, the path is   *)
(* dead and nothing lives again.  Where it offered to lift a rule, its own *)
(* row's or a broader one, then on rules none of which is dead the row's   *)
(* path lives and exactly what that rule killed lives with it; a rule that *)
(* somebody has lifted already is not missed, and nothing changes.         *)
ClickWorks ==
    [][\A row \in menu : outside' # outside /\ Fire(row) =>
          IF row.by = NoRule
          THEN Kills(rules) \cup {row.path} \subseteq Kills(rules')
          ELSE Lean(rules) =>
                 IF row.by \in rules
                 THEN /\ Kills(rules') = {q \in Kills(rules) : ~ Covers(row.by, q)}
                      /\ row.path \notin Kills(rules')
                 ELSE Kills(rules') = Kills(rules)]_vars

(* Rules none of which is dead stay so: no call leaves a rule that another *)
(* one covers.                                                             *)
StaysLean == [][Lean(rules) => Lean(rules')]_vars
=============================================================================
