---------------------------- MODULE AccessGate ----------------------------
(***************************************************************************)
(* The approval gate in front of the admin API (utils/access-gate.js, the  *)
(* middleware of proxy-server.js and the routes of utils/admin/access.js). *)
(*                                                                         *)
(* A request from a machine nobody has approved is held until the operator *)
(* answers the one prompt of that machine, or the prompt times out.  The   *)
(* process is single-threaded: each handler, timer callback and promise    *)
(* continuation chain runs to its end before the next event, so each is    *)
(* one action.                                                             *)
(***************************************************************************)
EXTENDS Naturals, FiniteSets

CONSTANTS
    Machine,     \* normalised non-loopback addresses
    Request,     \* slots for HTTP requests; a slot is reused once answered
    Owner,       \* the machine each slot's requests come from
    MaxPending,  \* MAX_PENDING_IPS
    MaxWaiters,  \* MAX_WAITERS_PER_IP
    MaxPrompts   \* bound on the prompts opened in a behaviour (_seq)

ASSUME GateAssumption ==
    /\ Owner \in [Request -> Machine]
    /\ MaxPending \in Nat \ {0}
    /\ MaxWaiters \in Nat \ {0}
    /\ MaxPrompts \in Nat

VARIABLES
    allowed,     \* _allowed: let through right now
    remembered,  \* _remembered: the subset that survives a restart
    pending,     \* _pending: machine -> its open prompt, NoPrompt when absent
    seq,         \* _seq, the id of the newest prompt
    status,      \* what became of the request in each slot
    disk,        \* proxy.allowedClients in state.json
    verdict      \* history: how each prompt was settled

vars == <<allowed, remembered, pending, seq, status, disk, verdict>>

Prompt   == 1..MaxPrompts
NoPrompt == [id |-> 0, waiters |-> {}]

(* "held": the promise is unresolved.  "hungup": held, but the client has  *)
(* closed its socket.  "passed": next() was called.  "refused": 403.       *)
Status  == {"idle", "held", "hungup", "passed", "refused"}
Verdict == {"open", "allow", "deny", "timeout", "lost"}

TypeOK ==
    /\ allowed \subseteq Machine
    /\ remembered \subseteq Machine
    /\ disk \subseteq Machine
    /\ pending \in [Machine -> [id : 0..MaxPrompts, waiters : SUBSET Request]]
    /\ \A m \in Machine : \A r \in pending[m].waiters : Owner[r] = m
    /\ seq \in 0..MaxPrompts
    /\ status \in [Request -> Status]
    /\ verdict \in [Prompt -> Verdict]

Asking == {m \in Machine : pending[m].id # 0}

Init ==
    /\ allowed = {}
    /\ remembered = {}
    /\ disk = {}
    /\ pending = [m \in Machine |-> NoPrompt]
    /\ seq = 0
    /\ status = [r \in Request |-> "idle"]
    /\ verdict = [p \in Prompt |-> "open"]

---------------------------------------------------------------------------
(* A non-loopback request reaches a gated /__admin path. *)

PassAllowed(r) ==
    /\ Owner[r] \in allowed
    /\ status' = [status EXCEPT ![r] = "passed"]
    /\ UNCHANGED <<pending, seq>>

(* Mutant of Full: one waiter too many. *)
Full_OffByOne(m) == Cardinality(pending[m].waiters) > MaxWaiters
Full(m) == Cardinality(pending[m].waiters) >= MaxWaiters

(* Mutant of Behind: the request joins the newest prompt, whosever it is. *)
Behind_Newest(r) ==
    LET newest == CHOOSE m \in Asking : \A n \in Asking : pending[m].id >= pending[n].id
    IN  [pending EXCEPT ![newest].waiters = @ \cup {r}]
Behind(r) == [pending EXCEPT ![Owner[r]].waiters = @ \cup {r}]

JoinPrompt(r) ==
    /\ Owner[r] \notin allowed
    /\ Owner[r] \in Asking
    /\ IF Full(Owner[r])
       THEN /\ status' = [status EXCEPT ![r] = "refused"]
            /\ UNCHANGED pending
       ELSE /\ status' = [status EXCEPT ![r] = "held"]
            /\ pending' = Behind(r)
    /\ UNCHANGED seq

OpenPrompt(r) ==
    /\ Owner[r] \notin allowed
    /\ Owner[r] \notin Asking
    /\ IF Cardinality(Asking) >= MaxPending
       THEN /\ status' = [status EXCEPT ![r] = "refused"]
            /\ UNCHANGED <<pending, seq>>
       ELSE /\ seq < MaxPrompts
            /\ seq' = seq + 1
            /\ pending' = [pending EXCEPT ![Owner[r]] = [id |-> seq + 1, waiters |-> {r}]]
            /\ status' = [status EXCEPT ![r] = "held"]

Arrive(r) ==
    /\ status[r] = "idle"
    /\ PassAllowed(r) \/ JoinPrompt(r) \/ OpenPrompt(r)
    /\ UNCHANGED <<allowed, remembered, disk, verdict>>

(* The client gives up on a held request.  Nothing tells the gate, so the  *)
(* request still counts as a waiter and still runs if it is granted.       *)
HangUp(r) ==
    /\ status[r] = "held"
    /\ status' = [status EXCEPT ![r] = "hungup"]
    /\ UNCHANGED <<allowed, remembered, pending, seq, disk, verdict>>

(* The exchange is over; the slot may carry another request. *)
Finish(r) ==
    /\ status[r] \in {"passed", "refused"}
    /\ status' = [status EXCEPT ![r] = "idle"]
    /\ UNCHANGED <<allowed, remembered, pending, seq, disk, verdict>>

---------------------------------------------------------------------------
(* _settle: close the prompt of machine m and answer everything behind it. *)

(* Mutant of Answered: one waiter is resolved, the others are forgotten. *)
Answered_One(m, granted) ==
    [status EXCEPT ![CHOOSE r \in pending[m].waiters : TRUE] =
        IF granted THEN "passed" ELSE "refused"]
Answered(m, granted) ==
    [r \in Request |->
        IF r \notin pending[m].waiters THEN status[r]
        ELSE IF granted THEN "passed" ELSE "refused"]

(* Mutant of Closed: the entry stays in _pending. *)
Closed_Kept(m) == pending
Closed(m) == [pending EXCEPT ![m] = NoPrompt]

Settle(m, granted, remember, how) ==
    /\ m \in Asking
    /\ pending' = Closed(m)
    /\ allowed' = IF granted THEN allowed \cup {m} ELSE allowed
    /\ remembered' = IF granted /\ remember THEN remembered \cup {m} ELSE remembered
    /\ disk' = IF granted /\ remember THEN remembered' ELSE disk
    /\ status' = Answered(m, granted)
    /\ verdict' = [verdict EXCEPT ![pending[m].id] = how]
    /\ UNCHANGED seq

(* Mutants of Timeout: silence is taken for a yes; the entry is dropped    *)
(* without answering the requests behind it.                               *)
Timeout_Grants(m) == Settle(m, TRUE, FALSE, "timeout")
Timeout_Drops(m) ==
    /\ m \in Asking
    /\ pending' = Closed(m)
    /\ verdict' = [verdict EXCEPT ![pending[m].id] = "timeout"]
    /\ UNCHANGED <<allowed, remembered, seq, status, disk>>
Timeout(m) == Settle(m, FALSE, FALSE, "timeout")

(* POST /access/decision from loopback, by the id of a prompt the operator *)
(* has been shown; the prompt may be gone by now, and then it is a 404.    *)
Decide(p, allow, remember) ==
    /\ p <= seq
    /\ \E m \in Machine :
        /\ pending[m].id = p
        /\ Settle(m, allow, remember, IF allow THEN "allow" ELSE "deny")

(* DELETE /access/:ip from loopback. *)
Revoke(m) ==
    /\ m \in allowed \cup remembered
    /\ allowed' = allowed \ {m}
    /\ remembered' = remembered \ {m}
    /\ disk' = IF m \in remembered THEN remembered' ELSE disk
    /\ UNCHANGED <<pending, seq, status, verdict>>

(* Mutant of Saved: the whole allowed set is written. *)
Saved_Allowed == allowed
Saved == remembered

(* Any other handler saves: saveState asks the gate for remembered(). *)
OtherSave ==
    /\ disk' = Saved
    /\ UNCHANGED <<allowed, remembered, pending, seq, status, verdict>>

(* The process dies and boots again: setRemembered seeds both sets. *)
Restart ==
    /\ allowed' = disk
    /\ remembered' = disk
    /\ pending' = [m \in Machine |-> NoPrompt]
    /\ status' = [r \in Request |-> "idle"]
    /\ verdict' = [p \in Prompt |->
                     IF \E m \in Asking : pending[m].id = p THEN "lost" ELSE verdict[p]]
    /\ UNCHANGED <<seq, disk>>

Next ==
    \/ \E r \in Request : Arrive(r) \/ HangUp(r) \/ Finish(r)
    \/ \E m \in Machine : Timeout(m) \/ Revoke(m)
    \/ \E p \in Prompt, allow, remember \in BOOLEAN : Decide(p, allow, remember)
    \/ OtherSave
    \/ Restart

(* TIMEOUT_MS is armed once, when the prompt opens, and nothing re-arms it. *)
Spec == Init /\ [][Next]_vars /\ \A m \in Machine : WF_vars(Timeout(m))

---------------------------------------------------------------------------
(* What is durable is in force now, and the file holds exactly the durable *)
(* approvals: an allow-once decision never leaks into state.json through   *)
(* an unrelated save, and a revoked machine never comes back at boot.      *)
DurableApprovals ==
    /\ remembered \subseteq allowed
    /\ disk = remembered

(* A machine is never both let through and asking: whatever its prompt is  *)
(* answered, no request of an approved machine is left behind it.          *)
NoPromptForAllowed == Asking \cap allowed = {}

(* No held request is orphaned: its resolver sits behind an open prompt of *)
(* its own machine, so settling that prompt answers it; and a prompt is    *)
(* open exactly while somebody is behind it.                               *)
HeldHasPrompt ==
    /\ \A r \in Request : status[r] \in {"held", "hungup"}
                             => r \in pending[Owner[r]].waiters
    /\ \A m \in Machine : \A r \in pending[m].waiters :
          status[r] \in {"held", "hungup"}
    /\ \A m \in Machine : m \in Asking <=> pending[m].waiters # {}

(* Every open prompt has an id of its own, never used before. *)
PromptIdsFresh ==
    /\ \A m \in Asking : pending[m].id <= seq /\ verdict[pending[m].id] = "open"
    /\ \A m, n \in Asking : pending[m].id = pending[n].id => m = n
    /\ \A p \in Prompt : p > seq => verdict[p] = "open"

(* The two caps bound the response objects and timers the gate can hold. *)
CapsHold ==
    /\ Cardinality(Asking) <= MaxPending
    /\ \A m \in Machine : Cardinality(pending[m].waiters) <= MaxWaiters

(* A prompt is settled once: a decision that loses the race with the       *)
(* timer, a second tab or a restart finds nothing and changes no verdict.  *)
SettledOnce ==
    [][\A p \in Prompt : verdict[p] # "open" => verdict'[p] = verdict[p]]_vars

(* A machine starts being let through only in a step where the operator    *)
(* allowed its open prompt; in particular never by timing out, by a        *)
(* restart, or by another machine's answer.                                *)
OnlyOperatorAllows ==
    [][\A m \in Machine : m \in allowed' \ allowed
          => m \in Asking /\ verdict'[pending[m].id] = "allow"]_vars

(* The gate keeps the promise of Approval: prompts, caps, timers and stale *)
(* decisions never let a machine in, or answer two waiting requests of one *)
(* machine differently.                                                    *)
ReplyFor(st) ==
    CASE st = "idle"               -> "none"
      [] st \in {"held", "hungup"} -> "asking"
      [] st = "passed"             -> "in"
      [] OTHER                     -> "out"
Replies == [r \in Request |-> ReplyFor(status[r])]
Promise == INSTANCE Approval
               WITH trusted <- allowed, durable <- remembered, reply <- Replies
KeepsPromise == Promise!Spec

(* Every held request is answered in the end, whether or not anybody looks *)
(* at the dashboard and however many requests pile up behind it.           *)
HeldIsAnswered == \A r \in Request : status[r] = "held" ~> status[r] # "held"
===========================================================================
