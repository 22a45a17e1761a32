----------------------------- MODULE Approval -----------------------------
(***************************************************************************)
(* What the access gate promises, with no prompts, timers, caps or ids:    *)
(* approval belongs to a machine; all the requests it has waiting get the  *)
(* same answer at the same moment; a request is let in only while its      *)
(* machine is trusted; and a restart keeps exactly the durable approvals.  *)
(***************************************************************************)
CONSTANTS Machine, Request, Owner

VARIABLES
    trusted,  \* machines let in right now
    durable,  \* machines still trusted after a restart
    reply     \* what each request has been told so far

vars == <<trusted, durable, reply>>

Reply == {"none", "asking", "in", "out"}

TypeOK ==
    /\ trusted \subseteq Machine
    /\ durable \subseteq trusted
    /\ reply \in [Request -> Reply]

Init ==
    /\ trusted = {}
    /\ durable = {}
    /\ reply = [r \in Request |-> "none"]

Told(m, answer) ==
    [r \in Request |-> IF Owner[r] = m /\ reply[r] = "asking" THEN answer ELSE reply[r]]

Trust(m, keep) ==
    /\ \E r \in Request : Owner[r] = m /\ reply[r] = "asking"
    /\ trusted' = trusted \cup {m}
    /\ durable' = IF keep THEN durable \cup {m} ELSE durable
    /\ reply' = Told(m, "in")

Deny(m) ==
    /\ reply' = Told(m, "out")
    /\ UNCHANGED <<trusted, durable>>

Withdraw(m) ==
    /\ trusted' = trusted \ {m}
    /\ durable' = durable \ {m}
    /\ UNCHANGED reply

Enter(r) ==
    /\ reply[r] = "none"
    /\ reply' = [reply EXCEPT ![r] = IF Owner[r] \in trusted THEN "in" ELSE "asking"]
    /\ UNCHANGED <<trusted, durable>>

TurnAway(r) ==
    /\ reply[r] = "none"
    /\ Owner[r] \notin trusted
    /\ reply' = [reply EXCEPT ![r] = "out"]
    /\ UNCHANGED <<trusted, durable>>

Leave(r) ==
    /\ reply[r] \in {"in", "out"}
    /\ reply' = [reply EXCEPT ![r] = "none"]
    /\ UNCHANGED <<trusted, durable>>

Restart ==
    /\ trusted' = durable
    /\ reply' = [r \in Request |-> "none"]
    /\ UNCHANGED durable

Next ==
    \/ \E m \in Machine : Deny(m) \/ Withdraw(m) \/ \E keep \in BOOLEAN : Trust(m, keep)
    \/ \E r \in Request : Enter(r) \/ TurnAway(r) \/ Leave(r)
    \/ Restart

Spec == Init /\ [][Next]_vars
===========================================================================
