------------------------- MODULE AccessGateProofs -------------------------
(***************************************************************************)
(* Proofs about AccessGate, for any number of machines and requests, any   *)
(* caps and any bound on prompts.                                          *)
(***************************************************************************)
EXTENDS AccessGate, FiniteSetTheorems, TLAPS

(* The inductive invariant.  Each part needs the others: that a settled    *)
(* prompt answers only held requests of its own machine needs HeldHasPrompt*)
(* and TypeOK, that it is settled for the first time needs PromptIdsFresh, *)
(* and that no approved machine is left asking needs NoPromptForAllowed    *)
(* through DurableApprovals at a restart.                                  *)
IInv == TypeOK /\ DurableApprovals /\ NoPromptForAllowed /\ HeldHasPrompt /\ PromptIdsFresh

LEMMA InitIInv == Init => IInv
<1> SUFFICES ASSUME Init PROVE IInv
  OBVIOUS
<1>1. Asking = {}
  BY DEF Init, Asking, NoPrompt
<1>2. TypeOK
  BY GateAssumption DEF Init, TypeOK, NoPrompt, Status, Verdict
<1>3. QED
  BY <1>1, <1>2 DEF Init, IInv, DurableApprovals, NoPromptForAllowed, HeldHasPrompt,
     PromptIdsFresh, NoPrompt, Status

(* Settling any prompt, whoever or whatever settles it, keeps the          *)
(* invariant: the prompt's waiters are all answered and its id is spent.   *)
LEMMA SettleIInv ==
  ASSUME IInv, NEW m \in Machine, NEW granted \in BOOLEAN, NEW remember \in BOOLEAN,
         NEW how \in {"allow", "deny", "timeout"},
         Settle(m, granted, remember, how)
  PROVE  IInv'
<1> USE GateAssumption DEF IInv
<1>0. pending' = [pending EXCEPT ![m] = NoPrompt]
  BY DEF Settle, Closed
<1>1. Asking' = Asking \ {m}
  BY <1>0 DEF Settle, Asking, TypeOK, NoPrompt
<1>2. pending[m].id \in Prompt
  BY DEF Settle, Asking, TypeOK, Prompt
<1>3. TypeOK'
  <2>1. status' \in [Request -> Status]
    BY DEF Settle, Answered, TypeOK, Status
  <2>2. verdict' \in [Prompt -> Verdict]
    BY DEF Settle, TypeOK, Verdict
  <2>3. pending' \in [Machine -> [id : 0..MaxPrompts, waiters : SUBSET Request]]
    BY <1>0 DEF TypeOK, NoPrompt
  <2>4. \A n \in Machine : \A r \in pending'[n].waiters : Owner[r] = n
    BY <1>0 DEF TypeOK, NoPrompt
  <2>5. allowed' \subseteq Machine /\ remembered' \subseteq Machine /\ disk' \subseteq Machine
    BY DEF Settle, TypeOK
  <2>6. QED
    BY <2>1, <2>2, <2>3, <2>4, <2>5 DEF Settle, TypeOK
<1>4. DurableApprovals'
  BY DEF Settle, DurableApprovals
<1>5. NoPromptForAllowed'
  BY <1>1 DEF Settle, NoPromptForAllowed
<1>6. HeldHasPrompt'
  <2>1. ASSUME NEW r \in Request, status'[r] \in {"held", "hungup"}
        PROVE  r \in pending'[Owner[r]].waiters
    <3>1. r \notin pending[m].waiters /\ status'[r] = status[r]
      BY <2>1 DEF Settle, Answered
    <3>2. r \in pending[Owner[r]].waiters
      BY <2>1, <3>1 DEF HeldHasPrompt
    <3>3. QED
      BY <1>0, <3>1, <3>2 DEF TypeOK
  <2>2. ASSUME NEW n \in Machine, NEW r \in pending'[n].waiters
        PROVE  status'[r] \in {"held", "hungup"}
    <3>1. n # m /\ r \in pending[n].waiters
      BY <1>0 DEF TypeOK, NoPrompt
    <3>2. r \in Request /\ r \notin pending[m].waiters
      BY <3>1 DEF TypeOK
    <3>3. QED
      BY <3>1, <3>2 DEF Settle, Answered, HeldHasPrompt
  <2>3. \A n \in Machine : n \in Asking' <=> pending'[n].waiters # {}
    BY <1>0, <1>1 DEF HeldHasPrompt, TypeOK, NoPrompt
  <2>4. QED
    BY <2>1, <2>2, <2>3 DEF HeldHasPrompt
<1>7. PromptIdsFresh'
  <2>1. \A n \in Asking' : n \in Asking /\ n # m /\ pending'[n] = pending[n]
    BY <1>0, <1>1 DEF TypeOK, Asking
  <2>2. \A n \in Asking' : pending'[n].id # pending[m].id
    BY <2>1 DEF PromptIdsFresh, Settle
  <2>3. \A p \in Prompt : p # pending[m].id => verdict'[p] = verdict[p]
    BY <1>2 DEF Settle, TypeOK
  <2>4. \A n \in Asking' : pending'[n].id \in Prompt
    BY <2>1 DEF Asking, TypeOK, Prompt
  <2>5. pending[m].id <= seq /\ seq' = seq
    BY DEF PromptIdsFresh, Settle
  <2>6. seq \in Nat /\ pending[m].id \in Nat
    BY <1>2 DEF TypeOK, Prompt
  <2>7. \A p \in Prompt : p > seq' => verdict'[p] = "open"
    BY <2>3, <2>5, <2>6 DEF PromptIdsFresh, Prompt
  <2>8. \A n \in Asking' : pending'[n].id <= seq' /\ verdict'[pending'[n].id] = "open"
    BY <2>1, <2>2, <2>3, <2>4, <2>5 DEF PromptIdsFresh
  <2>9. \A n, k \in Asking' : pending'[n].id = pending'[k].id => n = k
    BY <2>1 DEF PromptIdsFresh
  <2>10. QED
    BY <2>7, <2>8, <2>9 DEF PromptIdsFresh
<1>8. QED
  BY <1>3, <1>4, <1>5, <1>6, <1>7

(* A request that arrives either changes no prompt, joins its own          *)
(* machine's prompt, or opens a prompt whose id was never used.            *)
LEMMA ArriveIInv ==
  ASSUME IInv, NEW r \in Request, Arrive(r)
  PROVE  IInv'
<1> USE GateAssumption DEF IInv
<1>0. status[r] = "idle" /\ Owner[r] \in Machine
  BY DEF Arrive
<1>1. CASE pending' = pending /\ seq' = seq /\
           \E v \in {"passed", "refused"} : status' = [status EXCEPT ![r] = v]
  <2>1. Asking' = Asking
    BY <1>1 DEF Asking
  <2>2. \A q \in Request : q # r => status'[q] = status[q]
    BY <1>1 DEF TypeOK
  <2>3. \A m \in Machine : r \notin pending[m].waiters
    BY <1>0 DEF HeldHasPrompt
  <2>4. HeldHasPrompt'
    BY <1>0, <1>1, <2>1, <2>2, <2>3 DEF HeldHasPrompt, TypeOK
  <2>5. TypeOK'
    BY <1>1 DEF TypeOK, Arrive, Status
  <2>6. QED
    BY <1>1, <2>1, <2>4, <2>5 DEF Arrive, DurableApprovals, NoPromptForAllowed, PromptIdsFresh
<1>2. CASE /\ Owner[r] \in Asking
           /\ pending' = [pending EXCEPT ![Owner[r]].waiters = @ \cup {r}]
           /\ seq' = seq
           /\ status' = [status EXCEPT ![r] = "held"]
  <2>1. \A m \in Machine :
           /\ pending'[m].id = pending[m].id
           /\ m # Owner[r] => pending'[m] = pending[m]
    BY <1>2 DEF TypeOK
  <2>2. pending'[Owner[r]].waiters = pending[Owner[r]].waiters \cup {r}
    BY <1>0, <1>2 DEF TypeOK
  <2>3. Asking' = Asking
    BY <2>1 DEF Asking
  <2>4. HeldHasPrompt'
    <3>1. \A q \in Request : status'[q] = IF q = r THEN "held" ELSE status[q]
      BY <1>2 DEF TypeOK
    <3>2. \A q \in Request : status'[q] \in {"held", "hungup"}
                                => q \in pending'[Owner[q]].waiters
      BY <2>1, <2>2, <3>1 DEF HeldHasPrompt
    <3>3. \A m \in Machine : \A q \in pending'[m].waiters : q \in Request
      BY <2>1, <2>2 DEF TypeOK
    <3>4. \A m \in Machine : \A q \in pending'[m].waiters : status'[q] \in {"held", "hungup"}
      BY <2>1, <2>2, <3>1, <3>3 DEF HeldHasPrompt
    <3>5. \A m \in Machine : m \in Asking <=> pending'[m].waiters # {}
      BY <1>2, <2>1, <2>2 DEF HeldHasPrompt
    <3>6. QED
      BY <2>3, <3>2, <3>4, <3>5 DEF HeldHasPrompt
  <2>5. TypeOK'
    <3>1. pending' \in [Machine -> [id : 0..MaxPrompts, waiters : SUBSET Request]]
      <4>1. pending[Owner[r]].waiters \cup {r} \in SUBSET Request
        BY <1>0 DEF TypeOK
      <4>2. pending[Owner[r]] \in [id : 0..MaxPrompts, waiters : SUBSET Request]
        BY <1>0 DEF TypeOK
      <4>3. pending'[Owner[r]] = [pending[Owner[r]] EXCEPT !.waiters = @ \cup {r}]
        BY <1>0, <1>2 DEF TypeOK
      <4>4. pending'[Owner[r]] \in [id : 0..MaxPrompts, waiters : SUBSET Request]
        BY <4>1, <4>2, <4>3
      <4>5. pending' = [m \in Machine |-> pending'[m]]
        BY <1>2 DEF TypeOK
      <4>6. QED
        BY <2>1, <4>4, <4>5 DEF TypeOK
    <3>2. \A m \in Machine : \A q \in pending'[m].waiters : Owner[q] = m
      BY <2>1, <2>2 DEF TypeOK
    <3>3. QED
      BY <1>2, <3>1, <3>2 DEF TypeOK, Arrive, Status
  <2>6. PromptIdsFresh'
    BY <1>2, <2>1, <2>3 DEF Arrive, PromptIdsFresh, Asking
  <2>7. QED
    BY <2>3, <2>4, <2>5, <2>6 DEF Arrive, DurableApprovals, NoPromptForAllowed
<1>3. CASE /\ Owner[r] \notin allowed
           /\ Owner[r] \notin Asking
           /\ seq < MaxPrompts
           /\ seq' = seq + 1
           /\ pending' = [pending EXCEPT ![Owner[r]] = [id |-> seq + 1, waiters |-> {r}]]
           /\ status' = [status EXCEPT ![r] = "held"]
  <2>0. seq \in Nat /\ seq + 1 \in Prompt
    BY <1>3 DEF TypeOK, Prompt
  <2>1. \A m \in Machine : m # Owner[r] => pending'[m] = pending[m]
    BY <1>3 DEF TypeOK
  <2>2. pending'[Owner[r]] = [id |-> seq + 1, waiters |-> {r}]
    BY <1>0, <1>3 DEF TypeOK
  <2>3. Asking' = Asking \cup {Owner[r]}
    BY <1>0, <2>0, <2>1, <2>2 DEF Asking, Prompt
  <2>4. HeldHasPrompt'
    <3>1. \A q \in Request : status[q] \in {"held", "hungup"} => Owner[q] # Owner[r]
      BY <1>0, <1>3 DEF HeldHasPrompt, Asking, TypeOK
    <3>2. pending[Owner[r]].waiters \subseteq Request
      BY <1>0 DEF TypeOK
    <3>3. \A q \in Request : status'[q] \in {"held", "hungup"}
                                => q \in pending'[Owner[q]].waiters
      BY <1>3, <2>1, <2>2, <3>1 DEF HeldHasPrompt, TypeOK
    <3>4. \A m \in Machine : \A q \in pending'[m].waiters : status'[q] \in {"held", "hungup"}
      BY <1>0, <1>3, <2>1, <2>2 DEF HeldHasPrompt, TypeOK
    <3>5. \A m \in Machine : m \in Asking' <=> pending'[m].waiters # {}
      BY <2>1, <2>2, <2>3 DEF HeldHasPrompt
    <3>6. QED
      BY <3>3, <3>4, <3>5 DEF HeldHasPrompt
  <2>5. TypeOK'
    <3>1. pending' \in [Machine -> [id : 0..MaxPrompts, waiters : SUBSET Request]]
      BY <1>0, <1>3, <2>0 DEF TypeOK, Prompt
    <3>2. \A m \in Machine : \A q \in pending'[m].waiters : Owner[q] = m
      BY <2>1, <2>2 DEF TypeOK
    <3>3. status' \in [Request -> Status] /\ seq' \in 0..MaxPrompts
      BY <1>3, <2>0 DEF TypeOK, Status, Prompt
    <3>4. QED
      BY <3>1, <3>2, <3>3 DEF TypeOK, Arrive
  <2>6. PromptIdsFresh'
    <3>1. \A m \in Asking : pending[m].id \in Prompt /\ pending[m].id <= seq
      BY DEF Asking, TypeOK, Prompt, PromptIdsFresh
    <3>2. \A p \in Prompt : p > seq' => verdict'[p] = "open"
      BY <1>3, <2>0 DEF Arrive, PromptIdsFresh, Prompt
    <3>3. verdict'[seq + 1] = "open"
      BY <2>0 DEF Arrive, PromptIdsFresh
    <3>4. \A m \in Asking' : pending'[m].id <= seq' /\ verdict'[pending'[m].id] = "open"
      BY <1>3, <2>0, <2>1, <2>2, <2>3, <3>1, <3>3 DEF Arrive, PromptIdsFresh, Asking, Prompt
    <3>5. \A m, n \in Asking' : pending'[m].id = pending'[n].id => m = n
      BY <1>3, <2>0, <2>1, <2>2, <2>3, <3>1 DEF PromptIdsFresh, Asking, Prompt
    <3>6. QED
      BY <3>2, <3>4, <3>5 DEF PromptIdsFresh
  <2>7. QED
    BY <1>3, <2>3, <2>4, <2>5, <2>6 DEF Arrive, DurableApprovals, NoPromptForAllowed
<1>4. QED
  BY <1>1, <1>2, <1>3 DEF Arrive, PassAllowed, JoinPrompt, OpenPrompt, Behind

(* The steps that open and settle no prompt. *)
LEMMA QuietIInv ==
  ASSUME IInv,
         \/ \E r \in Request : HangUp(r) \/ Finish(r)
         \/ \E m \in Machine : Revoke(m)
         \/ OtherSave
         \/ UNCHANGED vars
  PROVE  IInv'
<1> USE GateAssumption DEF IInv
<1>0. ASSUME UNCHANGED <<pending, seq, verdict>>
      PROVE  Asking' = Asking /\ PromptIdsFresh'
  <2>1. Asking' = Asking
    BY <1>0 DEF Asking
  <2>2. QED
    BY <1>0, <2>1 DEF PromptIdsFresh
<1>1. ASSUME NEW r \in Request, HangUp(r) \/ Finish(r)
      PROVE  IInv'
  <2>1. status' \in [Request -> Status]
    BY <1>1 DEF HangUp, Finish, TypeOK, Status
  <2>2. HeldHasPrompt'
    <3>1. \A q \in Request : status'[q] \in {"held", "hungup"}
                              <=> status[q] \in {"held", "hungup"}
      BY <1>1 DEF HangUp, Finish, TypeOK
    <3>2. \A m \in Machine : pending[m].waiters \subseteq Request
      BY DEF TypeOK
    <3>3. Asking' = Asking /\ pending' = pending
      BY <1>0, <1>1 DEF HangUp, Finish
    <3>4. QED
      BY <3>1, <3>2, <3>3 DEF HeldHasPrompt
  <2>3. QED
    BY <1>0, <1>1, <2>1, <2>2 DEF HangUp, Finish, TypeOK, DurableApprovals, NoPromptForAllowed
<1>2. ASSUME NEW m \in Machine, Revoke(m)
      PROVE  IInv'
  BY <1>0, <1>2 DEF Revoke, TypeOK, DurableApprovals, NoPromptForAllowed, HeldHasPrompt
<1>3. ASSUME OtherSave \/ UNCHANGED vars
      PROVE  IInv'
  BY <1>0, <1>3 DEF OtherSave, Saved, vars, TypeOK, DurableApprovals, NoPromptForAllowed,
     HeldHasPrompt
<1>4. QED
  BY <1>1, <1>2, <1>3

(* A restart leaves nobody asking, and trusts exactly what the file says. *)
LEMMA RestartIInv ==
  ASSUME IInv, Restart
  PROVE  IInv'
<1> USE GateAssumption DEF IInv
<1>1. Asking' = {}
  BY DEF Restart, Asking, NoPrompt
<1>2. TypeOK'
  BY DEF Restart, TypeOK, NoPrompt, Status, Verdict
<1>3. HeldHasPrompt'
  BY <1>1 DEF Restart, HeldHasPrompt, NoPrompt
<1>4. PromptIdsFresh'
  <2>1. ASSUME NEW p \in Prompt, p > seq
        PROVE  verdict'[p] = "open"
    <3>1. \A m \in Asking : pending[m].id # p
      BY <2>1 DEF PromptIdsFresh, TypeOK, Prompt, Asking
    <3>2. QED
      BY <2>1, <3>1 DEF Restart, PromptIdsFresh
  <2>2. QED
    BY <1>1, <2>1 DEF PromptIdsFresh, Restart
<1>5. QED
  BY <1>1, <1>2, <1>3, <1>4 DEF Restart, DurableApprovals, NoPromptForAllowed

LEMMA NextIInv == IInv /\ [Next]_vars => IInv'
<1> SUFFICES ASSUME IInv, [Next]_vars PROVE IInv'
  OBVIOUS
<1>1. ASSUME NEW m \in Machine, Timeout(m)
      PROVE  IInv'
  BY <1>1, SettleIInv DEF Timeout
<1>2. ASSUME NEW p \in Prompt, NEW allow \in BOOLEAN, NEW remember \in BOOLEAN,
             Decide(p, allow, remember)
      PROVE  IInv'
  BY <1>2, SettleIInv DEF Decide
<1>3. QED
  BY <1>1, <1>2, ArriveIInv, QuietIInv, RestartIInv DEF Next

(* The gate's safety, for every number of machines and requests: the       *)
(* durable approvals are the ones on disk, nobody approved is left asking, *)
(* no held request loses its prompt, and prompt ids are never reused.      *)
THEOREM GateInvariant == Spec => []IInv
<1>1. QED
  BY InitIInv, NextIInv, PTL DEF Spec

(* What a restart reads is what the operator asked to remember: whoever    *)
(* saved last, allow-once stays out of the file and a revocation is in it. *)
THEOREM GateDurableApprovals == Spec => []DurableApprovals
BY GateInvariant, PTL DEF IInv

(* No machine is let through and asking at once: an approval settles the   *)
(* machine's own prompt in the same step, by whatever way it comes.        *)
THEOREM GateNoPromptForAllowed == Spec => []NoPromptForAllowed
BY GateInvariant, PTL DEF IInv

(* A request that is held is among the waiters of an open prompt of its    *)
(* own machine (_settle takes all of them): nobody is orphaned.            *)
THEOREM GateHeldHasPrompt == Spec => []HeldHasPrompt
BY GateInvariant, PTL DEF IInv

(* A late answer, a second tab or a timer that loses the race changes no   *)
(* verdict already given.                                                  *)
THEOREM GateSettledOnce == Spec => SettledOnce
<1>1. ASSUME IInv, NEW m \in Machine, NEW granted, NEW remember,
             NEW how, Settle(m, granted, remember, how)
      PROVE  \A p \in Prompt : verdict[p] # "open" => verdict'[p] = verdict[p]
  <2>1. verdict[pending[m].id] = "open" /\ pending[m].id \in Prompt
    BY <1>1, GateAssumption DEF IInv, Settle, PromptIdsFresh, Asking, TypeOK, Prompt
  <2>2. QED
    BY <1>1, <2>1 DEF IInv, Settle, TypeOK
<1>2. ASSUME IInv, [Next]_vars
      PROVE  \A p \in Prompt : verdict[p] # "open" => verdict'[p] = verdict[p]
  <2>1. CASE Restart
    <3>1. \A m \in Asking : verdict[pending[m].id] = "open"
      BY <1>2 DEF IInv, PromptIdsFresh
    <3>2. QED
      BY <2>1, <3>1 DEF Restart
  <2>2. CASE \E m \in Machine : Timeout(m)
    BY <1>1, <1>2, <2>2 DEF Timeout
  <2>3. CASE \E p \in Prompt, allow, remember \in BOOLEAN : Decide(p, allow, remember)
    BY <1>1, <1>2, <2>3 DEF Decide
  <2>4. CASE verdict' = verdict
    BY <2>4
  <2>5. QED
    BY <1>2, <2>1, <2>2, <2>3, <2>4 DEF Next, vars, Arrive, HangUp, Finish, Revoke, OtherSave
<1>3. QED
  BY <1>2, GateInvariant, PTL DEF Spec, SettledOnce

(* Only an operator's yes to the machine's own open prompt lets it in. *)
THEOREM GateOnlyOperatorAllows == Spec => OnlyOperatorAllows
<1>1. ASSUME IInv, NEW k \in Machine, NEW granted \in BOOLEAN, NEW remember,
             NEW how, granted => how = "allow", Settle(k, granted, remember, how)
      PROVE  \A m \in Machine : m \in allowed' \ allowed
                => m \in Asking /\ verdict'[pending[m].id] = "allow"
  <2>1. pending[k].id \in Prompt /\ k \in Asking
    BY <1>1, GateAssumption DEF IInv, Settle, Asking, TypeOK, Prompt
  <2>2. QED
    BY <1>1, <2>1 DEF IInv, Settle, TypeOK
<1>2. ASSUME IInv, [Next]_vars
      PROVE  \A m \in Machine : m \in allowed' \ allowed
                => m \in Asking /\ verdict'[pending[m].id] = "allow"
  <2>1. CASE \E m \in Machine : Timeout(m)
    BY <1>1, <1>2, <2>1 DEF Timeout
  <2>2. CASE \E p \in Prompt, allow, remember \in BOOLEAN : Decide(p, allow, remember)
    BY <1>1, <1>2, <2>2 DEF Decide
  <2>3. CASE allowed' \subseteq allowed
    BY <2>3
  <2>4. CASE Restart
    BY <1>2, <2>4 DEF Restart, IInv, DurableApprovals
  <2>5. QED
    BY <1>2, <2>1, <2>2, <2>3, <2>4 DEF Next, vars, Arrive, HangUp, Finish, Revoke, OtherSave
<1>3. QED
  BY <1>2, GateInvariant, PTL DEF Spec, OnlyOperatorAllows

---------------------------------------------------------------------------
(* The caps, whatever their values.  The sets they count stay finite       *)
(* because they only ever grow by one element.                             *)
FiniteQueues ==
    /\ IsFiniteSet(Asking)
    /\ \A m \in Machine : IsFiniteSet(pending[m].waiters)

LEMMA SettleCaps ==
  ASSUME IInv, FiniteQueues, CapsHold, NEW m \in Machine, NEW granted, NEW remember,
         NEW how, Settle(m, granted, remember, how)
  PROVE  (FiniteQueues /\ CapsHold)'
<1>1. \A n \in Machine : pending'[n] = IF n = m THEN NoPrompt ELSE pending[n]
  BY DEF Settle, Closed, IInv, TypeOK
<1>2. Asking' = Asking \ {m}
  BY <1>1 DEF Asking, NoPrompt
<1>3. IsFiniteSet(Asking') /\ Cardinality(Asking') <= Cardinality(Asking)
  BY <1>2, FS_Subset DEF FiniteQueues
<1>4. Cardinality(Asking') <= MaxPending
  BY <1>3, FS_CardinalityType, GateAssumption DEF CapsHold, FiniteQueues
<1>5. IsFiniteSet({}) /\ Cardinality({}) <= MaxWaiters
  BY FS_EmptySet, GateAssumption
<1>6. \A n \in Machine : /\ IsFiniteSet(pending'[n].waiters)
                         /\ Cardinality(pending'[n].waiters) <= MaxWaiters
  BY <1>1, <1>5 DEF FiniteQueues, CapsHold, NoPrompt
<1>7. QED
  BY <1>3, <1>4, <1>6 DEF FiniteQueues, CapsHold

LEMMA ArriveCaps ==
  ASSUME IInv, FiniteQueues, CapsHold, NEW r \in Request, Arrive(r)
  PROVE  (FiniteQueues /\ CapsHold)'
<1> USE GateAssumption
<1>0. Owner[r] \in Machine
  OBVIOUS
<1>1. CASE pending' = pending
  BY <1>1 DEF FiniteQueues, CapsHold, Asking
<1>2. CASE ~Full(Owner[r]) /\ pending' = [pending EXCEPT ![Owner[r]].waiters = @ \cup {r}]
  <2>1. /\ \A m \in Machine : pending'[m].id = pending[m].id
        /\ \A m \in Machine : m # Owner[r] => pending'[m] = pending[m]
        /\ pending'[Owner[r]].waiters = pending[Owner[r]].waiters \cup {r}
    BY <1>0, <1>2 DEF IInv, TypeOK
  <2>2. Asking' = Asking
    BY <2>1 DEF Asking
  <2>3. Cardinality(pending[Owner[r]].waiters) \in Nat
    BY <1>0, FS_CardinalityType DEF FiniteQueues
  <2>4. Cardinality(pending[Owner[r]].waiters) < MaxWaiters
    BY <1>2, <2>3 DEF Full
  <2>5. /\ IsFiniteSet(pending'[Owner[r]].waiters)
        /\ Cardinality(pending'[Owner[r]].waiters) <= MaxWaiters
    <3> DEFINE W == pending[Owner[r]].waiters
    <3>1. IsFiniteSet(W)
      BY <1>0 DEF FiniteQueues
    <3>2. /\ IsFiniteSet(W \cup {r})
          /\ Cardinality(W \cup {r}) = IF r \in W THEN Cardinality(W) ELSE Cardinality(W) + 1
      BY <3>1, FS_AddElement
    <3>3. QED
      BY <2>1, <2>3, <2>4, <3>2
  <2>6. QED
    BY <2>1, <2>2, <2>5 DEF FiniteQueues, CapsHold
<1>3. CASE /\ ~(Cardinality(Asking) >= MaxPending)
           /\ Owner[r] \notin Asking
           /\ seq' = seq + 1
           /\ pending' = [pending EXCEPT ![Owner[r]] = [id |-> seq + 1, waiters |-> {r}]]
  <2>1. \A m \in Machine : pending'[m] = IF m = Owner[r] THEN [id |-> seq + 1, waiters |-> {r}]
                                         ELSE pending[m]
    BY <1>3 DEF IInv, TypeOK
  <2>2. Asking' = Asking \cup {Owner[r]}
    BY <1>0, <2>1 DEF Asking, IInv, TypeOK
  <2>3. Cardinality(Asking) \in Nat
    BY FS_CardinalityType DEF FiniteQueues
  <2>4. IsFiniteSet(Asking') /\ Cardinality(Asking') <= MaxPending
    <3>1. IsFiniteSet(Asking)
      BY DEF FiniteQueues
    <3>2. /\ IsFiniteSet(Asking \cup {Owner[r]})
          /\ Cardinality(Asking \cup {Owner[r]}) =
               IF Owner[r] \in Asking THEN Cardinality(Asking) ELSE Cardinality(Asking) + 1
      BY <3>1, FS_AddElement
    <3>3. QED
      BY <1>3, <2>2, <2>3, <3>2
  <2>5. IsFiniteSet({r}) /\ Cardinality({r}) = 1
    BY FS_Singleton
  <2>6. \A m \in Machine : /\ IsFiniteSet(pending'[m].waiters)
                           /\ Cardinality(pending'[m].waiters) <= MaxWaiters
    BY <2>1, <2>5 DEF FiniteQueues, CapsHold
  <2>7. QED
    BY <2>4, <2>6 DEF FiniteQueues, CapsHold
<1>4. QED
  BY <1>1, <1>2, <1>3 DEF Arrive, PassAllowed, JoinPrompt, OpenPrompt, Behind

(* At most MaxPending machines are asking and at most MaxWaiters requests  *)
(* wait behind any of them, at all times.                                  *)
THEOREM GateCaps == Spec => []CapsHold
<1>1. Init => FiniteQueues /\ CapsHold
  <2> SUFFICES ASSUME Init PROVE FiniteQueues /\ CapsHold
    OBVIOUS
  <2>1. Asking = {} /\ \A m \in Machine : pending[m].waiters = {}
    BY DEF Init, Asking, NoPrompt
  <2>2. QED
    BY <2>1, FS_EmptySet, GateAssumption DEF FiniteQueues, CapsHold
<1>2. IInv /\ FiniteQueues /\ CapsHold /\ [Next]_vars => (FiniteQueues /\ CapsHold)'
  <2> SUFFICES ASSUME IInv, FiniteQueues, CapsHold, [Next]_vars
               PROVE  (FiniteQueues /\ CapsHold)'
    OBVIOUS
  <2>1. CASE pending' = pending
    BY <2>1 DEF FiniteQueues, CapsHold, Asking
  <2>2. CASE Restart
    <3>1. Asking' = {} /\ \A m \in Machine : pending'[m].waiters = {}
      BY <2>2 DEF Restart, Asking, NoPrompt
    <3>2. IsFiniteSet({}) /\ Cardinality({}) = 0
      BY FS_EmptySet
    <3>3. FiniteQueues'
      BY <3>1, <3>2 DEF FiniteQueues
    <3>4. Cardinality(Asking') <= MaxPending
      BY <3>1, <3>2, GateAssumption
    <3>5. ASSUME NEW m \in Machine
          PROVE  Cardinality(pending'[m].waiters) <= MaxWaiters
      <4>1. pending'[m].waiters = {}
        BY <3>1
      <4>2. QED
        BY <3>2, <4>1, GateAssumption
    <3>6. QED
      BY <3>3, <3>4, <3>5 DEF CapsHold
  <2>3. CASE \E m \in Machine : Timeout(m)
    BY <2>3, SettleCaps DEF Timeout
  <2>4. CASE \E p \in Prompt, allow, remember \in BOOLEAN : Decide(p, allow, remember)
    BY <2>4, SettleCaps DEF Decide
  <2>5. CASE \E r \in Request : Arrive(r)
    BY <2>5, ArriveCaps
  <2>6. QED
    BY <2>1, <2>2, <2>3, <2>4, <2>5 DEF Next, vars, HangUp, Finish, Revoke, OtherSave
<1>3. QED
  BY <1>1, <1>2, GateInvariant, PTL DEF Spec

---------------------------------------------------------------------------
(* The refinement.  Settling is the step with content: the abstract gate   *)
(* gives every asking request of the machine one answer, and HeldHasPrompt *)
(* says those are exactly the waiters of the settled prompt.               *)
LEMMA SettleTold ==
  ASSUME IInv, NEW m \in Machine, NEW granted \in BOOLEAN, NEW remember, NEW how,
         Settle(m, granted, remember, how)
  PROVE  \A r \in Request :
           status'[r] = IF Owner[r] = m /\ status[r] \in {"held", "hungup"}
                        THEN IF granted THEN "passed" ELSE "refused"
                        ELSE status[r]
<1> TAKE r \in Request
<1>1. r \in pending[m].waiters <=> Owner[r] = m /\ status[r] \in {"held", "hungup"}
  BY DEF IInv, HeldHasPrompt, TypeOK
<1>2. QED
  BY <1>1 DEF Settle, Answered

(* A step that moves one request moves one reply. *)
LEMMA OneReply ==
  ASSUME NEW r \in Request, NEW v, status \in [Request -> Status],
         status' = [status EXCEPT ![r] = v]
  PROVE  Replies' = [Replies EXCEPT ![r] = ReplyFor(v)]
<1>1. \A q \in Request : status'[q] = IF q = r THEN v ELSE status[q]
  OBVIOUS
<1>2. QED
  BY <1>1 DEF Replies

LEMMA SettlePromise ==
  ASSUME IInv, NEW m \in Machine, NEW granted \in BOOLEAN, NEW remember \in BOOLEAN,
         NEW how, Settle(m, granted, remember, how)
  PROVE  Promise!Next
<1>1. PICK r \in Request : Owner[r] = m /\ status[r] \in {"held", "hungup"}
  <2>1. pending[m].waiters # {}
    BY DEF Settle, IInv, HeldHasPrompt
  <2>2. \A r \in pending[m].waiters :
           r \in Request /\ Owner[r] = m /\ status[r] \in {"held", "hungup"}
    BY DEF IInv, HeldHasPrompt, TypeOK
  <2>3. QED
    BY <2>1, <2>2
<1>2. CASE granted
  <2>1. Promise!Trust(m, remember)
    BY ZenonT(60), <1>1, <1>2, SettleTold DEF Promise!Trust, Promise!Told, Settle, IInv, TypeOK, Status,
       Replies, ReplyFor
  <2>2. QED
    BY <2>1 DEF Promise!Next
<1>3. CASE ~granted
  <2>1. Promise!Deny(m)
    BY <1>3, SettleTold DEF Promise!Deny, Promise!Told, Settle, IInv, TypeOK, Status,
       Replies, ReplyFor
  <2>2. QED
    BY <2>1 DEF Promise!Next
<1>4. QED
  BY <1>2, <1>3

LEMMA ArrivePromise ==
  ASSUME IInv, NEW r \in Request, Arrive(r)
  PROVE  Promise!Next
<1>1. /\ status[r] = "idle"
      /\ UNCHANGED <<allowed, remembered>>
      /\ \E v \in {"passed", "held", "refused"} :
            /\ status' = [status EXCEPT ![r] = v]
            /\ Owner[r] \in allowed <=> v = "passed"
  BY DEF Arrive, PassAllowed, JoinPrompt, OpenPrompt
<1>2. PICK v \in {"passed", "held", "refused"} :
            /\ status' = [status EXCEPT ![r] = v]
            /\ Owner[r] \in allowed <=> v = "passed"
  BY <1>1
<1>3. Replies' = [Replies EXCEPT ![r] = ReplyFor(v)] /\ Replies[r] = "none"
  BY <1>1, <1>2, OneReply DEF IInv, TypeOK, Replies, ReplyFor
<1>4. CASE v \in {"passed", "held"}
  <2>1. Promise!Enter(r)
    BY <1>1, <1>2, <1>3, <1>4 DEF Promise!Enter, ReplyFor
  <2>2. QED
    BY <2>1 DEF Promise!Next
<1>5. CASE v = "refused"
  <2>1. Promise!TurnAway(r)
    BY <1>1, <1>2, <1>3, <1>5 DEF Promise!TurnAway, ReplyFor
  <2>2. QED
    BY <2>1 DEF Promise!Next
<1>6. QED
  BY <1>4, <1>5

(* Every step of the gate is a step of the promise, or changes nothing the *)
(* promise speaks of.                                                      *)
THEOREM GateKeepsPromise == Spec => KeepsPromise
<1>1. Init => Promise!Init
  BY DEF Init, Promise!Init, Replies, ReplyFor
<1>2. IInv /\ [Next]_vars => [Promise!Next]_(Promise!vars)
  <2> SUFFICES ASSUME IInv, [Next]_vars PROVE [Promise!Next]_(Promise!vars)
    OBVIOUS
  <2>1. CASE \E r \in Request : Arrive(r)
    BY <2>1, ArrivePromise
  <2>2. CASE \E r \in Request : HangUp(r)
    BY <2>2 DEF HangUp, Promise!vars, IInv, TypeOK, Replies, ReplyFor
  <2>3. ASSUME NEW r \in Request, Finish(r)
        PROVE  Promise!Next
    <3>1. Replies' = [Replies EXCEPT ![r] = "none"]
      BY <2>3, OneReply DEF Finish, IInv, TypeOK, ReplyFor
    <3>2. Promise!Leave(r)
      BY <2>3, <3>1 DEF Finish, Promise!Leave, Replies, ReplyFor
    <3>3. QED
      BY <3>2 DEF Promise!Next
  <2>4. ASSUME NEW m \in Machine, Timeout(m)
        PROVE  Promise!Next
    BY <2>4, SettlePromise DEF Timeout
  <2>5. ASSUME NEW m \in Machine, Revoke(m)
        PROVE  Promise!Next
    <3>1. Promise!Withdraw(m)
      BY <2>5 DEF Revoke, Promise!Withdraw, Replies
    <3>2. QED
      BY <3>1 DEF Promise!Next
  <2>6. ASSUME NEW p \in Prompt, NEW allow \in BOOLEAN, NEW remember \in BOOLEAN,
               Decide(p, allow, remember)
        PROVE  Promise!Next
    BY <2>6, SettlePromise DEF Decide
  <2>7. CASE OtherSave \/ UNCHANGED vars
    BY <2>7 DEF OtherSave, vars, Promise!vars, Replies
  <2>8. CASE Restart
    <3>1. Promise!Restart
      BY <2>8 DEF Restart, Promise!Restart, IInv, DurableApprovals, Replies, ReplyFor
    <3>2. QED
      BY <3>1 DEF Promise!Next
  <2>9. QED
    BY <2>1, <2>2, <2>3, <2>4, <2>5, <2>6, <2>7, <2>8 DEF Next
<1>3. QED
  BY <1>1, <1>2, GateInvariant, PTL DEF Spec, KeepsPromise, Promise!Spec
===========================================================================
