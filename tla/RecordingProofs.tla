-------------------------- MODULE RecordingProofs --------------------------
(***************************************************************************)
(* Proofs about Recording, for any instances, sessions, sizes and limits.  *)
(***************************************************************************)
EXTENDS Recording, TLAPS, WellFoundedInduction, FiniteSetTheorems

---------------------------------------------------------------------------
(* Sums.  An induction is an argument about the least number that refutes  *)
(* the claim.                                                              *)

LEMMA HasLeast ==
    ASSUME NEW S, S \subseteq Nat, S # {}
    PROVE  \E k \in S : \A j \in S : k <= j
<1>1. PICK k \in S : \A j \in S : ~(<<j, k>> \in OpToRel(<, Nat))
  BY NatLessThanWellFounded, WFMin
<1>2. ASSUME NEW j \in S PROVE k <= j
  <2>1. j \in Nat /\ k \in Nat
    OBVIOUS
  <2>2. <<j, k>> \in Nat \X Nat /\ <<j, k>>[1] = j /\ <<j, k>>[2] = k
    BY <2>1
  <2>3. ~(j < k)
    BY <1>1, <2>2, Zenon DEF OpToRel
  <2> QED BY <2>1, <2>3
<1> QED BY <1>2

(* A set of numbers with 0 and with the successor of each of its members   *)
(* below top holds all of them up to top.                                  *)
LEMMA Climb ==
    ASSUME NEW top \in Nat, NEW S, 0 \in S,
           \A n \in 0..top : n > 0 /\ n - 1 \in S => n \in S
    PROVE  0..top \subseteq S
<1> DEFINE B == (0..top) \ S
<1>1. SUFFICES ASSUME B # {} PROVE FALSE
  OBVIOUS
<1>2. PICK k \in B : \A j \in B : k <= j
  <2>1. B \subseteq Nat
    OBVIOUS
  <2> HIDE DEF B
  <2> QED BY <1>1, <2>1, HasLeast
<1>3. k \in 0..top /\ k \notin S /\ k > 0
  BY <1>2
<1>4. k - 1 \in 0..top /\ k - 1 \notin B
  BY <1>2, <1>3
<1> QED BY <1>3, <1>4

Share(l, n) == IF n \in l THEN Size[n] ELSE 0

(* The running sum whose last value the weight is.                         *)
Sums(l, f) ==
    f = [n \in 0..MaxRecords |-> IF n = 0 THEN 0 ELSE f[n - 1] + Share(l, n)]

LEMMA ConstantFacts ==
    /\ MaxRecords \in Nat /\ MaxLog \in Nat
    /\ MaxEntries \in Nat /\ MaxFinished \in Nat /\ MaxActive \in Nat
    /\ \A n \in Rec : Size[n] \in Nat
BY RecordingAssumption

LEMMA ShareIsNat == ASSUME NEW l, NEW n \in Rec PROVE Share(l, n) \in Nat
BY ConstantFacts DEF Share

LEMMA SumExists == ASSUME NEW l PROVE \E f : Sums(l, f)
<1> DEFINE Good(m, f) ==
      f = [n \in 0..m |-> IF n = 0 THEN 0 ELSE f[n - 1] + Share(l, n)]
    S == {m \in Nat : \E f : Good(m, f)}
<1>1. 0 \in S
  <2>1. Good(0, [n \in 0..0 |-> 0])
    OBVIOUS
  <2> QED BY <2>1
<1>2. ASSUME NEW m \in 0..MaxRecords, m > 0, m - 1 \in S PROVE m \in S
  <2>1. PICK f : Good(m - 1, f)
    BY <1>2
  <2> DEFINE g == [n \in 0..m |-> IF n = m THEN f[m - 1] + Share(l, m) ELSE f[n]]
  <2>2. m \in Nat /\ m - 1 \in Nat
    BY <1>2, ConstantFacts
  <2>3. \A n \in 0..(m - 1) : f[n] = IF n = 0 THEN 0 ELSE f[n - 1] + Share(l, n)
    BY <2>1
  <2>4. \A n \in 0..m : g[n] = IF n = 0 THEN 0 ELSE g[n - 1] + Share(l, n)
    BY <1>2, <2>2, <2>3
  <2>5. Good(m, g)
    BY <2>4
  <2> QED BY <2>2, <2>5
<1>3. MaxRecords \in S
  <2> HIDE DEF S
  <2> QED BY <1>1, <1>2, Climb, ConstantFacts
<1> QED BY <1>3 DEF Sums

LEMMA WeightIsSum ==
    ASSUME NEW l PROVE \E f : Sums(l, f) /\ Weight(l) = f[MaxRecords]
<1> DEFINE f == CHOOSE f : Sums(l, f)
<1>1. Sums(l, f)
  BY SumExists
<1>2. Weight(l) = f[MaxRecords]
  BY DEF Weight, Sums, Share
<1> QED BY <1>1, <1>2

LEMMA SumSteps ==
    ASSUME NEW l, NEW f, Sums(l, f)
    PROVE  /\ f[0] = 0
           /\ \A n \in 0..MaxRecords : n > 0 => f[n] = f[n - 1] + Share(l, n)
BY ConstantFacts DEF Sums

LEMMA SumIsNat ==
    ASSUME NEW l, NEW f, Sums(l, f) PROVE \A n \in 0..MaxRecords : f[n] \in Nat
<1> DEFINE S == {n \in 0..MaxRecords : f[n] \in Nat}
<1>1. 0 \in S
  BY SumSteps, ConstantFacts
<1>2. ASSUME NEW n \in 0..MaxRecords, n > 0, n - 1 \in S PROVE n \in S
  <2>1. Share(l, n) \in Nat
    BY <1>2, ShareIsNat DEF Rec
  <2> QED BY <1>2, <2>1, SumSteps
<1>3. 0..MaxRecords \subseteq S
  <2> HIDE DEF S
  <2> QED BY <1>1, <1>2, Climb, ConstantFacts
<1> QED BY <1>3

LEMMA WeightIsNat == ASSUME NEW l PROVE Weight(l) \in Nat
BY WeightIsSum, SumIsNat, ConstantFacts

(* Two sets with no record in common weigh what they weigh together.       *)
LEMMA WeightAdds ==
    ASSUME NEW A, NEW B, A \cap B = {}
    PROVE  Weight(A \cup B) = Weight(A) + Weight(B)
<1>1. PICK a : Sums(A, a) /\ Weight(A) = a[MaxRecords]
  BY WeightIsSum
<1>2. PICK b : Sums(B, b) /\ Weight(B) = b[MaxRecords]
  BY WeightIsSum
<1>3. PICK c : Sums(A \cup B, c) /\ Weight(A \cup B) = c[MaxRecords]
  BY WeightIsSum
<1> DEFINE S == {n \in 0..MaxRecords : c[n] = a[n] + b[n]}
<1>4. 0 \in S
  BY <1>1, <1>2, <1>3, SumSteps, ConstantFacts
<1>5. ASSUME NEW n \in 0..MaxRecords, n > 0, n - 1 \in S PROVE n \in S
  <2>1. Share(A \cup B, n) = Share(A, n) + Share(B, n)
    BY <1>5, ConstantFacts DEF Share, Rec
  <2>2. /\ a[n] = a[n - 1] + Share(A, n)
        /\ b[n] = b[n - 1] + Share(B, n)
        /\ c[n] = c[n - 1] + Share(A \cup B, n)
    BY <1>1, <1>2, <1>3, <1>5, SumSteps
  <2>3. /\ n - 1 \in 0..MaxRecords
        /\ Share(A, n) \in Nat /\ Share(B, n) \in Nat
    BY <1>5, ShareIsNat, ConstantFacts DEF Rec
  <2>4. a[n - 1] \in Nat /\ b[n - 1] \in Nat
    BY <1>1, <1>2, <2>3, SumIsNat
  <2> QED BY <1>5, <2>1, <2>2, <2>3, <2>4
<1>6. MaxRecords \in S
  <2> HIDE DEF S
  <2> QED BY <1>4, <1>5, Climb, ConstantFacts
<1> QED BY <1>1, <1>2, <1>3, <1>6

LEMMA WeightOfNothing == Weight({}) = 0
<1>1. Weight({}) = Weight({}) + Weight({})
  BY WeightAdds
<1> QED BY <1>1, WeightIsNat

LEMMA WeightOfOne == ASSUME NEW rec \in Rec PROVE Weight({rec}) = Size[rec]
<1>1. PICK f : Sums({rec}, f) /\ Weight({rec}) = f[MaxRecords]
  BY WeightIsSum
<1> DEFINE S == {n \in 0..MaxRecords : f[n] = IF n < rec THEN 0 ELSE Size[rec]}
<1>2. 0 \in S
  BY <1>1, SumSteps, ConstantFacts DEF Rec
<1>3. ASSUME NEW n \in 0..MaxRecords, n > 0, n - 1 \in S PROVE n \in S
  <2>1. f[n] = f[n - 1] + Share({rec}, n)
    BY <1>1, <1>3, SumSteps
  <2> QED BY <1>3, <2>1, ConstantFacts DEF Share, Rec
<1>4. MaxRecords \in S
  <2> HIDE DEF S
  <2> QED BY <1>2, <1>3, Climb, ConstantFacts
<1> QED BY <1>1, <1>4, ConstantFacts DEF Rec

(* Taking a part away takes its weight away.                               *)
LEMMA WeightSplits ==
    ASSUME NEW l, NEW part, part \subseteq l
    PROVE  Weight(l) = Weight(part) + Weight(l \ part)
<1>1. part \cup (l \ part) = l /\ part \cap (l \ part) = {}
  OBVIOUS
<1> QED BY <1>1, WeightAdds

---------------------------------------------------------------------------
(* The log: what it holds are records, and each record was reserved by a   *)
(* request while it was in flight.                                         *)
Entry == [inst : Inst, id : Id, late : BOOLEAN]
Tunnel == [inst : Inst, id : Id]
Flight == [req : Request, inst : Inst, id : Id]

LogInv ==
    /\ idOf \in [Inst -> Id]
    /\ \A u, v \in Inst : idOf[u] = idOf[v] => u = v
    /\ tunnels \subseteq Tunnel
    /\ inflight \subseteq Flight /\ IsFiniteSet(inflight)
    /\ records \in Seq(Entry)
    /\ Len(records) + Cardinality(inflight) <= MaxRecords
    /\ log \subseteq DOMAIN records
    /\ paused \in BOOLEAN
    /\ BytesMatch

(* A record that is put in front is paid for, and so is what it pushes out. *)
LEMMA TrimmedBill ==
    ASSUME NEW rec \in Rec, rec \notin log, BytesMatch, Trimmed(rec)
    PROVE  log' \subseteq log \cup {rec} /\ BytesMatch'
<1> DEFINE l == log \cup {rec}
           kept == Newest(l, MaxLog)
<1>1. kept \subseteq l
  BY DEF Newest
<1>2. Weight(l) = Weight(log) + Size[rec]
  <2>1. log \cap {rec} = {}
    OBVIOUS
  <2>2. Weight(log \cup {rec}) = Weight(log) + Weight({rec})
    <3> HIDE DEF l, kept
    <3> QED BY <2>1, WeightAdds
  <2>3. Weight({rec}) = Size[rec]
    BY WeightOfOne
  <2> QED BY <2>2, <2>3
<1>3. Weight(l) = Weight(kept) + Weight(l \ kept)
  <2> HIDE DEF kept
  <2> QED BY <1>1, WeightSplits
<1>4. log' = kept /\ bytes' = bytes + Size[rec] - Weight(l \ kept)
  BY DEF Trimmed
<1>5. /\ Weight(kept) \in Nat /\ Weight(l \ kept) \in Nat
      /\ Weight(log) \in Nat /\ Size[rec] \in Nat
  BY WeightIsNat, ConstantFacts
<1>6. bytes' = Weight(kept)
  <2> HIDE DEF kept, l
  <2> QED BY <1>2, <1>3, <1>4, <1>5 DEF BytesMatch
<1> QED BY <1>1, <1>4, <1>6 DEF BytesMatch

LEMMA ClearedBill ==
    ASSUME NEW gone, BytesMatch, Cleared(gone)
    PROVE  log' \subseteq log /\ BytesMatch'
<1>1. Weight(log) = Weight(log \cap gone) + Weight(log \ (log \cap gone))
  BY WeightSplits
<1>2. log \ (log \cap gone) = log \ gone
  OBVIOUS
<1>3. /\ Weight(log \cap gone) \in Nat /\ Weight(log \ gone) \in Nat
  BY WeightIsNat
<1>4. /\ log' = log \ gone
      /\ bytes' = IF log \subseteq gone THEN 0 ELSE bytes - Weight(log \cap gone)
  BY DEF Cleared
<1>5. bytes = Weight(log)
  BY DEF BytesMatch
<1>6. bytes' = Weight(log \ gone)
  <2>1. CASE log \subseteq gone
    <3>1. log \ gone = {}
      BY <2>1
    <3> QED BY <1>4, <2>1, <3>1, WeightOfNothing
  <2>2. CASE ~(log \subseteq gone)
    <3> DEFINE out == Weight(log \cap gone)
               in == Weight(log \ gone)
    <3>1. Weight(log) = out + in
      BY <1>1, <1>2
    <3>2. bytes' = Weight(log) - out
      BY <1>4, <1>5, <2>2
    <3>3. out \in Nat /\ in \in Nat
      BY <1>3
    <3> HIDE DEF out, in
    <3>4. bytes' = in
      BY <3>1, <3>2, <3>3
    <3> QED BY <3>4 DEF in
  <2> QED BY <2>1, <2>2
<1>7. BytesMatch'
  BY <1>4, <1>6 DEF BytesMatch
<1> QED BY <1>4, <1>7

LEMMA BeginStep ==
    ASSUME LogInv, NEW r \in Request, NEW u \in Inst, NEW id \in Id, Begin(r, u, id)
    PROVE  LogInv'
<1> DEFINE f == [req |-> r, inst |-> u, id |-> id]
<1>1. f \in Flight /\ f \notin inflight
  BY DEF LogInv, Begin, Flight
<1>2. inflight' = inflight \cup {f} /\ UNCHANGED <<idOf, tunnels, logVars, paused>>
  BY DEF Begin
<1>3. Len(records) + Cardinality(inflight) < MaxRecords
  BY DEF Begin
<1> HIDE DEF f
<1>4. IsFiniteSet(inflight') /\ Cardinality(inflight') = Cardinality(inflight) + 1
  BY <1>1, <1>2, FS_AddElement DEF LogInv
<1>5. Cardinality(inflight) \in Nat /\ Len(records) \in Nat
  BY FS_CardinalityType DEF LogInv
<1> QED BY <1>1, <1>2, <1>3, <1>4, <1>5, ConstantFacts DEF LogInv, logVars, BytesMatch

(* A tunnel is opened, or closed, and nothing else changes.                *)
LEMMA TunnelStep ==
    ASSUME LogInv, (\E u \in Inst : Connect(u)) \/ (\E t \in tunnels : Disconnect(t))
    PROVE  LogInv' /\ UNCHANGED <<idOf, inflight, logVars, sessVars>>
<1>1. tunnels' \subseteq Tunnel /\ UNCHANGED <<idOf, inflight, logVars, paused, sessVars>>
  BY DEF LogInv, Connect, Disconnect, Tunnel
<1> QED BY <1>1 DEF LogInv, logVars, BytesMatch

LEMMA EndStep ==
    ASSUME LogInv, NEW f \in inflight, End(f)
    PROVE  LogInv'
<1>1. /\ IsFiniteSet(inflight') /\ Cardinality(inflight') = Cardinality(inflight) - 1
      /\ inflight' \subseteq inflight
  BY FS_RemoveElement DEF LogInv, End
<1>2. /\ Cardinality(inflight) \in Nat /\ Cardinality(inflight') \in Nat
      /\ Len(records) \in Nat /\ MaxRecords \in Nat
  BY <1>1, FS_CardinalityType, ConstantFacts DEF LogInv
<1>3. UNCHANGED <<idOf, tunnels, paused>> /\ f \in Flight
  BY DEF End, LogInv
<1>4. CASE paused
  BY <1>1, <1>2, <1>3, <1>4 DEF End, LogInv, logVars, BytesMatch
<1>5. CASE ~paused
  <2> DEFINE rec == Len(records) + 1
             x == [inst |-> f.inst, id |-> f.id, late |-> f.id # idOf[f.inst]]
  <2>1. records' = Append(records, x) /\ Trimmed(rec)
    BY <1>5 DEF End, AddEntry
  <2>2. rec \in Rec /\ rec \notin log
    BY <1>1, <1>2 DEF LogInv, Rec
  <2>3. x \in Entry
    BY <1>3 DEF Flight, Entry
  <2> HIDE DEF x
  <2>4. /\ records' \in Seq(Entry) /\ Len(records') = Len(records) + 1
        /\ DOMAIN records \subseteq DOMAIN records' /\ rec \in DOMAIN records'
    BY <2>1, <2>3 DEF LogInv
  <2> HIDE DEF rec
  <2>5. log' \subseteq log \cup {rec} /\ BytesMatch'
    BY <2>1, <2>2, TrimmedBill DEF LogInv
  <2>6. log' \subseteq DOMAIN records'
    BY <2>4, <2>5 DEF LogInv
  <2>7. Len(records') + Cardinality(inflight') <= MaxRecords
    BY <1>1, <1>2, <2>4 DEF LogInv
  <2> QED BY <1>1, <1>3, <2>4, <2>5, <2>6, <2>7 DEF LogInv
<1> QED BY <1>4, <1>5 DEF LogInv

LEMMA ClearStep ==
    ASSUME LogInv, NEW gone, Cleared(gone)
    PROVE  LogInv'
<1>1. UNCHANGED <<idOf, tunnels, inflight, records, paused>>
  BY DEF Cleared
<1> QED BY <1>1, ClearedBill DEF LogInv

(* What a rename makes of a record.                                        *)
LEMMA RespelledRecords ==
    ASSUME NEW held, NEW id \in Id, records \in Seq(Entry), Respelled(held, id)
    PROVE  /\ records' \in Seq(Entry) /\ Len(records') = Len(records)
           /\ DOMAIN records' = DOMAIN records
           /\ \A k \in DOMAIN records :
                 /\ records'[k].inst = records[k].inst
                 /\ records'[k].late = records[k].late
                 /\ records'[k].id = IF k \in held THEN id ELSE records[k].id
<1>1. \A k \in DOMAIN records : records[k] \in Entry
  OBVIOUS
<1>2. \A k \in DOMAIN records : [records[k] EXCEPT !.id = id] \in Entry
  BY <1>1 DEF Entry
<1>3. records' \in [1..Len(records) -> Entry]
  BY <1>1, <1>2 DEF Respelled
<1>4. records' \in Seq(Entry) /\ Len(records') = Len(records)
  BY <1>3
<1>5. ASSUME NEW k \in DOMAIN records
      PROVE  /\ records'[k].inst = records[k].inst
             /\ records'[k].late = records[k].late
             /\ records'[k].id = IF k \in held THEN id ELSE records[k].id
  BY <1>1 DEF Respelled, Entry
<1> QED BY <1>4, <1>5

LEMMA RenameStep ==
    ASSUME LogInv, NEW u \in Inst, NEW id \in Id, Rename(u, id)
    PROVE  LogInv'
<1>1. /\ records' \in Seq(Entry) /\ Len(records') = Len(records)
      /\ DOMAIN records' = DOMAIN records
  BY RespelledRecords DEF LogInv, Rename, Follow
<1>2. UNCHANGED <<tunnels, inflight, log, bytes, paused>> /\ idOf' = [idOf EXCEPT ![u] = id]
      /\ \A v \in Inst : idOf[v] # id
  BY DEF Rename
<1> QED BY <1>1, <1>2 DEF LogInv, BytesMatch

LEMMA LogInit == Init => LogInv
<1> SUFFICES ASSUME Init PROVE LogInv
  OBVIOUS
<1>1. tunnels = {} /\ inflight = {} /\ IsFiniteSet({}) /\ Cardinality({}) = 0
  BY FS_EmptySet DEF Init
<1>2. records = <<>> /\ log = {} /\ bytes = 0 /\ paused = FALSE
  BY DEF Init
<1>3. /\ idOf \in [Inst -> Id]
      /\ \A u, v \in Inst : idOf[u] = idOf[v] => u = v
  BY DEF Init
<1>4. BytesMatch
  BY <1>2, WeightOfNothing DEF BytesMatch
<1>5. records \in Seq(Entry) /\ Len(records) + Cardinality(inflight) <= MaxRecords
  BY <1>1, <1>2, ConstantFacts
<1> QED BY <1>1, <1>2, <1>3, <1>4, <1>5 DEF LogInv

(* The actions of the sessions leave the log alone.                        *)
LEMMA SessionActions ==
    ASSUME NEW s \in Session,
           Read \/ Start(s, {}) \/ (\E u \in Inst : Start(s, {u}))
           \/ Stop(s) \/ Delete(s) \/ Overdue(s)
    PROVE  UNCHANGED <<idOf, tunnels, inflight, logVars, paused>>
BY DEF Read, Start, Stop, Delete, Overdue

LEMMA LogStep == LogInv /\ [Next]_vars => LogInv'
<1> SUFFICES ASSUME LogInv, [Next]_vars PROVE LogInv'
  OBVIOUS
<1>0. ASSUME UNCHANGED <<idOf, tunnels, inflight, logVars, paused>> PROVE LogInv'
  BY <1>0 DEF LogInv, logVars, BytesMatch
<1>1. CASE \E r \in Request, u \in Inst, id \in Id : Begin(r, u, id)
  BY <1>1, BeginStep
<1>2. CASE \E f \in inflight : End(f)
  BY <1>2, EndStep
<1>3. CASE \E on \in BOOLEAN : Pause(on)
  BY <1>3 DEF Pause, LogInv, logVars, BytesMatch
<1>4. CASE ClearAll \/ (\E u \in Inst : ClearHost(u)) \/ \E id \in Id : ClearInstance(id)
  BY <1>4, ClearStep DEF ClearAll, ClearHost, ClearInstance
<1>5. CASE \E s \in Session :
          \/ Start(s, {}) \/ \E u \in Inst : Start(s, {u})
          \/ Stop(s) \/ Delete(s) \/ Overdue(s)
  BY <1>0, <1>5, SessionActions
<1>6. CASE Read
  BY <1>0, <1>6 DEF Read
<1>7. CASE \E u \in Inst, id \in Id : Rename(u, id)
  BY <1>7, RenameStep
<1>8. CASE UNCHANGED vars
  BY <1>0, <1>8 DEF vars, logVars
<1>9. CASE (\E u \in Inst : Connect(u)) \/ (\E t \in tunnels : Disconnect(t))
  BY <1>9, TunnelStep
<1> QED BY <1>1, <1>2, <1>3, <1>4, <1>5, <1>6, <1>7, <1>8, <1>9 DEF Next

(* Trimmed, cleared, paused or renamed: the running bill of the log is the *)
(* weight of the records it retains, whatever the sizes.                   *)
THEOREM RecordingBill == Spec => []BytesMatch
<1>1. Spec => []LogInv
  BY LogInit, LogStep, PTL DEF Spec
<1>2. LogInv => BytesMatch
  BY DEF LogInv
<1> QED BY <1>1, <1>2, PTL

---------------------------------------------------------------------------
(* The sessions.  A record whose id was not out of date when it was        *)
(* written carries the id its instance goes by.  A session is for          *)
(* everything or for one instance under its present id; what it owes is    *)
(* kept or counted, and still goes by that id.                             *)
Held == [status : {"active", "stopped", "expired", "gone"}, filter : SUBSET Id,
         entries : Seq(Nat), dropped : Nat]
Debt == [by : SUBSET Inst, records : SUBSET Nat]

ScopedTo(held, debt, ids) ==
    \/ held.filter = {} /\ debt.by = {}
    \/ \E u \in Inst : held.filter = {ids[u]} /\ debt.by = {u}

Settled(held, debt, recs, ids) ==
    /\ held \in Held /\ debt \in Debt
    /\ ScopedTo(held, debt, ids)
    /\ debt.records \subseteq DOMAIN recs /\ IsFiniteSet(debt.records)
    /\ Len(held.entries) + held.dropped = Cardinality(debt.records)
    /\ \A k \in 1..Len(held.entries) : held.entries[k] \in debt.records
    /\ held.filter # {} => \A rec \in debt.records : recs[rec].id \in held.filter

CurrentInv ==
    \A rec \in DOMAIN records : records[rec].late \/ records[rec].id = idOf[records[rec].inst]

SessionInv ==
    /\ session = [s \in Session |-> session[s]]
    /\ owed = [s \in Session |-> owed[s]]
    /\ overdue \subseteq Session /\ order \subseteq Known \X Known
    /\ \A s \in Session : Settled(session[s], owed[s], records, idOf)

RecordingInv == LogInv /\ CurrentInv /\ SessionInv

LEMMA NothingIsSettled ==
    ASSUME NEW recs, NEW ids PROVE Settled(NoSession, NoDebt, recs, ids)
<1>1. IsFiniteSet({}) /\ Cardinality({}) = 0
  BY FS_EmptySet
<1>2. Len(<<>>) = 0 /\ <<>> \in Seq(Nat)
  OBVIOUS
<1> QED BY <1>1, <1>2 DEF Settled, ScopedTo, NoSession, NoDebt, Held, Debt

(* Ending a session settles nothing and unsettles nothing.                 *)
LEMMA EndedIsSettled ==
    ASSUME NEW held, NEW debt, NEW recs, NEW ids, NEW status \in {"stopped", "expired"},
           Settled(held, debt, recs, ids), held.status # "gone"
    PROVE  Settled([held EXCEPT !.status = status], debt, recs, ids)
<1> DEFINE ended == [held EXCEPT !.status = status]
<1>1. /\ ended \in Held /\ ended.filter = held.filter /\ ended.entries = held.entries
      /\ ended.dropped = held.dropped
  BY DEF Settled, Held
<1> HIDE DEF ended
<1>2. ScopedTo(ended, debt, ids)
  BY <1>1 DEF Settled, ScopedTo
<1>3. Settled(ended, debt, recs, ids)
  BY <1>1, <1>2 DEF Settled
<1> QED BY <1>3 DEF ended

LEMMA LongerIsSettled ==
    ASSUME NEW held, NEW debt, NEW recs \in Seq(Entry), NEW x \in Entry, NEW ids,
           Settled(held, debt, recs, ids)
    PROVE  Settled(held, debt, Append(recs, x), ids)
<1>1. /\ DOMAIN recs \subseteq DOMAIN Append(recs, x)
      /\ \A k \in DOMAIN recs : Append(recs, x)[k] = recs[k]
  OBVIOUS
<1> DEFINE more == Append(recs, x)
<1> HIDE DEF more
<1>2. DOMAIN recs \subseteq DOMAIN more /\ \A k \in DOMAIN recs : more[k] = recs[k]
  BY <1>1 DEF more
<1>3. Settled(held, debt, more, ids)
  BY <1>2 DEF Settled
<1> QED BY <1>3 DEF more

(* A session is given a record under an id it filters for: kept below the  *)
(* cap, counted beyond it.                                                 *)
LEMMA GivenIsSettled ==
    ASSUME NEW held, NEW debt, NEW recs \in Seq(Entry), NEW x \in Entry, NEW ids,
           Settled(held, debt, recs, ids), held.filter # {} => x.id \in held.filter
    PROVE  Settled(Given(held, Len(recs) + 1),
                   [debt EXCEPT !.records = @ \cup {Len(recs) + 1}], Append(recs, x), ids)
<1> DEFINE rec == Len(recs) + 1
           more == Append(recs, x)
           given == Given(held, rec)
           owing == [debt EXCEPT !.records = @ \cup {rec}]
<1>1. /\ Len(recs) \in Nat /\ DOMAIN recs = 1..Len(recs)
      /\ rec \in Nat /\ rec \notin DOMAIN recs
      /\ DOMAIN more = DOMAIN recs \cup {rec} /\ more[rec] = x
      /\ \A k \in DOMAIN recs : more[k] = recs[k]
  OBVIOUS
<1>2. owing \in Debt /\ owing.by = debt.by /\ owing.records = debt.records \cup {rec}
  BY <1>1 DEF Settled, Debt
<1>3. rec \notin debt.records
  BY <1>1 DEF Settled
<1>4. /\ IsFiniteSet(owing.records)
      /\ Cardinality(owing.records) = Cardinality(debt.records) + 1
  <2> DEFINE S == debt.records
  <2>1. IsFiniteSet(S) /\ rec \notin S
    BY <1>3 DEF Settled
  <2> HIDE DEF S, rec, owing
  <2>2. IsFiniteSet(S \cup {rec}) /\ Cardinality(S \cup {rec}) = Cardinality(S) + 1
    BY <2>1, FS_AddElement
  <2> QED BY <1>2, <2>2 DEF S
<1>5. /\ held.entries \in Seq(Nat) /\ held.dropped \in Nat /\ held \in Held
      /\ Len(held.entries) \in Nat
      /\ Len(held.entries) + held.dropped = Cardinality(debt.records)
      /\ \A k \in 1..Len(held.entries) : held.entries[k] \in debt.records
  BY DEF Settled, Held
<1>6. /\ given \in Held /\ given.filter = held.filter /\ given.status = held.status
      /\ Len(given.entries) + given.dropped = Cardinality(debt.records) + 1
      /\ \A k \in 1..Len(given.entries) : given.entries[k] \in debt.records \cup {rec}
  <2>1. CASE Len(held.entries) < MaxEntries
    <3> DEFINE longer == Append(held.entries, rec)
    <3>1. given = [held EXCEPT !.entries = longer]
      BY <2>1 DEF Given
    <3>2. /\ longer \in Seq(Nat) /\ Len(longer) = Len(held.entries) + 1
          /\ \A k \in 1..Len(longer) : longer[k] \in debt.records \cup {rec}
      BY <1>1, <1>5
    <3> HIDE DEF longer, given, rec
    <3>3. /\ given \in Held /\ given.filter = held.filter /\ given.status = held.status
          /\ given.entries = longer /\ given.dropped = held.dropped
      BY <1>5, <3>1, <3>2 DEF Held
    <3>4. Len(given.entries) + given.dropped = Cardinality(debt.records) + 1
      <4>1. Len(longer) + held.dropped = (Len(held.entries) + held.dropped) + 1
        <5> DEFINE n == Len(held.entries)
                   m == held.dropped
        <5>1. n \in Nat /\ m \in Nat /\ Len(longer) = n + 1
          BY <1>5, <3>2
        <5> HIDE DEF n, m
        <5>2. Len(longer) + m = (n + m) + 1
          BY <5>1
        <5> QED BY <5>2 DEF n, m
      <4> QED BY <1>5, <3>3, <4>1
    <3> QED BY <3>2, <3>3, <3>4
  <2>2. CASE ~(Len(held.entries) < MaxEntries)
    <3>1. given = [held EXCEPT !.dropped = held.dropped + 1]
      BY <2>2 DEF Given
    <3> HIDE DEF given, rec
    <3>2. /\ given \in Held /\ given.filter = held.filter /\ given.status = held.status
          /\ given.entries = held.entries /\ given.dropped = held.dropped + 1
      BY SMTT(30), <1>5, <3>1 DEF Held
    <3>3. \A k \in 1..Len(given.entries) : given.entries[k] \in debt.records \cup {rec}
      <4> DEFINE list == held.entries
                 due == debt.records
      <4>1. given.entries = list /\ \A k \in 1..Len(list) : list[k] \in due
        BY <1>5, <3>2
      <4> HIDE DEF list, due
      <4>2. \A k \in 1..Len(given.entries) : given.entries[k] \in due \cup {rec}
        BY <4>1
      <4> QED BY <4>2 DEF due
    <3>4. Len(given.entries) + given.dropped = Cardinality(debt.records) + 1
      <4>1. Len(given.entries) = Len(held.entries)
        BY <3>2
      <4>2. (Len(held.entries) + held.dropped) + 1 = Len(held.entries) + (held.dropped + 1)
        BY <1>5
      <4> QED BY <1>5, <3>2, <4>1, <4>2
    <3> QED BY <3>2, <3>3, <3>4
  <2> QED BY <2>1, <2>2
<1> HIDE DEF rec, more, given, owing
<1>7. ScopedTo(given, owing, ids)
  BY <1>2, <1>6 DEF Settled, ScopedTo
<1>8. /\ owing.records \subseteq DOMAIN more
      /\ given.filter # {} => \A k \in owing.records : more[k].id \in given.filter
  BY <1>1, <1>2, <1>6 DEF Settled
<1>9. Settled(given, owing, more, ids)
  BY <1>2, <1>4, <1>6, <1>7, <1>8 DEF Settled
<1> QED BY <1>9 DEF given, owing, more, rec

---------------------------------------------------------------------------
(* Sweeping. *)

LEMMA SweptFacts ==
    ASSUME SessionInv, NEW s \in Session
    PROVE  /\ Settled(Swept[s], SweptOwed[s], records, idOf)
           /\ s \in Remaining => /\ s \in Known /\ SweptOwed[s] = owed[s]
                                 /\ Swept[s].status # "gone"
                                 /\ Swept[s].entries = session[s].entries
           /\ s \notin Remaining => Swept[s] = NoSession /\ SweptOwed[s] = NoDebt
           /\ session[s].status = "active" /\ s \notin overdue
                => s \in Remaining /\ Swept[s] = session[s]
<1>1. Settled(session[s], owed[s], records, idOf)
  BY DEF SessionInv
<1> DEFINE expired == [session[s] EXCEPT !.status = "expired"]
<1>2. session[s].status = "active" => Settled(expired, owed[s], records, idOf)
  BY <1>1, EndedIsSettled
<1>3. expired.status = "expired" /\ expired.entries = session[s].entries
  BY <1>1 DEF Settled, Held
<1> HIDE DEF expired
<1>4. Expire(session)[s] =
        IF session[s].status = "active" /\ s \in overdue THEN expired ELSE session[s]
  BY DEF Expire, expired
<1>5. /\ Settled(Expire(session)[s], owed[s], records, idOf)
      /\ session[s].status # "gone" => Expire(session)[s].status # "gone"
      /\ Expire(session)[s].entries = session[s].entries
  BY <1>1, <1>2, <1>3, <1>4
<1>6. /\ Swept[s] = IF s \in Remaining THEN Expire(session)[s] ELSE NoSession
      /\ SweptOwed[s] = IF s \in Remaining THEN owed[s] ELSE NoDebt
  BY DEF Swept, SweptOwed
<1>7. s \in Remaining => s \in Known /\ session[s].status # "gone"
  BY DEF Remaining, Survivors, Known
<1>8. session[s].status = "active" /\ s \notin overdue => s \in Remaining
  BY <1>4 DEF Remaining, Survivors, Survives, Known
<1>9. Settled(NoSession, NoDebt, records, idOf)
  BY NothingIsSettled
<1> QED BY <1>4, <1>5, <1>6, <1>7, <1>8, <1>9

LEMMA SweptShape ==
    /\ Remaining \subseteq Known /\ Known \subseteq Session
    /\ Swept = [s \in Session |-> Swept[s]]
    /\ SweptOwed = [s \in Session |-> SweptOwed[s]]
BY DEF Remaining, Survivors, Known, Swept, SweptOwed

(* A table of settled sessions may be stored, all or some of them.         *)
LEMMA StoreStep ==
    ASSUME SessionInv, NEW table, NEW keep, keep \subseteq Remaining,
           \A s \in keep : Settled(table[s], owed[s], records, idOf) /\ table[s].status # "gone",
           Store(table, keep), UNCHANGED <<records, idOf>>
    PROVE  SessionInv'
<1>1. \A s \in Session : Settled(session'[s], owed'[s], records, idOf)
  BY NothingIsSettled DEF Store
<1>2. keep \subseteq Known'
  BY SweptShape DEF Store, Known
<1>3. /\ session' = [s \in Session |-> session'[s]] /\ owed' = [s \in Session |-> owed'[s]]
      /\ overdue' \subseteq Session /\ order' \subseteq Known' \X Known'
  BY <1>2 DEF Store, SessionInv
<1> QED BY <1>1, <1>3 DEF SessionInv

LEMMA ReadStep == ASSUME SessionInv, Read PROVE SessionInv'
<1>1. \A s \in Remaining : Settled(Swept[s], owed[s], records, idOf) /\ Swept[s].status # "gone"
  BY SweptFacts, SweptShape
<1>2. Store(Swept, Remaining) /\ UNCHANGED <<records, idOf>>
  BY DEF Read, logVars
<1> QED BY <1>1, <1>2, StoreStep

LEMMA DeleteStep == ASSUME SessionInv, NEW q \in Session, Delete(q) PROVE SessionInv'
<1>1. \A s \in Remaining : Settled(Swept[s], owed[s], records, idOf) /\ Swept[s].status # "gone"
  BY SweptFacts, SweptShape
<1>2. Store(Swept, Remaining \ {q}) /\ UNCHANGED <<records, idOf>>
  BY DEF Delete, logVars
<1> DEFINE keep == Remaining \ {q}
<1>3. keep \subseteq Remaining /\ Store(Swept, keep)
  BY <1>2
<1> HIDE DEF keep
<1> QED BY <1>1, <1>2, <1>3, StoreStep

LEMMA StoppingFacts ==
    ASSUME SessionInv, NEW q \in Remaining, NEW s \in Remaining
    PROVE  /\ Settled(Stopping(q)[s], owed[s], records, idOf)
           /\ Stopping(q)[s].status # "gone"
           /\ s # q => Stopping(q)[s] = Swept[s]
           /\ Stopping(q)[s].entries = Swept[s].entries
<1>1. s \in Session /\ q \in Session
  BY SweptShape
<1>2. Settled(Swept[s], owed[s], records, idOf) /\ Swept[s].status # "gone"
  BY <1>1, SweptFacts
<1> DEFINE stopped == [Swept[s] EXCEPT !.status = "stopped"]
<1>3. Settled(stopped, owed[s], records, idOf)
  BY <1>2, EndedIsSettled
<1>4. /\ Swept[s] \in Held /\ stopped.status = "stopped"
      /\ stopped.entries = Swept[s].entries
  BY <1>2 DEF Settled, Held
<1>5. CASE s # q
  <2>1. Stopping(q)[s] = Swept[s]
    BY <1>1, <1>5, SweptShape DEF Stopping
  <2> QED BY <1>2, <1>5, <2>1
<1>6. CASE s = q
  <2>1. Stopping(q)[s] = [Swept[s] EXCEPT !.status =
                             IF Swept[s].status = "active" THEN "stopped" ELSE Swept[s].status]
    BY <1>1, <1>6, SweptShape DEF Stopping
  <2>2. Stopping(q)[s] = stopped \/ Stopping(q)[s] = Swept[s]
    BY <1>4, <2>1 DEF Held
  <2> HIDE DEF stopped
  <2> QED BY <1>2, <1>3, <1>4, <1>6, <2>2
<1> QED BY <1>5, <1>6

LEMMA StopStep == ASSUME SessionInv, NEW q \in Session, Stop(q) PROVE SessionInv'
<1> DEFINE table == Stopping(q)
           keep == Remaining \cap Survivors(table)
<1>1. q \in Remaining /\ Store(table, keep) /\ UNCHANGED <<records, idOf>>
  BY DEF Stop, logVars
<1>2. \A s \in keep : Settled(table[s], owed[s], records, idOf) /\ table[s].status # "gone"
  BY <1>1, StoppingFacts
<1>3. keep \subseteq Remaining
  OBVIOUS
<1> HIDE DEF keep, table
<1> QED BY <1>1, <1>2, <1>3, StoreStep

LEMMA OverdueStep == ASSUME SessionInv, NEW q \in Session, Overdue(q) PROVE SessionInv'
<1>1. /\ UNCHANGED <<records, idOf, order, session, owed>> /\ overdue' \subseteq Session
  BY DEF Overdue, logVars, SessionInv
<1>2. Known' = Known
  BY <1>1 DEF Known
<1> QED BY <1>1, <1>2 DEF SessionInv

LEMMA StartStep ==
    ASSUME LogInv, SessionInv, NEW q \in Session, NEW who, who = {} \/ (\E u \in Inst : who = {u}),
           Start(q, who)
    PROVE  SessionInv'
<1>1. UNCHANGED <<records, idOf>> /\ q \notin Known /\ overdue' = {}
  BY DEF Start, logVars
<1>2. \A s \in Session : Settled(Swept[s], SweptOwed[s], records, idOf)
  BY SweptFacts
<1>3. \A s \in Remaining : Swept[s].status # "gone"
  BY SweptFacts, SweptShape
<1>4. CASE HasRoom
  <2> DEFINE debt == [by |-> who, records |-> {}]
  <2>1. /\ session' = [Swept EXCEPT ![q] = Started(who)]
        /\ owed' = [SweptOwed EXCEPT ![q] = debt]
        /\ order' = SweptOrder \cup (Remaining \X {q})
    BY <1>4 DEF Start
  <2>2. Settled(Started(who), debt, records, idOf)
    <3>1. IsFiniteSet({}) /\ Cardinality({}) = 0 /\ Len(<<>>) = 0 /\ <<>> \in Seq(Nat)
      BY FS_EmptySet
    <3>2. /\ Started(who) \in Held /\ debt \in Debt
          /\ Started(who).entries = <<>> /\ Started(who).dropped = 0
          /\ Started(who).filter = {idOf[u] : u \in who}
      BY <3>1 DEF Started, Held, Debt, LogInv
    <3>3. ScopedTo(Started(who), debt, idOf)
      <4>1. CASE who = {}
        BY <3>2, <4>1 DEF ScopedTo
      <4>2. CASE \E u \in Inst : who = {u}
        BY <3>2, <4>2 DEF ScopedTo
      <4> QED BY <4>1, <4>2
    <3> QED BY <3>1, <3>2, <3>3 DEF Settled
  <2>3. Started(who).status = "active"
    BY DEF Started
  <2> HIDE DEF debt
  <2>4. /\ session'[q] = Started(who) /\ owed'[q] = debt
        /\ \A s \in Session : s # q => session'[s] = Swept[s] /\ owed'[s] = SweptOwed[s]
        /\ session' = [s \in Session |-> session'[s]]
        /\ owed' = [s \in Session |-> owed'[s]]
    BY <2>1, SweptShape
  <2>5. \A s \in Session : Settled(session'[s], owed'[s], records, idOf)
    BY <1>2, <2>2, <2>4
  <2>6. Remaining \cup {q} \subseteq Known'
    BY <1>3, <2>3, <2>4, SweptShape DEF Known
  <2>7. order' \subseteq Known' \X Known'
    BY <2>1, <2>6 DEF SweptOrder
  <2> QED BY <1>1, <2>4, <2>5, <2>7 DEF SessionInv
<1>5. CASE ~HasRoom
  <2>1. session' = Swept /\ owed' = SweptOwed /\ order' = SweptOrder
    BY <1>5 DEF Start
  <2>2. Remaining \subseteq Known'
    BY <1>3, <2>1, SweptShape DEF Known
  <2>3. order' \subseteq Known' \X Known'
    BY <2>1, <2>2 DEF SweptOrder
  <2> QED BY <1>1, <1>2, <2>1, <2>3, SweptShape DEF SessionInv
<1> QED BY <1>4, <1>5

---------------------------------------------------------------------------
(* A record, and a rename, reach the sessions. *)

(* A running session wants exactly the records it was opened for.          *)
LEMMA WantedAreOwed ==
    ASSUME SessionInv, NEW id \in Id, NEW s \in Session, Swept[s].status = "active"
    PROVE  Wants(s, id) <=> Owes(s, id)
<1>1. s \in Remaining
  BY SweptFacts DEF NoSession
<1>2. ScopedTo(Swept[s], owed[s], idOf)
  BY <1>1, SweptFacts DEF Settled
<1> QED BY <1>2 DEF Wants, Owes, ScopedTo

LEMMA AddEntryStep ==
    ASSUME LogInv, SessionInv, NEW u \in Inst, NEW id \in Id, AddEntry(u, id), UNCHANGED idOf
    PROVE  SessionInv'
<1> DEFINE rec == Len(records) + 1
           x == [inst |-> u, id |-> id, late |-> id # idOf[u]]
<1>1. x \in Entry /\ x.id = id /\ records \in Seq(Entry)
  BY DEF LogInv, Entry
<1>2. /\ records' = Append(records, x)
      /\ order' = SweptOrder /\ overdue' = {}
      /\ session' = [s \in Session |->
                       IF Wants(s, id) THEN Given(Swept[s], rec) ELSE Swept[s]]
      /\ owed' = [s \in Session |->
                    IF Swept[s].status = "active" /\ Owes(s, id)
                    THEN [owed[s] EXCEPT !.records = @ \cup {rec}] ELSE SweptOwed[s]]
  BY DEF AddEntry
<1> HIDE DEF x, rec
<1>3. ASSUME NEW s \in Session
      PROVE  /\ Settled(session'[s], owed'[s], records', idOf)
             /\ session'[s].status = Swept[s].status
  <2>1. Settled(Swept[s], SweptOwed[s], records, idOf)
    BY SweptFacts
  <2>2. CASE Wants(s, id)
    <3>1. /\ Swept[s].status = "active" /\ Owes(s, id)
          /\ Swept[s].filter # {} => id \in Swept[s].filter
      BY <2>2, WantedAreOwed DEF Wants
    <3>2. s \in Remaining /\ SweptOwed[s] = owed[s]
      BY <3>1, SweptFacts DEF NoSession
    <3>3. Settled(Given(Swept[s], rec), [owed[s] EXCEPT !.records = @ \cup {rec}], records', idOf)
      BY <1>1, <1>2, <2>1, <3>1, <3>2, GivenIsSettled DEF rec
    <3>4. Given(Swept[s], rec).status = Swept[s].status
      BY <2>1 DEF Given, Settled, Held
    <3> QED BY <1>2, <2>2, <3>1, <3>3, <3>4
  <2>3. CASE ~Wants(s, id)
    <3>1. ~(Swept[s].status = "active" /\ Owes(s, id))
      BY <2>3, WantedAreOwed
    <3>2. Settled(Swept[s], SweptOwed[s], records', idOf)
      BY <1>1, <1>2, <2>1, LongerIsSettled
    <3> QED BY <1>2, <2>3, <3>1, <3>2
  <2> QED BY <2>2, <2>3
<1>4. Remaining \subseteq Known'
  BY <1>3, SweptFacts, SweptShape DEF Known
<1>5. order' \subseteq Known' \X Known'
  BY <1>2, <1>4 DEF SweptOrder
<1>6. /\ session' = [s \in Session |-> session'[s]] /\ owed' = [s \in Session |-> owed'[s]]
      /\ overdue' \subseteq Session
  BY <1>2 DEF SessionInv
<1> QED BY <1>3, <1>5, <1>6 DEF SessionInv

LEMMA RecordStep ==
    ASSUME RecordingInv, NEW f \in inflight, End(f)
    PROVE  CurrentInv' /\ SessionInv'
<1>1. f.inst \in Inst /\ f.id \in Id /\ UNCHANGED idOf
  BY DEF RecordingInv, LogInv, Flight, End
<1>2. CASE paused
  <2>1. UNCHANGED <<logVars, sessVars, idOf>>
    BY <1>1, <1>2 DEF End
  <2>2. CurrentInv'
    BY <1>1, <2>1 DEF RecordingInv, CurrentInv, logVars
  <2>3. SessionInv'
    BY <2>1 DEF RecordingInv, SessionInv, logVars, sessVars, Known
  <2> QED BY <2>2, <2>3
<1>3. CASE ~paused
  <2>1. AddEntry(f.inst, f.id)
    BY <1>3 DEF End
  <2> DEFINE x == [inst |-> f.inst, id |-> f.id, late |-> f.id # idOf[f.inst]]
  <2>2. records' = Append(records, x) /\ (x.late \/ x.id = idOf[x.inst])
    BY <2>1 DEF AddEntry
  <2> HIDE DEF x
  <2>3. \A rec \in DOMAIN records' : records'[rec] = x \/ (rec \in DOMAIN records /\ records'[rec] = records[rec])
    BY <2>2 DEF RecordingInv, LogInv
  <2>4. CurrentInv'
    BY <1>1, <2>2, <2>3 DEF RecordingInv, CurrentInv
  <2> QED BY <1>1, <2>1, <2>4, AddEntryStep DEF RecordingInv
<1> QED BY <1>2, <1>3 DEF RecordingInv, LogInv

LEMMA RenameFollows ==
    ASSUME RecordingInv, NEW u \in Inst, NEW id \in Id, Rename(u, id)
    PROVE  CurrentInv' /\ SessionInv'
<1> DEFINE old == idOf[u]
           held == LoggedAs(old) \cup CapturedAs(old)
<1>1. /\ \A v \in Inst : idOf[v] # id
      /\ Respelled(held, id) /\ Refiltered(old, id)
      /\ idOf' = [idOf EXCEPT ![u] = id]
      /\ UNCHANGED <<inflight, log, order, overdue, owed>>
  BY DEF Rename, Follow
<1>2. /\ records \in Seq(Entry) /\ idOf \in [Inst -> Id]
      /\ \A v, w \in Inst : idOf[v] = idOf[w] => v = w
      /\ log \subseteq DOMAIN records
  BY DEF RecordingInv, LogInv
<1>3. /\ DOMAIN records' = DOMAIN records
      /\ \A k \in DOMAIN records :
            /\ records'[k].inst = records[k].inst
            /\ records'[k].late = records[k].late
            /\ records'[k].id = IF k \in held THEN id ELSE records[k].id
  <2> HIDE DEF held
  <2> QED BY <1>1, <1>2, RespelledRecords
<1>4. \A k \in DOMAIN records : k \in held <=> records[k].id = old
  BY <1>2 DEF LoggedAs, CapturedAs
<1>5. \A k \in DOMAIN records :
        /\ records[k].inst \in Inst
        /\ records[k].late \/ records[k].id = idOf[records[k].inst]
  <2>1. \A k \in DOMAIN records : records[k] \in Entry
    BY <1>2
  <2> QED BY <2>1 DEF RecordingInv, CurrentInv, Entry
<1>6. idOf'[u] = id /\ \A v \in Inst : v # u => idOf'[v] = idOf[v]
  BY <1>1, <1>2
<1> HIDE DEF held
<1>9. CurrentInv'
  <2>1. \A k \in DOMAIN records' :
           records'[k].late \/ records'[k].id = idOf'[records'[k].inst]
    <3> SUFFICES ASSUME NEW k \in DOMAIN records, ~records[k].late
                 PROVE  records'[k].id = idOf'[records[k].inst]
      BY <1>3
    <3>1. records[k].inst \in Inst /\ records[k].id = idOf[records[k].inst]
      BY <1>5
    <3>2. CASE records[k].inst = u
      BY <1>3, <1>4, <1>6, <3>1, <3>2
    <3>3. CASE records[k].inst # u
      <4>1. k \notin held
        BY <1>2, <1>4, <3>1, <3>3
      <4> QED BY <1>3, <1>6, <3>1, <3>3, <4>1
    <3> QED BY <3>2, <3>3
  <2> QED BY <2>1 DEF CurrentInv
<1>10. ASSUME NEW s \in Session
       PROVE  /\ Settled(session'[s], owed'[s], records', idOf')
              /\ session'[s].status = session[s].status
  <2>1. Settled(session[s], owed[s], records, idOf)
    BY DEF RecordingInv, SessionInv
  <2> DEFINE moved == [session[s] EXCEPT !.filter = {id}]
  <2>2. /\ moved \in Held /\ moved.filter = {id} /\ moved.status = session[s].status
        /\ moved.entries = session[s].entries /\ moved.dropped = session[s].dropped
    BY <2>1 DEF Settled, Held
  <2>3. session'[s] = IF old \in session[s].filter THEN moved ELSE session[s]
    BY <1>1 DEF Refiltered
  <2> HIDE DEF moved
  <2>4. ScopedTo(session'[s], owed[s], idOf')
    <3>1. SUFFICES ASSUME ScopedTo(session[s], owed[s], idOf)
                   PROVE  ScopedTo(session'[s], owed[s], idOf')
      BY <2>1 DEF Settled
    <3>2. CASE session[s].filter = {} /\ owed[s].by = {}
      BY <2>3, <3>2 DEF ScopedTo
    <3>3. CASE \E w \in Inst : session[s].filter = {idOf[w]} /\ owed[s].by = {w}
      <4>1. PICK w \in Inst : session[s].filter = {idOf[w]} /\ owed[s].by = {w}
        BY <3>3
      <4>2. session'[s].filter = {idOf'[w]}
        BY <1>2, <1>6, <2>2, <2>3, <4>1
      <4> QED BY <4>1, <4>2 DEF ScopedTo
    <3> QED BY <3>1, <3>2, <3>3 DEF ScopedTo
  <2>5. /\ session'[s] \in Held /\ session'[s].status = session[s].status
        /\ session'[s].entries = session[s].entries /\ session'[s].dropped = session[s].dropped
    BY <2>1, <2>2, <2>3 DEF Settled
  <2>6. owed'[s] = owed[s]
    BY <1>1
  <2>7. session'[s].filter # {} =>
           \A k \in owed[s].records : records'[k].id \in session'[s].filter
    <3>1. /\ session[s].filter # {} => \A k \in owed[s].records : records[k].id \in session[s].filter
          /\ owed[s].records \subseteq DOMAIN records
      BY <2>1 DEF Settled
    <3>2. CASE old \in session[s].filter
      <4>1. session[s].filter = {old} /\ session'[s].filter = {id}
        BY <2>1, <2>2, <2>3, <3>2 DEF Settled, ScopedTo
      <4>2. \A k \in owed[s].records : k \in DOMAIN records /\ records[k].id = old
        BY <3>1, <4>1
      <4> QED BY <1>3, <1>4, <4>1, <4>2
    <3>3. CASE old \notin session[s].filter
      <4>1. session'[s].filter = session[s].filter
        BY <2>3, <3>3
      <4>2. ASSUME session[s].filter # {}, NEW k \in owed[s].records
            PROVE  records'[k].id \in session'[s].filter
        <5>1. records[k].id \in session[s].filter /\ k \in DOMAIN records
          BY <3>1, <4>2
        <5>2. k \notin held
          BY <1>4, <3>3, <5>1
        <5> QED BY <1>3, <4>1, <5>1, <5>2
      <4> QED BY <4>1, <4>2
    <3> QED BY <3>2, <3>3
  <2> QED BY <1>3, <2>1, <2>4, <2>5, <2>6, <2>7 DEF Settled
<1>11. Known' = Known
  BY <1>10 DEF Known
<1>12. SessionInv'
  <2>1. session' = [s \in Session |-> session'[s]]
    BY <1>1 DEF Refiltered
  <2> QED BY <1>1, <1>10, <1>11, <2>1 DEF RecordingInv, SessionInv
<1> QED BY <1>9, <1>12

---------------------------------------------------------------------------
(* All steps together. *)

LEMMA RecordingInit == Init => RecordingInv
<1> SUFFICES ASSUME Init PROVE RecordingInv
  OBVIOUS
<1>1. LogInv
  BY LogInit
<1>2. CurrentInv
  BY DEF Init, CurrentInv
<1>3. /\ session = [s \in Session |-> NoSession] /\ owed = [s \in Session |-> NoDebt]
      /\ overdue = {} /\ order = {}
  BY DEF Init
<1>4. SessionInv
  BY <1>3, NothingIsSettled DEF SessionInv
<1> QED BY <1>1, <1>2, <1>4 DEF RecordingInv

LEMMA RecordingStep == RecordingInv /\ [Next]_vars => RecordingInv'
<1> SUFFICES ASSUME RecordingInv, [Next]_vars PROVE RecordingInv'
  OBVIOUS
<1>1. LogInv'
  BY LogStep DEF RecordingInv
<1>2. ASSUME UNCHANGED <<idOf, records, sessVars>> PROVE CurrentInv' /\ SessionInv'
  BY <1>2 DEF RecordingInv, CurrentInv, SessionInv, sessVars, Known
<1>3. ASSUME UNCHANGED <<idOf, logVars>> PROVE CurrentInv'
  BY <1>3 DEF RecordingInv, CurrentInv, logVars
<1>4. CurrentInv' /\ SessionInv'
  <2>1. CASE \/ \E r \in Request, u \in Inst, id \in Id : Begin(r, u, id)
             \/ \E u \in Inst : Connect(u)
             \/ \E t \in tunnels : Disconnect(t)
    BY <1>2, <2>1 DEF Begin, Connect, Disconnect, logVars
  <2>2. CASE \E f \in inflight : End(f)
    BY <2>2, RecordStep
  <2>3. CASE \E on \in BOOLEAN : Pause(on)
    BY <1>2, <2>3 DEF Pause, logVars
  <2>4. CASE ClearAll \/ (\E u \in Inst : ClearHost(u)) \/ \E id \in Id : ClearInstance(id)
    BY <1>2, <2>4 DEF ClearAll, ClearHost, ClearInstance, Cleared
  <2>5. CASE \E s \in Session :
            \/ Start(s, {}) \/ \E u \in Inst : Start(s, {u})
            \/ Stop(s) \/ Delete(s) \/ Overdue(s)
    <3>1. CurrentInv'
      BY <1>3, <2>5, SessionActions
    <3>2. SessionInv'
      BY <2>5, StartStep, StopStep, DeleteStep, OverdueStep DEF RecordingInv
    <3> QED BY <3>1, <3>2
  <2>6. CASE Read
    BY <1>3, <2>6, ReadStep DEF RecordingInv, Read
  <2>7. CASE \E u \in Inst, id \in Id : Rename(u, id)
    BY <2>7, RenameFollows
  <2>8. CASE UNCHANGED vars
    BY <1>2, <2>8 DEF vars, sessVars
  <2> QED BY <2>1, <2>2, <2>3, <2>4, <2>5, <2>6, <2>7, <2>8 DEF Next
<1> QED BY <1>1, <1>4 DEF RecordingInv

LEMMA InvGivesType == RecordingInv => TypeOK
<1> SUFFICES ASSUME RecordingInv PROVE TypeOK
  OBVIOUS
<1>1. bytes \in Nat
  BY WeightIsNat DEF RecordingInv, LogInv, BytesMatch
<1>2. Len(records) \in Nat /\ Cardinality(inflight) \in Nat
  BY FS_CardinalityType DEF RecordingInv, LogInv
<1>3. Len(records) <= MaxRecords /\ DOMAIN records = 1..Len(records)
  BY <1>2, ConstantFacts DEF RecordingInv, LogInv
<1>4. ASSUME NEW s \in Session
      PROVE  /\ session[s] \in [status : {"active", "stopped", "expired", "gone"},
                                 filter : SUBSET Id, entries : Seq(1..Len(records)),
                                 dropped : Nat]
             /\ owed[s] \in [by : SUBSET Inst, records : SUBSET Rec]
  <2>1. Settled(session[s], owed[s], records, idOf)
    BY DEF RecordingInv, SessionInv
  <2>2. owed[s].records \subseteq 1..Len(records) /\ 1..Len(records) \subseteq Rec
    BY <1>2, <1>3, <2>1, ConstantFacts DEF Settled, Rec
  <2>3. session[s].entries \in Seq(1..Len(records))
    <3>1. /\ session[s].entries \in Seq(Nat)
          /\ \A k \in 1..Len(session[s].entries) : session[s].entries[k] \in 1..Len(records)
      BY <2>1, <2>2 DEF Settled, Held
    <3> DEFINE list == session[s].entries
               all == 1..Len(records)
    <3>2. list \in Seq(Nat) /\ \A k \in 1..Len(list) : list[k] \in all
      BY <3>1
    <3> HIDE DEF list, all
    <3>3. list \in Seq(all)
      BY <3>2
    <3> QED BY <3>3 DEF list, all
  <2> QED BY <2>1, <2>2, <2>3 DEF Settled, Held, Debt
<1>5. /\ session = [s \in Session |-> session[s]] /\ owed = [s \in Session |-> owed[s]]
      /\ overdue \subseteq Session /\ order \subseteq Known \X Known
  BY DEF RecordingInv, SessionInv
<1>6. /\ session \in [Session -> [status : {"active", "stopped", "expired", "gone"},
                                  filter : SUBSET Id, entries : Seq(1..Len(records)),
                                  dropped : Nat]]
      /\ owed \in [Session -> [by : SUBSET Inst, records : SUBSET Rec]]
  BY <1>4, <1>5
<1> QED BY <1>1, <1>3, <1>5, <1>6 DEF TypeOK, RecordingInv, LogInv, Entry, Flight, Tunnel

LEMMA InvGivesComplete == RecordingInv => CaptureComplete
BY DEF RecordingInv, SessionInv, Settled, CaptureComplete, Known

LEMMA InvGivesFollows == RecordingInv => LogFollowsRename
BY DEF RecordingInv, LogInv, CurrentInv, LogFollowsRename

LEMMA InvGivesMatch == RecordingInv => EntriesMatchFilter
<1> SUFFICES ASSUME RecordingInv, NEW s \in Known, session[s].filter # {},
                    NEW k \in 1..Len(session[s].entries)
             PROVE  records[session[s].entries[k]].id \in session[s].filter
  BY DEF EntriesMatchFilter
<1> DEFINE rec == session[s].entries[k]
<1>1. s \in Session /\ session[s].status # "gone"
  BY DEF Known
<1>2. Settled(session[s], owed[s], records, idOf)
  BY <1>1 DEF RecordingInv, SessionInv
<1>3. rec \in owed[s].records
  BY <1>2 DEF Settled
<1> QED BY <1>2, <1>3 DEF Settled

---------------------------------------------------------------------------
(* What one step may do to one session: it leaves its entries as they are  *)
(* or appends one, and it loses a running session that is not overdue only *)
(* when that session is stopped or deleted.                                *)
Undisturbed(s) ==
    /\ s \in Known' =>
          \/ session'[s].entries = session[s].entries
          \/ \E rec \in Nat : session'[s].entries = Append(session[s].entries, rec)
    /\ session[s].status = "active" /\ s \notin overdue => s \in Known'

LEMMA StoredUndisturbed ==
    ASSUME NEW s \in Session, NEW table, NEW keep, Store(table, keep),
           s \in keep => table[s].entries = session[s].entries /\ table[s].status # "gone",
           session[s].status = "active" /\ s \notin overdue => s \in keep
    PROVE  Undisturbed(s)
<1>1. session'[s] = IF s \in keep THEN table[s] ELSE NoSession
  BY DEF Store
<1>2. s \in Known' <=> session'[s].status # "gone"
  BY DEF Known
<1>3. NoSession.status = "gone"
  BY DEF NoSession
<1> QED BY <1>1, <1>2, <1>3 DEF Undisturbed

LEMMA SameUndisturbed ==
    ASSUME NEW s \in Session, session'[s].entries = session[s].entries,
           session'[s].status = session[s].status
    PROVE  Undisturbed(s)
BY DEF Undisturbed, Known

LEMMA SweptUndisturbed ==
    ASSUME SessionInv, NEW s \in Session,
           \/ session'[s].entries = Swept[s].entries
           \/ \E rec \in Nat : session'[s].entries = Append(Swept[s].entries, rec),
           session'[s].status = Swept[s].status
    PROVE  Undisturbed(s)
<1>1. s \in Known' <=> s \in Remaining
  <2>1. s \in Known' <=> Swept[s].status # "gone"
    BY DEF Known
  <2> QED BY <2>1, SweptFacts DEF NoSession
<1>2. s \in Remaining => Swept[s].entries = session[s].entries
  BY SweptFacts
<1>3. session[s].status = "active" /\ s \notin overdue => s \in Remaining
  BY SweptFacts
<1> QED BY <1>1, <1>2, <1>3 DEF Undisturbed

LEMMA EndUndisturbed ==
    ASSUME RecordingInv, NEW f \in inflight, End(f), NEW s \in Session
    PROVE  Undisturbed(s)
<1>1. CASE paused
  BY <1>1, SameUndisturbed DEF End, sessVars
<1>2. CASE ~paused
  <2> DEFINE rec == Len(records) + 1
  <2>1. session'[s] = IF Wants(s, f.id) THEN Given(Swept[s], rec) ELSE Swept[s]
    BY <1>2 DEF End, AddEntry
  <2>2. rec \in Nat
    BY DEF RecordingInv, LogInv
  <2> HIDE DEF rec
  <2>3. Swept[s] \in Held
    BY SweptFacts DEF RecordingInv, Settled
  <2>4. /\ Given(Swept[s], rec).status = Swept[s].status
        /\ \/ Given(Swept[s], rec).entries = Swept[s].entries
           \/ Given(Swept[s], rec).entries = Append(Swept[s].entries, rec)
    BY <2>3 DEF Given, Held
  <2> QED BY <2>1, <2>2, <2>4, SweptUndisturbed DEF RecordingInv
<1> QED BY <1>1, <1>2 DEF RecordingInv, LogInv

LEMMA StartUndisturbed ==
    ASSUME RecordingInv, NEW q \in Session, NEW who, Start(q, who), NEW s \in Known
    PROVE  Undisturbed(s)
<1>1. s \in Session /\ s # q
  BY DEF Known, Start
<1>2. session'[s] = Swept[s]
  BY <1>1, SweptShape DEF Start
<1> QED BY <1>1, <1>2, SweptUndisturbed DEF RecordingInv

LEMMA DropUndisturbed ==
    ASSUME RecordingInv, NEW s \in Session,
           Read \/ \E q \in Session : q # s /\ (Delete(q) \/ Stop(q))
    PROVE  Undisturbed(s)
<1>1. /\ s \in Remaining => Swept[s].entries = session[s].entries /\ Swept[s].status # "gone"
      /\ session[s].status = "active" /\ s \notin overdue
            => s \in Remaining /\ Swept[s] = session[s]
  BY SweptFacts DEF RecordingInv
<1>2. CASE Read
  BY <1>1, <1>2, StoredUndisturbed DEF Read
<1>3. ASSUME NEW q \in Session, q # s, Delete(q) PROVE Undisturbed(s)
  <2>1. Store(Swept, Remaining \ {q})
    BY <1>3 DEF Delete
  <2> DEFINE keep == Remaining \ {q}
  <2>2. /\ s \in keep => s \in Remaining
        /\ session[s].status = "active" /\ s \notin overdue => s \in keep
    BY <1>1, <1>3
  <2>3. Store(Swept, keep)
    BY <2>1
  <2> HIDE DEF keep
  <2> QED BY <1>1, <2>2, <2>3, StoredUndisturbed
<1>4. ASSUME NEW q \in Session, q # s, Stop(q) PROVE Undisturbed(s)
  <2> DEFINE table == Stopping(q)
             keep == Remaining \cap Survivors(table)
  <2>1. q \in Remaining /\ Store(table, keep)
    BY <1>4 DEF Stop
  <2>2. s \in Remaining => /\ table[s].status # "gone" /\ table[s] = Swept[s]
                           /\ table[s].entries = Swept[s].entries
    BY <1>4, <2>1, StoppingFacts DEF RecordingInv
  <2>3. s \in Remaining /\ table[s].status = "active" => s \in keep
    BY SweptShape DEF Survivors, Survives
  <2>4. s \in keep => s \in Remaining
    OBVIOUS
  <2> HIDE DEF table, keep
  <2> QED BY <1>1, <2>1, <2>2, <2>3, <2>4, StoredUndisturbed
<1> QED BY <1>2, <1>3, <1>4

LEMMA RenameUndisturbed ==
    ASSUME RecordingInv, NEW u \in Inst, NEW id \in Id, Rename(u, id), NEW s \in Session
    PROVE  Undisturbed(s)
<1>1. session[s] \in Held
  BY DEF RecordingInv, SessionInv, Settled
<1>2. session'[s] = session[s] \/ session'[s] = [session[s] EXCEPT !.filter = {id}]
  BY DEF Rename, Follow, Refiltered
<1>3. session'[s].entries = session[s].entries /\ session'[s].status = session[s].status
  BY <1>1, <1>2 DEF Held
<1> QED BY <1>3, SameUndisturbed

LEMMA StepUndisturbed ==
    ASSUME RecordingInv, [Next]_vars, NEW s \in Known
    PROVE  Undisturbed(s) \/ Delete(s) \/ Stop(s)
<1>0. s \in Session
  BY DEF Known
<1>1. ASSUME UNCHANGED session PROVE Undisturbed(s)
  BY <1>0, <1>1, SameUndisturbed
<1>2. CASE \E f \in inflight : End(f)
  BY <1>0, <1>2, EndUndisturbed
<1>3. CASE \E q \in Session : Start(q, {}) \/ \E u \in Inst : Start(q, {u})
  BY <1>3, StartUndisturbed
<1>4. CASE Read \/ \E q \in Session : Delete(q) \/ Stop(q)
  BY <1>0, <1>4, DropUndisturbed
<1>5. CASE \E u \in Inst, id \in Id : Rename(u, id)
  BY <1>0, <1>5, RenameUndisturbed
<1>6. CASE \/ \E r \in Request, u \in Inst, id \in Id : Begin(r, u, id)
           \/ (\E u \in Inst : Connect(u)) \/ (\E t \in tunnels : Disconnect(t))
           \/ \E on \in BOOLEAN : Pause(on)
           \/ ClearAll \/ (\E u \in Inst : ClearHost(u)) \/ \E id \in Id : ClearInstance(id)
           \/ \E q \in Session : Overdue(q)
           \/ UNCHANGED vars
  BY <1>1, <1>6 DEF Begin, Connect, Disconnect, Pause, ClearAll, ClearHost, ClearInstance, Cleared, Overdue,
                    vars, sessVars
<1> QED BY <1>2, <1>3, <1>4, <1>5, <1>6 DEF Next

(* The session that is stopped or deleted keeps its entries if it stays.   *)
LEMMA OwnDropKeeps ==
    ASSUME RecordingInv, NEW s \in Session, Delete(s) \/ Stop(s), s \in Known'
    PROVE  session'[s].entries = session[s].entries
<1>1. session'[s].status # "gone"
  BY DEF Known
<1>2. CASE Delete(s)
  <2>1. session'[s] = NoSession
    BY <1>2 DEF Delete, Store
  <2> QED BY <1>1, <2>1 DEF NoSession
<1>3. CASE Stop(s)
  <2>1. s \in Remaining /\ (session'[s] = Stopping(s)[s] \/ session'[s] = NoSession)
    BY <1>3 DEF Stop, Store
  <2>2. session'[s] = Stopping(s)[s]
    BY <1>1, <2>1 DEF NoSession
  <2>3. Stopping(s)[s].entries = Swept[s].entries /\ Swept[s].entries = session[s].entries
    BY <2>1, StoppingFacts, SweptFacts DEF RecordingInv
  <2> QED BY <2>2, <2>3
<1> QED BY <1>2, <1>3

---------------------------------------------------------------------------
(* The limits.  _sessions is ordered by insertion; of the finished ones a  *)
(* sweep keeps those with fewer than MaxFinished finished ones after them, *)
(* and these are no more than MaxFinished.                                 *)
Ordered(K) ==
    /\ \A s \in K : <<s, s>> \notin order
    /\ \A s, q \in K : s # q => <<s, q>> \in order \/ <<q, s>> \in order
    /\ \A s, q, r \in K : <<s, q>> \in order /\ <<q, r>> \in order => <<s, r>> \in order

OrderInv == IsFiniteSet(Known) /\ Ordered(Known)

LimitsInv == OrderInv /\ SessionCaps

LEMMA FinishedSurvivors ==
    ASSUME OrderInv, NEW table,
           NEW kept \in SUBSET {s \in Survivors(table) : table[s].status # "active"}
    PROVE  Cardinality(kept) <= MaxFinished
<1> DEFINE After(s) == FinishedAfter(table, s)
<1>1. /\ kept \subseteq Known
      /\ \A s \in kept : Cardinality(After(s)) < MaxFinished /\ table[s].status # "active"
  BY DEF Survivors, Survives
<1>2. \A s \in Known : After(s) \subseteq Known /\ IsFiniteSet(After(s))
  BY FS_Subset DEF OrderInv, FinishedAfter
<1>3. \A s \in kept : Cardinality(After(s)) \in Nat /\ IsFiniteSet(After(s))
  BY <1>1, <1>2, FS_CardinalityType
<1>4. IsFiniteSet(kept) /\ Cardinality(kept) \in Nat /\ MaxFinished \in Nat
  BY <1>1, FS_Subset, FS_CardinalityType, ConstantFacts DEF OrderInv
<1>5. CASE kept = {}
  BY <1>4, <1>5, FS_EmptySet
<1>6. CASE kept # {}
  <2> DEFINE room == {MaxFinished - Cardinality(After(s)) : s \in kept}
  <2>1. room \subseteq Nat /\ room # {}
    BY <1>1, <1>3, <1>4, <1>6
  <2>2. \E k \in room : \A j \in room : k <= j
    <3> HIDE DEF room
    <3> QED BY <2>1, HasLeast
  <2>3. PICK s \in kept : \A q \in kept :
          MaxFinished - Cardinality(After(s)) <= MaxFinished - Cardinality(After(q))
    BY <2>2
  <2>4. ASSUME NEW q \in kept, q # s PROVE q \in After(s)
    <3>1. SUFFICES ASSUME <<q, s>> \in order PROVE FALSE
      BY <1>1, <2>4 DEF FinishedAfter, OrderInv, Ordered
    <3>2. After(s) \cup {s} \subseteq After(q) /\ s \notin After(s)
      BY <1>1, <3>1 DEF FinishedAfter, OrderInv, Ordered
    <3> DEFINE A == After(s)
               B == After(q)
    <3>3. IsFiniteSet(A) /\ IsFiniteSet(B) /\ A \cup {s} \subseteq B /\ s \notin A
      BY <1>3, <3>2
    <3>5. Cardinality(B) <= Cardinality(A)
      <4>1. MaxFinished - Cardinality(A) <= MaxFinished - Cardinality(B)
        BY <2>3
      <4>2. Cardinality(A) \in Nat /\ Cardinality(B) \in Nat
        BY <1>3
      <4> QED BY <1>4, <4>1, <4>2
    <3> HIDE DEF A, B
    <3>6. Cardinality(A \cup {s}) = Cardinality(A) + 1 /\ IsFiniteSet(A \cup {s})
      BY <3>3, FS_AddElement
    <3>7. Cardinality(A \cup {s}) <= Cardinality(B)
      BY <3>3, FS_Subset
    <3>8. Cardinality(A) \in Nat /\ Cardinality(B) \in Nat
      BY <3>3, FS_CardinalityType
    <3> QED BY <3>5, <3>6, <3>7, <3>8
  <2> DEFINE rest == kept \ {s}
             after == After(s)
  <2>5. rest \subseteq after /\ IsFiniteSet(after) /\ Cardinality(after) < MaxFinished
        /\ Cardinality(after) \in Nat
    BY <1>1, <1>3, <2>4
  <2>6. Cardinality(rest) = Cardinality(kept) - 1
    BY <1>4, FS_RemoveElement
  <2> HIDE DEF rest, after
  <2>7. Cardinality(rest) <= Cardinality(after) /\ Cardinality(rest) \in Nat
    BY <2>5, FS_Subset, FS_CardinalityType
  <2> QED BY <1>4, <2>5, <2>6, <2>7
<1> QED BY <1>5, <1>6

(* Part of what a sweep leaves is within the limits.                       *)
LEMMA LeftWithinLimits ==
    ASSUME LimitsInv, NEW table, Known' \subseteq Known,
           order' = order \cap (Known' \X Known'),
           ActiveIn(session') \subseteq ActiveIn(session),
           Known' \ ActiveIn(session') \subseteq {s \in Survivors(table) : table[s].status # "active"}
    PROVE  LimitsInv'
<1> DEFINE K == Known'
           done == Known' \ ActiveIn(session')
           running == ActiveIn(session')
<1>1. IsFiniteSet(Known')
  <2>1. K \subseteq Known /\ IsFiniteSet(Known)
    BY DEF LimitsInv, OrderInv
  <2> HIDE DEF K
  <2>2. IsFiniteSet(K)
    BY <2>1, FS_Subset
  <2> QED BY <2>2 DEF K
<1>2. Ordered(Known)' 
  BY DEF LimitsInv, OrderInv, Ordered
<1>3. Cardinality(done) <= MaxFinished
  <2>1. done \in SUBSET {s \in Survivors(table) : table[s].status # "active"} /\ OrderInv
    BY DEF LimitsInv
  <2> HIDE DEF done
  <2> QED BY <2>1, FinishedSurvivors
<1>4. Cardinality(running) <= MaxActive
  <2>1. ActiveIn(session) \subseteq Known
    BY DEF ActiveIn, Known
  <2>2. IsFiniteSet(ActiveIn(session)) /\ running \subseteq ActiveIn(session)
    BY <2>1, FS_Subset DEF LimitsInv, OrderInv
  <2> HIDE DEF running
  <2>3. Cardinality(running) <= Cardinality(ActiveIn(session)) /\ IsFiniteSet(running)
    BY <2>2, FS_Subset
  <2>4. Cardinality(ActiveIn(session)) <= MaxActive
    BY DEF LimitsInv, SessionCaps
  <2>5. Cardinality(ActiveIn(session)) \in Nat /\ Cardinality(running) \in Nat
    BY <2>2, <2>3, FS_CardinalityType
  <2> QED BY <2>3, <2>4, <2>5, ConstantFacts
<1>5. SessionCaps'
  BY <1>3, <1>4 DEF SessionCaps
<1> QED BY <1>1, <1>2, <1>5 DEF LimitsInv, OrderInv

(* The sessions a sweep leaves, and what they are.                         *)
LEMMA SweptLimits ==
    ASSUME SessionInv, NEW s \in Session
    PROVE  /\ s \in Remaining <=> Swept[s].status # "gone"
           /\ Swept[s].status = "active" => session[s].status = "active"
           /\ s \in Remaining /\ Swept[s].status # "active"
                => s \in Survivors(Expire(session)) /\ Expire(session)[s].status # "active"
<1>1. session[s] \in Held
  BY DEF SessionInv, Settled
<1>2. s \in Remaining <=> Swept[s].status # "gone"
  BY SweptFacts DEF NoSession
<1>3. Swept[s] = IF s \in Remaining THEN Expire(session)[s] ELSE NoSession
  BY DEF Swept
<1>4. Expire(session)[s].status = "active" => session[s].status = "active"
  BY <1>1 DEF Expire, Held
<1> QED BY <1>2, <1>3, <1>4 DEF NoSession, Remaining

LEMMA StoreLimits ==
    ASSUME LimitsInv, SessionInv, NEW table, NEW keep, NEW limit, keep \subseteq Remaining,
           \A s \in keep : table[s].status # "gone"
                          /\ (table[s].status = "active" => Swept[s].status = "active"),
           \A s \in keep : table[s].status # "active"
                          => s \in Survivors(limit) /\ limit[s].status # "active",
           Store(table, keep)
    PROVE  LimitsInv'
<1>1. \A s \in Session : session'[s] = IF s \in keep THEN table[s] ELSE NoSession
  BY DEF Store
<1>2. keep \subseteq Known /\ keep \subseteq Session
  BY SweptShape
<1>3. Known' = keep
  BY <1>1, <1>2 DEF Known, NoSession
<1>4. ActiveIn(session') \subseteq ActiveIn(session)
  <2>1. \A s \in Session : session'[s].status = "active" => s \in keep
    BY <1>1 DEF NoSession
  <2>2. \A s \in keep : table[s].status = "active" => session[s].status = "active"
    BY <1>2, SweptLimits
  <2> QED BY <1>1, <2>1, <2>2 DEF ActiveIn
<1>5. Known' \ ActiveIn(session') \subseteq {s \in Survivors(limit) : limit[s].status # "active"}
  BY <1>1, <1>2, <1>3 DEF ActiveIn
<1>6. order' = order \cap (Known' \X Known')
  BY <1>3 DEF Store
<1> QED BY <1>2, <1>3, <1>4, <1>5, <1>6, LeftWithinLimits

(* A step whose sessions are those a sweep leaves, some with more entries. *)
LEMMA SweepLimits ==
    ASSUME LimitsInv, SessionInv, \A s \in Session : session'[s].status = Swept[s].status,
           order' = SweptOrder
    PROVE  LimitsInv'
<1>1. Known' = Remaining /\ Remaining \subseteq Known
  BY SweptLimits, SweptShape DEF Known
<1>2. ActiveIn(session') \subseteq ActiveIn(session)
  BY SweptLimits DEF ActiveIn
<1>3. Known' \ ActiveIn(session') \subseteq
         {s \in Survivors(Expire(session)) : Expire(session)[s].status # "active"}
  BY <1>1, SweptLimits, SweptShape DEF ActiveIn
<1>4. order' = order \cap (Known' \X Known')
  BY <1>1 DEF SweptOrder
<1> DEFINE table == Expire(session)
<1> HIDE DEF table
<1> QED BY <1>1, <1>2, <1>3, <1>4, LeftWithinLimits

LEMMA StartLimits ==
    ASSUME LimitsInv, SessionInv, NEW q \in Session, NEW who, Start(q, who)
    PROVE  LimitsInv'
<1>1. CASE ~HasRoom
  BY <1>1, SweepLimits DEF Start
<1>2. CASE HasRoom
  <2>1. /\ q \notin Known /\ q \notin Remaining
        /\ session'[q].status = "active"
        /\ \A s \in Session : s # q => session'[s] = Swept[s]
        /\ order' = (order \cap (Remaining \X Remaining)) \cup (Remaining \X {q})
    BY <1>2, SweptShape DEF Start, Started, SweptOrder
  <2>2. Known' = Remaining \cup {q} /\ Remaining \subseteq Known
    BY <2>1, SweptLimits, SweptShape DEF Known
  <2>3. IsFiniteSet(Remaining)
    BY <2>2, FS_Subset DEF LimitsInv, OrderInv
  <2>4. IsFiniteSet(Known')
    BY <2>2, <2>3, FS_AddElement
  <2>5. Ordered(Known)'
    <3>1. /\ Ordered(Known) /\ q \notin Known
          /\ order \subseteq Known \X Known
      BY <2>1 DEF LimitsInv, OrderInv, SessionInv
    <3>2. \A s, r \in Remaining \cup {q} :
             <<s, r>> \in order' <=> s \in Remaining /\ (r = q \/ <<s, r>> \in order)
      BY <2>1, <2>2, <3>1
    <3> QED BY <2>1, <2>2, <3>1, <3>2 DEF Ordered
  <2> DEFINE running == ActiveIn(Swept)
  <2>6. ActiveIn(session') = running \cup {q} /\ q \notin running
    BY <2>1, SweptLimits DEF ActiveIn
  <2>7. running \subseteq Remaining
    BY SweptLimits DEF ActiveIn
  <2>8. Cardinality(running) < MaxActive
    BY <1>2 DEF HasRoom
  <2> HIDE DEF running
  <2>9. IsFiniteSet(running) /\ Cardinality(running) \in Nat
    BY <2>3, <2>7, FS_Subset, FS_CardinalityType
  <2>10. Cardinality(running \cup {q}) = Cardinality(running) + 1
    BY <2>6, <2>9, FS_AddElement
  <2>11. Cardinality(ActiveIn(session')) <= MaxActive
    BY <2>6, <2>8, <2>9, <2>10, ConstantFacts
  <2> DEFINE table == Expire(session)
             done == Known' \ ActiveIn(session')
  <2>12. done \in SUBSET {s \in Survivors(table) : table[s].status # "active"}
    BY <2>1, <2>2, SweptLimits, SweptShape DEF ActiveIn
  <2>13. Cardinality(done) <= MaxFinished
    <3> HIDE DEF table, done
    <3> QED BY <2>12, FinishedSurvivors DEF LimitsInv
  <2> QED BY <2>4, <2>5, <2>11, <2>13 DEF LimitsInv, OrderInv, SessionCaps
<1> QED BY <1>1, <1>2

LEMMA StopLimits ==
    ASSUME LimitsInv, SessionInv, NEW q \in Session, Stop(q) PROVE LimitsInv'
<1> DEFINE table == Stopping(q)
           keep == Remaining \cap Survivors(table)
<1>1. q \in Remaining /\ Store(table, keep)
  BY DEF Stop
<1>2. \A s \in Remaining : table[s].status # "gone"
  BY <1>1, StoppingFacts
<1>3. \A s \in Remaining : table[s].status = "active" => Swept[s].status = "active"
  <2> SUFFICES ASSUME NEW s \in Remaining, table[s].status = "active"
               PROVE  Swept[s].status = "active"
    OBVIOUS
  <2>1. s \in Session
    BY SweptShape
  <2>2. CASE s # q
    BY <1>1, <2>2, StoppingFacts
  <2>3. CASE s = q
    <3>1. Swept[q] \in Held
      BY SweptFacts DEF Settled
    <3>2. table[q] = [Swept[q] EXCEPT !.status =
                        IF Swept[q].status = "active" THEN "stopped" ELSE Swept[q].status]
      BY SweptShape DEF Stopping
    <3> HIDE DEF table
    <3> QED BY <2>3, <3>1, <3>2 DEF Held
  <2> QED BY <2>2, <2>3
<1>4. \A s \in keep : s \in Survivors(table)
  OBVIOUS
<1>5. keep \subseteq Remaining
  OBVIOUS
<1> HIDE DEF table, keep
<1> QED BY <1>1, <1>2, <1>3, <1>4, <1>5, StoreLimits

LEMMA ReadLimits ==
    ASSUME LimitsInv, SessionInv, NEW keep, keep \subseteq Remaining, Store(Swept, keep)
    PROVE  LimitsInv'
<1> DEFINE table == Expire(session)
<1>1. \A s \in keep : /\ Swept[s].status # "gone"
                      /\ Swept[s].status # "active"
                           => s \in Survivors(table) /\ table[s].status # "active"
  BY SweptLimits, SweptShape
<1> HIDE DEF table
<1> QED BY <1>1, StoreLimits

LEMMA EndLimits ==
    ASSUME LimitsInv, RecordingInv, NEW f \in inflight, End(f) PROVE LimitsInv'
<1>1. CASE paused
  BY <1>1 DEF End, sessVars, LimitsInv, OrderInv, Ordered, SessionCaps, Known, ActiveIn
<1>2. CASE ~paused
  <2>1. order' = SweptOrder
    BY <1>2 DEF End, AddEntry
  <2>2. \A s \in Session : session'[s] = IF Wants(s, f.id) THEN Given(Swept[s], Len(records) + 1)
                                                         ELSE Swept[s]
    BY <1>2 DEF End, AddEntry
  <2>3. \A s \in Session : Swept[s] \in Held
    BY SweptFacts DEF RecordingInv, Settled
  <2>4. \A s \in Session : session'[s].status = Swept[s].status
    BY <2>2, <2>3 DEF Given, Held
  <2> QED BY <2>1, <2>4, SweepLimits DEF RecordingInv
<1> QED BY <1>1, <1>2 DEF RecordingInv, LogInv

LEMMA SameLimits ==
    ASSUME LimitsInv, UNCHANGED order, \A s \in Session : session'[s].status = session[s].status
    PROVE  LimitsInv'
<1>1. Known' = Known /\ ActiveIn(session') = ActiveIn(session)
  BY DEF Known, ActiveIn
<1> QED BY <1>1 DEF LimitsInv, OrderInv, Ordered, SessionCaps

LEMMA LimitsStep == LimitsInv /\ RecordingInv /\ [Next]_vars => LimitsInv'
<1> SUFFICES ASSUME LimitsInv, RecordingInv, [Next]_vars PROVE LimitsInv'
  OBVIOUS
<1>1. ASSUME UNCHANGED <<session, order>> PROVE LimitsInv'
  BY <1>1, SameLimits
<1>2. CASE \E f \in inflight : End(f)
  BY <1>2, EndLimits
<1>3. CASE \E q \in Session : Start(q, {}) \/ \E u \in Inst : Start(q, {u})
  BY <1>3, StartLimits DEF RecordingInv
<1>4. CASE Read
  BY <1>4, ReadLimits DEF Read, RecordingInv
<1>5. CASE \E q \in Session : Delete(q)
  <2>1. PICK q \in Session : Store(Swept, Remaining \ {q})
    BY <1>5 DEF Delete
  <2> DEFINE keep == Remaining \ {q}
  <2>2. keep \subseteq Remaining /\ Store(Swept, keep)
    BY <2>1
  <2> HIDE DEF keep
  <2> QED BY <2>2, ReadLimits DEF RecordingInv
<1>6. CASE \E q \in Session : Stop(q)
  BY <1>6, StopLimits DEF RecordingInv
<1>7. CASE \E u \in Inst, id \in Id : Rename(u, id)
  <2>1. \A s \in Session : session[s] \in Held
    BY DEF RecordingInv, SessionInv, Settled
  <2>2. \A s \in Session : session'[s].status = session[s].status
    BY <1>7, <2>1 DEF Rename, Follow, Refiltered, Held
  <2> QED BY <1>7, <2>2, SameLimits DEF Rename
<1>8. CASE \/ \E r \in Request, u \in Inst, id \in Id : Begin(r, u, id)
           \/ (\E u \in Inst : Connect(u)) \/ (\E t \in tunnels : Disconnect(t))
           \/ \E on \in BOOLEAN : Pause(on)
           \/ ClearAll \/ (\E u \in Inst : ClearHost(u)) \/ \E id \in Id : ClearInstance(id)
           \/ \E q \in Session : Overdue(q)
           \/ UNCHANGED vars
  BY <1>1, <1>8 DEF Begin, Connect, Disconnect, Pause, ClearAll, ClearHost, ClearInstance, Cleared, Overdue,
                    vars, sessVars
<1> QED BY <1>2, <1>3, <1>4, <1>5, <1>6, <1>7, <1>8 DEF Next

LEMMA LimitsInit == Init => LimitsInv
<1> SUFFICES ASSUME Init PROVE LimitsInv
  OBVIOUS
<1>1. Known = {} /\ ActiveIn(session) = {} /\ Known \ ActiveIn(session) = {}
  BY DEF Init, Known, ActiveIn, NoSession
<1>2. IsFiniteSet({}) /\ Cardinality({}) = 0
  BY FS_EmptySet
<1>3. SessionCaps
  BY <1>1, <1>2, ConstantFacts DEF SessionCaps
<1> QED BY <1>1, <1>2, <1>3 DEF LimitsInv, OrderInv, Ordered

---------------------------------------------------------------------------
(* The theorems. *)

(* The log, its bill, the sessions and their order stay what they are.     *)
THEOREM RecordingType == Spec => []TypeOK
<1>1. Spec => []RecordingInv
  BY RecordingInit, RecordingStep, PTL DEF Spec
<1> QED BY <1>1, InvGivesType, PTL

(* However the log is trimmed, cleared or renamed, and however sessions    *)
(* are swept, every record made under the id that a session's instance had *)
(* at the time is among its entries or counted as dropped, and no other.   *)
THEOREM RecordingComplete == Spec => []CaptureComplete
<1>1. Spec => []RecordingInv
  BY RecordingInit, RecordingStep, PTL DEF Spec
<1> QED BY <1>1, InvGivesComplete, PTL

(* The entries of a session for one instance answer to its filter, after   *)
(* any renames.                                                            *)
THEOREM RecordingMatches == Spec => []EntriesMatchFilter
<1>1. Spec => []RecordingInv
  BY RecordingInit, RecordingStep, PTL DEF Spec
<1> QED BY <1>1, InvGivesMatch, PTL

(* A record in the log carries the id its instance goes by now, unless it  *)
(* was written under one that was out of date already, by a tunnel or a    *)
(* request older than the rename.                                          *)
THEOREM RecordingFollows == Spec => []LogFollowsRename
<1>1. Spec => []RecordingInv
  BY RecordingInit, RecordingStep, PTL DEF Spec
<1> QED BY <1>1, InvGivesFollows, PTL

(* No sweep, start or stop of another session takes a running session      *)
(* away before its time is up.                                             *)
THEOREM RecordingKeepsRunning == Spec => RunningIsKept
<1>1. Spec => []RecordingInv
  BY RecordingInit, RecordingStep, PTL DEF Spec
<1>2. RecordingInv /\ [Next]_vars =>
        [\A s \in Session :
            session[s].status = "active" /\ s \notin overdue /\ s \notin Known'
               => Delete(s) \/ Stop(s)]_vars
  <2> SUFFICES ASSUME RecordingInv, [Next]_vars, NEW s \in Session,
                      session[s].status = "active", s \notin overdue, s \notin Known'
               PROVE  Delete(s) \/ Stop(s)
    OBVIOUS
  <2>1. s \in Known
    BY DEF Known
  <2> QED BY <2>1, StepUndisturbed DEF Undisturbed
<1> QED BY <1>1, <1>2, PTL DEF Spec, RunningIsKept

(* Neither running nor finished sessions pile up beyond their limits.      *)
THEOREM RecordingLimits == Spec => []SessionCaps
<1>1. Spec => []RecordingInv
  BY RecordingInit, RecordingStep, PTL DEF Spec
<1>2. RecordingInv /\ LimitsInv /\ [Next]_vars => LimitsInv'
  BY LimitsStep
<1>3. LimitsInv => SessionCaps
  BY DEF LimitsInv
<1> QED BY <1>1, <1>2, <1>3, LimitsInit, PTL DEF Spec

(* What a session has captured stays with it: a sweep, a stop, a cleared,  *)
(* trimmed or paused log and a rename take no entry out of it.             *)
THEOREM RecordingGrows == Spec => EntriesOnlyGrow
<1>1. Spec => []RecordingInv
  BY RecordingInit, RecordingStep, PTL DEF Spec
<1>2. RecordingInv /\ [Next]_vars =>
        [\A s \in Known \cap Known' :
            /\ Len(session'[s].entries) >= Len(session[s].entries)
            /\ \A k \in 1..Len(session[s].entries) :
                  session'[s].entries[k] = session[s].entries[k]]_vars
  <2> SUFFICES ASSUME RecordingInv, [Next]_vars, NEW s \in Known \cap Known'
               PROVE  /\ Len(session'[s].entries) >= Len(session[s].entries)
                      /\ \A k \in 1..Len(session[s].entries) :
                            session'[s].entries[k] = session[s].entries[k]
    OBVIOUS
  <2>1. s \in Session
    BY DEF Known
  <2>2. session[s].entries \in Seq(Nat)
    BY <2>1 DEF RecordingInv, SessionInv, Settled, Held
  <2>3. \/ session'[s].entries = session[s].entries
        \/ \E rec \in Nat : session'[s].entries = Append(session[s].entries, rec)
    BY <2>1, StepUndisturbed, OwnDropKeeps DEF Undisturbed
  <2> QED BY <2>2, <2>3
<1> QED BY <1>1, <1>2, PTL DEF Spec, EntriesOnlyGrow
=============================================================================
