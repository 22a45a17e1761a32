--------------------------- MODULE PipelineProofs ---------------------------
(***************************************************************************)
(* Proofs about Pipeline, for any hosts, ids, connections, mocks and       *)
(* registry order.                                                         *)
(***************************************************************************)
EXTENDS Pipeline, TLAPS, WellFoundedInduction

(* A connection that has a pipeline was opened to the host the pipeline    *)
(* was built for; only such a connection is ever waiting for something.    *)
Connection == [kind : {"free", "raw", "tunnel", "plain"}, host : Host \cup {None},
               app : App \cup {NoApp}, phase : {"idle"} \cup Busy,
               path : Path \cup {None}, mock : Mock \cup {None}, owner : Host \cup {None}]

WellBuilt(s) ==
    /\ s \in Connection
    /\ s.kind \in {"tunnel", "plain"} => s.app \in App /\ s.app.host = s.host
    /\ s.phase # "idle" => s.kind \in {"tunnel", "plain"}

SlotsInv == DOMAIN slots = Slot /\ slots = [t \in Slot |-> slots[t]]
            /\ \A t \in Slot : WellBuilt(slots[t])

SettingsInv ==
    /\ Live \subseteq Id /\ inst \in [Live -> Instance]
    /\ ssl \subseteq Host
    /\ blocks \in [Host -> SUBSET Path]
    /\ DOMAIN apps \subseteq Id /\ apps \in [DOMAIN apps -> Host]

PipelineInv == SettingsInv /\ SlotsInv /\ CacheIsCurrent

LEMMA NoneIsNobody ==
    None \notin Host /\ None \notin Id /\ None \notin Path /\ None \notin Mock
BY PipelineAssumption

LEMMA InvGivesType == PipelineInv => TypeOK
BY DEF PipelineInv, SettingsInv, SlotsInv, WellBuilt, TypeOK, Connection

---------------------------------------------------------------------------
(* Operators. *)

(* A nonempty set of positions has a first one. *)
LEMMA HasFirst ==
    ASSUME NEW S, S \subseteq Nat, S # {}
    PROVE  \E k \in S : \A j \in S : k <= j
<1>1. PICK k \in S : \A j \in S : ~(<<j, k>> \in OpToRel(<, Nat))
  BY NatLessThanWellFounded, WFMin
<1>2. ASSUME NEW j \in S PROVE k <= j
  <2>1. j \in Nat /\ k \in Nat
    OBVIOUS
  <2>2. <<j, k>> \in Nat \X Nat /\ <<j, k>>[1] = j /\ <<j, k>>[2] = k
    BY <2>1
  <2>3. ~(j < k)
    BY <1>1, <2>2, Zenon DEF OpToRel
  <2> QED BY <2>1, <2>3
<1> QED BY <1>2

(* The mock that answers is one of the registry. *)
LEMMA FirstIsAMock ==
    ASSUME NEW app, NEW p PROVE First(app, p) \in Mock \cup {None}
<1>1. CASE Active(app, p) = {}
  BY <1>1 DEF First
<1>2. CASE Active(app, p) # {}
  <2>1. Active(app, p) \subseteq 1..Len(Registry)
    BY DEF Active
  <2>2. Len(Registry) \in Nat /\ \A k \in 1..Len(Registry) : Registry[k] \in Mock
    BY PipelineAssumption
  <2>3. Active(app, p) \subseteq Nat
    BY <2>1, <2>2
  <2>4. \E k \in Active(app, p) : \A j \in Active(app, p) : k <= j
    BY <1>2, <2>3, HasFirst
  <2>5. (CHOOSE k \in Active(app, p) : \A j \in Active(app, p) : k <= j) \in Active(app, p)
    BY <2>4
  <2>6. First(app, p) = Registry[CHOOSE k \in Active(app, p) : \A j \in Active(app, p) : k <= j]
    BY <1>2 DEF First
  <2> QED BY <2>1, <2>2, <2>5, <2>6
<1> QED BY <1>1, <1>2

LEMMA OwnerOf ==
    ASSUME NEW h, Decrypted(h)
    PROVE  Owner(h) \in Live /\ inst[Owner(h)].host = h
BY DEF Owner, Decrypted

(* The app found or built for a host is one of that host.                  *)
LEMMA AppIsHome ==
    ASSUME PipelineInv, NEW h \in Host, Decrypted(h)
    PROVE  AppOf(Owner(h)) \in App /\ AppOf(Owner(h)).host = h
<1>1. Owner(h) \in Live /\ inst[Owner(h)].host = h
  BY OwnerOf
<1>2. Owner(h) \in Id
  BY <1>1 DEF PipelineInv, SettingsInv
<1>3. Owner(h) \in DOMAIN apps => apps[Owner(h)] = h
  BY <1>1 DEF PipelineInv, CacheIsCurrent
<1> QED BY <1>1, <1>2, <1>3 DEF AppOf, App

LEMMA FreeIsWellBuilt == WellBuilt(Free)
BY DEF WellBuilt, Free, Connection, NoApp, Busy

LEMMA RestedIsWellBuilt ==
    ASSUME NEW s, WellBuilt(s) PROVE WellBuilt(Rested(s)) /\ Rested(s).phase = "idle"
<1>1. CASE s.kind = "tunnel"
  BY <1>1 DEF WellBuilt, Rested, Connection, Busy
<1>2. CASE s.kind # "tunnel"
  BY <1>2, FreeIsWellBuilt DEF Rested, Free
<1> QED BY <1>1, <1>2

(* Replacing one connection by a well-built one keeps the connections.     *)
LEMMA SlotChanged ==
    ASSUME SlotsInv, NEW t \in Slot, NEW n, WellBuilt(n), slots' = [slots EXCEPT ![t] = n]
    PROVE  SlotsInv'
BY DEF SlotsInv, WellBuilt

(* What the turn of the middleware chain does to the connection.           *)
LEMMA DispatchEffect ==
    ASSUME SettingsInv, SlotsInv, NEW t \in Slot, NEW s, WellBuilt(s),
           s.kind \in {"tunnel", "plain"}, NEW p \in Path, Dispatch(t, s, p)
    PROVE  \E n : /\ WellBuilt(n)
                  /\ slots' = [slots EXCEPT ![t] = n]
                  /\ n.phase \in Busy =>
                        n.app = s.app /\ n.host = s.host /\ n.path = p /\ p \notin blocks[s.host]
                  /\ n.phase = "upstream" => n.owner = inst[s.app.id].host
<1> DEFINE m == First(s.app, p)
<1>a. m \in Mock \cup {None}
  BY FirstIsAMock
<1>b. s.app.host = s.host /\ s.app \in App
  BY DEF WellBuilt
<1>c. BlockedFor(s.app, p) <=> p \in blocks[s.host]
  BY <1>b DEF BlockedFor
<1>d. ~ServerOff(s.app) => s.app.id \in Live /\ inst[s.app.id].host \in Host
  BY DEF ServerOff, SettingsInv, Instance
<1> HIDE DEF m
<1>1. CASE BlockedFor(s.app, p) /\ slots' = [slots EXCEPT ![t] = Free]
  <2>1. Free.phase = "idle"
    BY DEF Free
  <2> QED BY <1>1, <2>1, FreeIsWellBuilt, Zenon DEF Busy
<1>2. CASE ~BlockedFor(s.app, p) /\ ServerOff(s.app) /\ slots' = [slots EXCEPT ![t] = Rested(s)]
  BY <1>2, RestedIsWellBuilt DEF Busy
<1>3. CASE /\ ~BlockedFor(s.app, p) /\ m \in Mock
           /\ slots' = [slots EXCEPT ![t] =
                 IF m \in Delayed \/ inst[s.app.id].slow
                 THEN [s EXCEPT !.phase = "timer", !.path = p, !.mock = m] ELSE Rested(s)]
  <2> DEFINE n == [s EXCEPT !.phase = "timer", !.path = p, !.mock = m]
  <2>1. WellBuilt(n) /\ n.phase = "timer" /\ n.app = s.app /\ n.host = s.host /\ n.path = p
    BY <1>3 DEF WellBuilt, Connection, Busy
  <2> HIDE DEF n
  <2>2. slots' = [slots EXCEPT ![t] = n] \/ slots' = [slots EXCEPT ![t] = Rested(s)]
    BY <1>3 DEF n
  <2> QED BY <1>3, <1>c, <2>1, <2>2, RestedIsWellBuilt DEF Busy
<1>4. CASE /\ ~BlockedFor(s.app, p) /\ ~ServerOff(s.app)
           /\ slots' = [slots EXCEPT ![t] = [s EXCEPT !.phase = "upstream", !.path = p,
                                             !.mock = m, !.owner = inst[s.app.id].host]]
  <2> DEFINE n == [s EXCEPT !.phase = "upstream", !.path = p, !.mock = m,
                            !.owner = inst[s.app.id].host]
  <2>1. WellBuilt(n) /\ n.phase = "upstream" /\ n.app = s.app /\ n.host = s.host
        /\ n.path = p /\ n.owner = inst[s.app.id].host
    BY <1>4, <1>a, <1>d DEF WellBuilt, Connection, Busy
  <2> HIDE DEF n
  <2>2. slots' = [slots EXCEPT ![t] = n]
    BY <1>4 DEF n
  <2> QED BY <1>4, <1>c, <2>1, <2>2
<1> QED BY <1>a, <1>1, <1>2, <1>3, <1>4 DEF Dispatch, m, Answers

---------------------------------------------------------------------------
(* What a step may do to a connection that waits for nothing: it starts a  *)
(* request only where the host's rules let it, and forwards it home.       *)
StartsWell ==
    \A t \in Slot : slots[t].phase = "idle" /\ slots'[t].phase \in Busy =>
        /\ slots'[t].path \notin blocks[slots'[t].host]
        /\ slots'[t].phase = "upstream" /\ Cached(slots'[t].app)
              => slots'[t].owner = slots'[t].host

LEMMA QuietStep ==
    ASSUME SlotsInv, NEW t \in Slot, NEW n, slots' = [slots EXCEPT ![t] = n],
           slots[t].phase = "idle" => n.phase \notin Busy
    PROVE  StartsWell
BY DEF StartsWell, SlotsInv, Busy

LEMMA SameSlots == ASSUME UNCHANGED slots PROVE StartsWell
BY DEF StartsWell, Busy

LEMMA DispatchStep ==
    ASSUME PipelineInv, NEW t \in Slot, NEW s, WellBuilt(s),
           s.kind \in {"tunnel", "plain"}, NEW p \in Path, Dispatch(t, s, p)
    PROVE  SlotsInv' /\ StartsWell
<1>1. PICK n : /\ WellBuilt(n)
               /\ slots' = [slots EXCEPT ![t] = n]
               /\ n.phase \in Busy =>
                     n.app = s.app /\ n.host = s.host /\ n.path = p /\ p \notin blocks[s.host]
               /\ n.phase = "upstream" => n.owner = inst[s.app.id].host
  BY DispatchEffect DEF PipelineInv
<1>2. Cached(s.app) => inst[s.app.id].host = s.host
  BY DEF Cached, PipelineInv, CacheIsCurrent, WellBuilt
<1>3. slots'[t] = n /\ \A u \in Slot : u # t => slots'[u] = slots[u]
  BY <1>1 DEF PipelineInv, SlotsInv
<1>4. "upstream" \in Busy /\ "idle" \notin Busy
  BY DEF Busy
<1>5. StartsWell
  BY <1>1, <1>2, <1>3, <1>4 DEF StartsWell
<1> QED BY <1>1, <1>5, SlotChanged DEF PipelineInv

---------------------------------------------------------------------------
(* The actions.  Settings and cache first, then the connections.           *)

LEMMA EvictionStep ==
    ASSUME PipelineInv, NEW i, Evict(i)
    PROVE  /\ SlotsInv' /\ StartsWell
           /\ apps' = Without(apps, i)
<1>1. PICK gone \in SUBSET Slot :
         slots' = [t \in Slot |-> IF t \in gone THEN Free ELSE slots[t]]
  BY DEF Evict
<1>2. \A t \in Slot : slots'[t] = Free \/ slots'[t] = slots[t]
  BY <1>1
<1>3. Free.phase = "idle" /\ "idle" \notin Busy
  BY DEF Free, Busy
<1>4. SlotsInv'
  BY <1>1, <1>2, FreeIsWellBuilt DEF PipelineInv, SlotsInv, WellBuilt
<1>5. StartsWell
  BY <1>2, <1>3, Zenon DEF StartsWell
<1> QED BY <1>4, <1>5 DEF Evict

(* The app put in the cache for a decrypted host is that of its instance.  *)
LEMMA CachingStep ==
    ASSUME PipelineInv, NEW h \in Host, Decrypted(h), UNCHANGED <<inst, ssl, blocks>>,
           apps' = With(apps, Owner(h), AppOf(Owner(h)).host)
    PROVE  SettingsInv' /\ CacheIsCurrent'
<1>1. Owner(h) \in Live /\ inst[Owner(h)].host = h
  BY OwnerOf
<1>2. AppOf(Owner(h)).host = h
  BY AppIsHome
<1>3. Owner(h) \in Id
  BY <1>1 DEF PipelineInv, SettingsInv
<1>4. /\ DOMAIN apps' = DOMAIN apps \cup {Owner(h)}
      /\ apps' \in [DOMAIN apps' -> Host]
      /\ \A i \in DOMAIN apps' : i \in Live /\ inst[i].host = apps'[i]
  BY <1>1, <1>2 DEF PipelineInv, SettingsInv, CacheIsCurrent, With
<1> QED BY <1>3, <1>4 DEF PipelineInv, SettingsInv, CacheIsCurrent, Live

LEMMA AddInstanceStep ==
    ASSUME PipelineInv, NEW h \in Host, NEW i \in Id, AddInstance(h, i)
    PROVE  PipelineInv' /\ StartsWell
<1>1. [host |-> h, on |-> {}, active |-> TRUE, slow |-> FALSE] \in Instance
  BY DEF Instance
<1>2. Live' = Live \cup {i} /\ inst' \in [Live' -> Instance]
  BY <1>1 DEF AddInstance, PipelineInv, SettingsInv, With, Live
<1>3. \A j \in Live : inst'[j] = inst[j]
  BY DEF AddInstance, With, Live
<1>4. SettingsInv'
  BY <1>2 DEF AddInstance, PipelineInv, SettingsInv
<1>5. CacheIsCurrent'
  BY <1>2, <1>3 DEF AddInstance, PipelineInv, CacheIsCurrent
<1> QED BY <1>4, <1>5, SameSlots DEF AddInstance, PipelineInv, SlotsInv, WellBuilt

LEMMA SettingStep ==
    ASSUME PipelineInv, NEW h \in Host,
           \/ \E on \in BOOLEAN : SetSsl(h, on)
           \/ \E covered \in SUBSET Path : Block(h, covered)
    PROVE  PipelineInv' /\ StartsWell
<1>1. SettingsInv' /\ UNCHANGED <<inst, apps, slots>>
  BY DEF SetSsl, Block, PipelineInv, SettingsInv, Live
<1> QED BY <1>1, SameSlots DEF PipelineInv, SlotsInv, WellBuilt, CacheIsCurrent, Live

LEMMA RemoveStep ==
    ASSUME PipelineInv, NEW i \in Id, Remove(i)
    PROVE  PipelineInv' /\ StartsWell
<1>1. SlotsInv' /\ StartsWell /\ apps' = Without(apps, i)
  BY EvictionStep DEF Remove
<1>2. SettingsInv'
  BY <1>1 DEF Remove, PipelineInv, SettingsInv, Without, Live
<1>3. CacheIsCurrent'
  BY <1>1 DEF Remove, PipelineInv, CacheIsCurrent, Without, Live
<1> QED BY <1>1, <1>2, <1>3 DEF PipelineInv

LEMMA RenameStep ==
    ASSUME PipelineInv, NEW i \in Id, NEW j \in Id, Rename(i, j)
    PROVE  PipelineInv' /\ StartsWell
<1>1. SlotsInv' /\ StartsWell /\ apps' = Without(apps, i)
  BY EvictionStep DEF Rename
<1>2. /\ Live' = (Live \ {i}) \cup {j}
      /\ inst'[j] = inst[i] /\ inst[i] \in Instance
      /\ \A k \in Live \ {i} : k # j /\ inst'[k] = inst[k]
      /\ inst' = [k \in Live' |-> inst'[k]]
  BY DEF Rename, With, Without, Live, PipelineInv, SettingsInv
<1>3. SettingsInv'
  BY <1>1, <1>2 DEF Rename, PipelineInv, SettingsInv, Without
<1>4. CacheIsCurrent'
  BY <1>1, <1>2 DEF Rename, PipelineInv, CacheIsCurrent, Without
<1> QED BY <1>1, <1>3, <1>4 DEF PipelineInv

LEMMA SliceStep ==
    ASSUME PipelineInv, NEW i \in Id,
           \/ \E m \in Mock, on \in BOOLEAN : Toggle(i, m, on)
           \/ \E active, slow \in BOOLEAN : Tune(i, active, slow)
    PROVE  PipelineInv' /\ StartsWell
<1>1. /\ inst' \in [Live -> Instance] /\ UNCHANGED <<ssl, blocks, apps, slots>>
      /\ \A j \in Live : inst'[j].host = inst[j].host
  <2>1. CASE \E m \in Mock, on \in BOOLEAN : Toggle(i, m, on)
    BY <2>1 DEF Toggle, PipelineInv, SettingsInv, Instance
  <2>2. CASE \E active, slow \in BOOLEAN : Tune(i, active, slow)
    <3>1. PICK active \in BOOLEAN, slow \in BOOLEAN : Tune(i, active, slow)
      BY <2>2
    <3>2. i \in Live /\ inst \in [Live -> Instance]
      BY <3>1 DEF Tune, PipelineInv, SettingsInv
    <3> DEFINE tuned == [[inst[i] EXCEPT !.active = active] EXCEPT !.slow = slow]
    <3>3. tuned \in Instance /\ tuned.host = inst[i].host
      BY <3>2 DEF Instance
    <3>4. inst' = [inst EXCEPT ![i] = tuned]
      BY ZenonT(60), <3>1, <3>2 DEF Tune, Instance
    <3> HIDE DEF tuned
    <3> QED BY ZenonT(60), <3>1, <3>2, <3>3, <3>4 DEF Tune
  <2> QED BY <2>1, <2>2
<1>2. Live' = Live
  BY <1>1 DEF Live
<1>3. SettingsInv'
  BY <1>1, <1>2 DEF PipelineInv, SettingsInv
<1>4. CacheIsCurrent'
  BY <1>1, <1>2 DEF PipelineInv, CacheIsCurrent
<1> QED BY <1>1, <1>3, <1>4, SameSlots DEF PipelineInv, SlotsInv, WellBuilt

LEMMA ConnectStep ==
    ASSUME PipelineInv, NEW t \in Slot, NEW h \in Host, Connect(t, h)
    PROVE  PipelineInv' /\ StartsWell
<1>1. CASE Decrypted(h)
  <2> DEFINE n == [Free EXCEPT !.kind = "tunnel", !.host = h, !.app = AppOf(Owner(h))]
  <2>1. WellBuilt(n) /\ n.phase = "idle"
    BY <1>1, AppIsHome DEF WellBuilt, Connection, Free, Busy
  <2>2. slots' = [slots EXCEPT ![t] = n] /\ apps' = With(apps, Owner(h), AppOf(Owner(h)).host)
        /\ UNCHANGED <<inst, ssl, blocks>>
    BY <1>1 DEF Connect
  <2> HIDE DEF n
  <2>3. SlotsInv' /\ StartsWell
    BY <2>1, <2>2, SlotChanged, QuietStep DEF PipelineInv, Busy
  <2> QED BY <1>1, <2>2, <2>3, CachingStep DEF PipelineInv
<1>2. CASE ~Decrypted(h)
  <2> DEFINE n == [Free EXCEPT !.kind = "raw", !.host = h]
  <2>1. WellBuilt(n) /\ n.phase = "idle"
    BY DEF WellBuilt, Connection, Free, Busy
  <2>2. slots' = [slots EXCEPT ![t] = n] /\ UNCHANGED <<inst, ssl, blocks, apps>>
    BY <1>2 DEF Connect
  <2> HIDE DEF n
  <2>3. SlotsInv' /\ StartsWell
    BY <2>1, <2>2, SlotChanged, QuietStep DEF PipelineInv, Busy
  <2> QED BY <2>2, <2>3 DEF PipelineInv, SettingsInv, CacheIsCurrent, Live
<1> QED BY <1>1, <1>2

LEMMA PlainStep ==
    ASSUME PipelineInv, NEW t \in Slot, NEW h \in Host, NEW p \in Path, Plain(t, h, p)
    PROVE  PipelineInv' /\ StartsWell
<1> DEFINE s == [Free EXCEPT !.kind = "plain", !.host = h, !.app = AppOf(Owner(h))]
<1>1. Decrypted(h) /\ Dispatch(t, s, p) /\ UNCHANGED <<inst, ssl, blocks>>
      /\ apps' = With(apps, Owner(h), AppOf(Owner(h)).host)
  BY DEF Plain
<1>2. WellBuilt(s) /\ s.kind \in {"tunnel", "plain"}
  BY <1>1, AppIsHome DEF WellBuilt, Connection, Free, Busy
<1> HIDE DEF s
<1>3. SlotsInv' /\ StartsWell
  BY <1>1, <1>2, DispatchStep
<1> QED BY <1>1, <1>3, CachingStep DEF PipelineInv

LEMMA RequestStep ==
    ASSUME PipelineInv, NEW t \in Slot, NEW p \in Path, Request(t, p)
    PROVE  PipelineInv' /\ StartsWell
<1>1. WellBuilt(slots[t]) /\ slots[t].kind \in {"tunnel", "plain"}
  BY DEF Request, PipelineInv, SlotsInv
<1>2. SlotsInv' /\ StartsWell
  BY <1>1, DispatchStep DEF Request
<1> QED BY <1>2 DEF Request, PipelineInv, SettingsInv, CacheIsCurrent, Live

(* The turns that end something, or hang up.                               *)
LEMMA EndingStep ==
    ASSUME PipelineInv, NEW t \in Slot,
           HangUp(t) \/ Fire(t) \/ UpstreamAnswers(t) \/ UpstreamFails(t) \/ Wake(t)
    PROVE  PipelineInv' /\ StartsWell
<1>1. WellBuilt(slots[t])
  BY DEF PipelineInv, SlotsInv
<1>2. WellBuilt(Rested(slots[t])) /\ Rested(slots[t]).phase = "idle"
  BY <1>1, RestedIsWellBuilt
<1>3. WellBuilt(Free) /\ Free.phase = "idle"
  BY FreeIsWellBuilt DEF Free
<1>4. slots[t].phase = "upstream" => WellBuilt([slots[t] EXCEPT !.phase = "latency"])
  BY <1>1 DEF WellBuilt, Connection, Busy
<1>5. \E n : /\ WellBuilt(n) /\ slots' = [slots EXCEPT ![t] = n]
             /\ slots[t].phase = "idle" => n.phase = "idle"
  BY <1>2, <1>3, <1>4 DEF HangUp, Fire, UpstreamAnswers, UpstreamFails, Wake
<1>6. SlotsInv' /\ StartsWell
  BY <1>5, SlotChanged, QuietStep DEF PipelineInv, Busy
<1>7. UNCHANGED <<inst, ssl, blocks, apps>>
  BY DEF HangUp, Fire, UpstreamAnswers, UpstreamFails, Wake
<1> QED BY <1>6, <1>7 DEF PipelineInv, SettingsInv, CacheIsCurrent, Live

LEMMA PipelineInit == Init => PipelineInv
<1> SUFFICES ASSUME Init PROVE PipelineInv
  OBVIOUS
<1>1. SettingsInv /\ CacheIsCurrent
  BY DEF Init, SettingsInv, CacheIsCurrent, Live
<1>2. SlotsInv
  BY FreeIsWellBuilt DEF Init, SlotsInv
<1> QED BY <1>1, <1>2 DEF PipelineInv

LEMMA PipelineStep == PipelineInv /\ [Next]_vars => PipelineInv' /\ StartsWell
<1> SUFFICES ASSUME PipelineInv, [Next]_vars PROVE PipelineInv' /\ StartsWell
  OBVIOUS
<1>1. CASE Operate
  BY <1>1, AddInstanceStep, SettingStep, RemoveStep, RenameStep, SliceStep DEF Operate
<1>2. CASE \E t \in Slot : Serve(t)
  BY <1>2, ConnectStep, PlainStep, RequestStep, EndingStep DEF Serve
<1>3. CASE UNCHANGED vars
  BY <1>3, SameSlots DEF vars, PipelineInv, SettingsInv, SlotsInv, WellBuilt, CacheIsCurrent, Live
<1> QED BY <1>1, <1>2, <1>3 DEF Next

---------------------------------------------------------------------------
(* Ids, hosts and connections stay what they are called.                   *)
THEOREM PipelineType == Spec => []TypeOK
<1>1. Spec => []PipelineInv
  BY PipelineInit, PipelineStep, PTL DEF Spec
<1> QED BY <1>1, InvGivesType, PTL

(* However ids are removed, renamed and given to other hosts, the app in   *)
(* the cache under an id belongs to the instance that has the id: what is  *)
(* evicted and what is built always agree.                                 *)
THEOREM PipelineCache == Spec => []CacheIsCurrent
<1>1. Spec => []PipelineInv
  BY PipelineInit, PipelineStep, PTL DEF Spec
<1>2. PipelineInv => CacheIsCurrent
  BY DEF PipelineInv
<1> QED BY <1>1, <1>2, PTL

(* A request on a pipeline that is still in the cache goes to the target   *)
(* of the host it was addressed to, whoever has had its id before.  A      *)
(* connection whose pipeline has been evicted is outside the theorem.      *)
THEOREM PipelineForwards == Spec => ForwardedHome
<1>1. Spec => []PipelineInv
  BY PipelineInit, PipelineStep, PTL DEF Spec
<1>2. PipelineInv /\ [Next]_vars =>
        [\A t \in Slot :
            slots[t].phase = "idle" /\ slots'[t].phase = "upstream" /\ Cached(slots'[t].app)
               => slots'[t].owner = slots'[t].host]_vars
  BY PipelineStep DEF StartsWell, Busy
<1> QED BY <1>1, <1>2, PTL DEF Spec, ForwardedHome

(* Nothing is mocked or forwarded for a path that is blocked on the host   *)
(* of the connection, on old tunnels and reused ids included.              *)
THEOREM PipelineBlocks == Spec => BlockedDies
<1>1. Spec => []PipelineInv
  BY PipelineInit, PipelineStep, PTL DEF Spec
<1>2. PipelineInv /\ [Next]_vars =>
        [\A t \in Slot :
            slots[t].phase = "idle" /\ slots'[t].phase \in Busy
               => slots'[t].path \notin blocks[slots'[t].host]]_vars
  BY PipelineStep DEF StartsWell
<1> QED BY <1>1, <1>2, PTL DEF Spec, BlockedDies
=============================================================================
