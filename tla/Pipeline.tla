------------------------------ MODULE Pipeline ------------------------------
(***************************************************************************)
(* What happens to a request on its way through the proxy                  *)
(* (proxy-server.js, utils/mock-pipeline.js, the instance hooks of          *)
(* server.js).                                                             *)
(*                                                                         *)
(* A CONNECT is tunnelled blind or decrypted.  A decrypted tunnel is bound *)
(* to the http.Server of the Express app cached for its instance id; the   *)
(* app closes over the id and over the instance object, so over its host.  *)
(* Removing or renaming an instance evicts the app, but a tunnel that is   *)
(* open goes on using it.  A request is blocked, refused, mocked or        *)
(* forwarded in one turn of the event loop; delayed mocks, upstream answers*)
(* and simulated latency end in later turns, with the world changed.       *)
(***************************************************************************)
EXTENDS Naturals, Sequences, FiniteSets

CONSTANTS
    Host,       \* hosts devices ask for
    Id,         \* instance ids
    Slot,       \* client connections at a time
    Path,       \* paths asked for
    Mock,       \* mocks on disk
    Registry,   \* the mocks in the order the loader returns them
    Matches,    \* mock -> the paths it matches
    Scope,      \* mock -> the ids it is scoped to, {} for all of them
    Intercepts, \* mocks that rewrite the real answer instead of answering
    Delayed,    \* mocks with a delay of their own
    None        \* no host, id, path or mock

ASSUME PipelineAssumption ==
    /\ Registry \in Seq(Mock)
    /\ Matches \in [Mock -> SUBSET Path]
    /\ Scope \in [Mock -> SUBSET Id]
    /\ Intercepts \subseteq Mock /\ Delayed \subseteq Mock
    /\ None \notin Host \cup Id \cup Path \cup Mock

VARIABLES
    inst,    \* serverConfigs with its slices: id -> host, toggles, isActive, latency > 0
    ssl,     \* hosts with hostSettings[host].ssl
    blocks,  \* host -> paths its rules cover
    apps,    \* instanceApps: id -> the host of the instance the app was built for
    slots    \* the client connections

vars == <<inst, ssl, blocks, apps, slots>>

Live == DOMAIN inst
NoApp == [id |-> None, host |-> None]
Free == [kind |-> "free", host |-> None, app |-> NoApp, phase |-> "idle",
         path |-> None, mock |-> None, owner |-> None]

Instance == [host : Host, on : SUBSET Mock, active : BOOLEAN, slow : BOOLEAN]
App == [id : Id, host : Host]
Busy == {"timer", "upstream", "latency"}

TypeOK ==
    /\ Live \subseteq Id /\ inst \in [Live -> Instance]
    /\ ssl \subseteq Host
    /\ blocks \in [Host -> SUBSET Path]
    /\ DOMAIN apps \subseteq Id /\ apps \in [DOMAIN apps -> Host]
    /\ slots \in [Slot -> [kind : {"free", "raw", "tunnel", "plain"},
                           host : Host \cup {None}, app : App \cup {NoApp},
                           phase : {"idle"} \cup Busy, path : Path \cup {None},
                           mock : Mock \cup {None}, owner : Host \cup {None}]]

Init ==
    /\ inst = [i \in {} |-> None]
    /\ ssl = {}
    /\ blocks = [h \in Host |-> {}]
    /\ apps = [i \in {} |-> None]
    /\ slots = [t \in Slot |-> Free]

With(f, k, v) == [x \in DOMAIN f \cup {k} |-> IF x = k THEN v ELSE f[x]]
Without(f, k) == [x \in DOMAIN f \ {k} |-> f[x]]

---------------------------------------------------------------------------
(* Instances and settings, as far as the pipeline looks at them. *)

(* addInstance or ensureInstanceForHost, and the SSL switch it turns on. *)
AddInstance(h, i) ==
    /\ i \notin Live
    /\ \A j \in Live : inst[j].host # h
    /\ inst' = With(inst, i, [host |-> h, on |-> {}, active |-> TRUE, slow |-> FALSE])
    /\ ssl' = ssl \cup {h}
    /\ UNCHANGED <<blocks, apps, slots>>

SetSsl(h, on) ==
    /\ on => \E j \in Live : inst[j].host = h
    /\ ssl' = IF on THEN ssl \cup {h} ELSE ssl \ {h}
    /\ UNCHANGED <<inst, blocks, apps, slots>>

(* Mutant of Evict: the app stays in the cache. *)
Evict_Kept(i) == UNCHANGED <<apps, slots>>
(* evictInstanceApp: out of the cache; http.Server.close may close the     *)
(* connections that are idle (it does since Node 19), never a busy one.    *)
Evict(i) ==
    /\ apps' = Without(apps, i)
    /\ \E gone \in SUBSET {t \in Slot : /\ slots[t].kind = "tunnel"
                                        /\ slots[t].app.id = i
                                        /\ slots[t].phase = "idle"} :
          slots' = [t \in Slot |-> IF t \in gone THEN Free ELSE slots[t]]

(* removeInstance takes the host's row with it, rules included.            *)
Remove(i) ==
    /\ i \in Live
    /\ inst' = Without(inst, i)
    /\ ssl' = ssl \ {inst[i].host}
    /\ blocks' = [blocks EXCEPT ![inst[i].host] = {}]
    /\ Evict(i)

Rename(i, j) ==
    /\ i \in Live /\ j \notin Live
    /\ inst' = With(Without(inst, i), j, inst[i])
    /\ Evict(i)
    /\ UNCHANGED <<ssl, blocks>>

Toggle(i, m, on) ==
    /\ i \in Live
    /\ Scope[m] = {} \/ i \in Scope[m]
    /\ inst' = [inst EXCEPT ![i].on = IF on THEN @ \cup {m} ELSE @ \ {m}]
    /\ UNCHANGED <<ssl, blocks, apps, slots>>

Tune(i, active, slow) ==
    /\ i \in Live
    /\ inst' = [inst EXCEPT ![i].active = active, ![i].slow = slow]
    /\ UNCHANGED <<ssl, blocks, apps, slots>>

Block(h, covered) ==
    /\ blocks' = [blocks EXCEPT ![h] = covered]
    /\ UNCHANGED <<inst, ssl, apps, slots>>

---------------------------------------------------------------------------
(* Connections. *)

(* shouldMitm and resolveInstanceForHost *)
Owner(h) == CHOOSE i \in Live : inst[i].host = h
Decrypted(h) == h \in ssl /\ \E i \in Live : inst[i].host = h

(* getInstanceApp: the cached app, or one built from the instance found.   *)
AppOf(i) == [id |-> i, host |-> IF i \in DOMAIN apps THEN apps[i] ELSE inst[i].host]

Connect(t, h) ==
    /\ slots[t] = Free
    /\ IF Decrypted(h)
       THEN /\ slots' = [slots EXCEPT ![t] = [Free EXCEPT !.kind = "tunnel", !.host = h,
                                                          !.app = AppOf(Owner(h))]]
            /\ apps' = With(apps, Owner(h), AppOf(Owner(h)).host)
       ELSE /\ slots' = [slots EXCEPT ![t] = [Free EXCEPT !.kind = "raw", !.host = h]]
            /\ UNCHANGED apps
    /\ UNCHANGED <<inst, ssl, blocks>>

(* Either side closes; a request in flight goes with it, except the timer  *)
(* of a delayed mock, whose answer is still recorded when it fires.        *)
HangUp(t) ==
    /\ slots[t].kind # "free" /\ slots[t].phase # "timer"
    /\ slots' = [slots EXCEPT ![t] = Free]
    /\ UNCHANGED <<inst, ssl, blocks, apps>>

---------------------------------------------------------------------------
(* One request, from the middleware chain to the response. *)

(* Mutant of BlockedFor: the rules looked up are those of whoever has the  *)
(* id now.                                                                 *)
BlockedFor_ById(app, p) == app.id \in Live /\ p \in blocks[inst[app.id].host]
(* createBlockMiddleware: the host is that of the captured instance.       *)
BlockedFor(app, p) == p \in blocks[app.host]

ServerOff(app) == ~(app.id \in Live /\ inst[app.id].active)

(* The first mock, in registry order, that is in scope, matches and is on. *)
Active(app, p) ==
    {k \in 1..Len(Registry) :
        LET m == Registry[k]
        IN  /\ Scope[m] = {} \/ app.id \in Scope[m]
            /\ p \in Matches[m]
            /\ m \in inst[app.id].on}
First(app, p) ==
    IF Active(app, p) = {} THEN None
    ELSE Registry[CHOOSE k \in Active(app, p) : \A j \in Active(app, p) : k <= j]

Answers(m) == m # None /\ m \notin Intercepts

(* After an answer a tunnel is kept alive; a plain connection resolves its *)
(* host again at the next request.                                         *)
Rested(s) == IF s.kind = "tunnel" THEN [s EXCEPT !.phase = "idle", !.path = None,
                                                 !.mock = None, !.owner = None]
             ELSE Free

(* The turn in which the chain of middleware runs on connection t, whose   *)
(* record is s: block, server-off, mock, or forward to the owner of the id.*)
Dispatch(t, s, p) ==
    LET m == First(s.app, p)
    IN  \/ /\ BlockedFor(s.app, p)
           /\ slots' = [slots EXCEPT ![t] = Free]
        \/ /\ ~BlockedFor(s.app, p) /\ ServerOff(s.app)
           /\ slots' = [slots EXCEPT ![t] = Rested(s)]
        \/ /\ ~BlockedFor(s.app, p) /\ ~ServerOff(s.app) /\ Answers(m)
           /\ slots' = [slots EXCEPT ![t] =
                 IF m \in Delayed \/ inst[s.app.id].slow
                 THEN [s EXCEPT !.phase = "timer", !.path = p, !.mock = m] ELSE Rested(s)]
        \/ /\ ~BlockedFor(s.app, p) /\ ~ServerOff(s.app) /\ ~Answers(m)
           /\ slots' = [slots EXCEPT ![t] = [s EXCEPT !.phase = "upstream", !.path = p,
                                             !.mock = m, !.owner = inst[s.app.id].host]]

Request(t, p) ==
    /\ slots[t].kind = "tunnel" /\ slots[t].phase = "idle"
    /\ Dispatch(t, slots[t], p)
    /\ UNCHANGED <<inst, ssl, blocks, apps>>

(* handlePlainHTTP: forwarded as it is, or handed to the cached app.       *)
Plain(t, h, p) ==
    /\ slots[t] = Free /\ Decrypted(h)
    /\ apps' = With(apps, Owner(h), AppOf(Owner(h)).host)
    /\ Dispatch(t, [Free EXCEPT !.kind = "plain", !.host = h, !.app = AppOf(Owner(h))], p)
    /\ UNCHANGED <<inst, ssl, blocks>>

(* The timer of a delayed mock answers whatever has happened meanwhile.    *)
Fire(t) ==
    /\ slots[t].phase = "timer"
    /\ slots' = [slots EXCEPT ![t] = Rested(slots[t])]
    /\ UNCHANGED <<inst, ssl, blocks, apps>>

(* The upstream answers; the latency is the one the id has now.            *)
UpstreamAnswers(t) ==
    /\ slots[t].phase = "upstream"
    /\ slots' = [slots EXCEPT ![t] =
          IF slots[t].app.id \in Live /\ inst[slots[t].app.id].slow
          THEN [slots[t] EXCEPT !.phase = "latency"] ELSE Rested(slots[t])]
    /\ UNCHANGED <<inst, ssl, blocks, apps>>

(* The upstream fails or PROXY_TIMEOUT_MS is over: 502.                    *)
UpstreamFails(t) ==
    /\ slots[t].phase = "upstream"
    /\ slots' = [slots EXCEPT ![t] = Rested(slots[t])]
    /\ UNCHANGED <<inst, ssl, blocks, apps>>

(* Mutant of Wake: the sleep is taken again while latency is set. *)
Wake_Again(t) ==
    /\ slots[t].phase = "latency"
    /\ ~(slots[t].app.id \in Live /\ inst[slots[t].app.id].slow)
    /\ slots' = [slots EXCEPT ![t] = Rested(slots[t])]
    /\ UNCHANGED <<inst, ssl, blocks, apps>>
Wake(t) ==
    /\ slots[t].phase = "latency"
    /\ slots' = [slots EXCEPT ![t] = Rested(slots[t])]
    /\ UNCHANGED <<inst, ssl, blocks, apps>>

Operate ==
    \/ \E h \in Host :
          \/ \E i \in Id : AddInstance(h, i)
          \/ \E on \in BOOLEAN : SetSsl(h, on)
          \/ \E covered \in SUBSET Path : Block(h, covered)
    \/ \E i \in Id :
          \/ Remove(i)
          \/ \E j \in Id : Rename(i, j)
          \/ \E m \in Mock, on \in BOOLEAN : Toggle(i, m, on)
          \/ \E active, slow \in BOOLEAN : Tune(i, active, slow)

Serve(t) ==
    \/ \E h \in Host : Connect(t, h) \/ \E p \in Path : Plain(t, h, p)
    \/ \E p \in Path : Request(t, p)
    \/ HangUp(t) \/ Fire(t) \/ UpstreamAnswers(t) \/ UpstreamFails(t) \/ Wake(t)

Next == Operate \/ \E t \in Slot : Serve(t)

(* Timers fire; the upstream answers, fails, or is given up on after 30 s. *)
Fairness ==
    \A t \in Slot :
        /\ WF_vars(Fire(t)) /\ WF_vars(Wake(t))
        /\ WF_vars(UpstreamAnswers(t) \/ UpstreamFails(t))

Spec == Init /\ [][Next]_vars
FairSpec == Spec /\ Fairness

---------------------------------------------------------------------------
(* The cached app of an id was built for the instance that has the id now, *)
(* after any sequence of removals, renames and reuses of ids.              *)
CacheIsCurrent == \A i \in DOMAIN apps : i \in Live /\ inst[i].host = apps[i]

Cached(app) == app.id \in DOMAIN apps /\ apps[app.id] = app.host

(* A request on a pipeline that has not been evicted is forwarded to the   *)
(* target of the host it was addressed to, never to the host that now has  *)
(* the id of another.  (A tunnel that outlives its instance has no such    *)
(* guarantee: the router reads the settings of whoever has the id.)        *)
ForwardedHome ==
    [][\A t \in Slot :
          slots[t].phase = "idle" /\ slots'[t].phase = "upstream" /\ Cached(slots'[t].app)
             => slots'[t].owner = slots'[t].host]_vars

(* A path blocked on a host is dead on every connection to that host, also *)
(* on one whose instance has been removed or renamed since, or whose id    *)
(* another host has taken: nothing is mocked or forwarded for it.          *)
BlockedDies ==
    [][\A t \in Slot :
          slots[t].phase = "idle" /\ slots'[t].phase \in Busy
             => slots'[t].path \notin blocks[slots'[t].host]]_vars

(* Every request that is waiting for a timer, an upstream or a simulated   *)
(* delay comes to an end, whatever is done to its instance meanwhile.      *)
RequestsEnd == \A t \in Slot : slots[t].phase \in Busy ~> slots[t].phase = "idle"
=============================================================================
