----------------------------- MODULE Recording -----------------------------
(***************************************************************************)
(* The activity log and the capture sessions fed from it                   *)
(* (utils/request-log.js, utils/capture-sessions.js, their routes in       *)
(* utils/admin/{activity,capture,instances}.js).                           *)
(*                                                                         *)
(* A request goes through a pipeline built for its instance and carries    *)
(* the instance id that pipeline was built with; when it ends, a record is *)
(* put in the rolling log and handed to every active session.  Log and     *)
(* sessions share the record objects, whose instanceId a rename rewrites.  *)
(* A rename evicts the pipeline, but a decrypted tunnel keeps feeding the  *)
(* one it was opened to, which goes on logging under the old id.           *)
(* Records are numbered as they are made and only ever put in front of the *)
(* log, so the log is the set of the numbers it holds, the largest in front.*)
(* Sessions expire lazily: every public call sweeps first.                 *)
(***************************************************************************)
EXTENDS Integers, Sequences, FiniteSets

CONSTANTS
    Inst,        \* intercepted instances
    Id,          \* the ids they go by
    Request,     \* requests in flight at a time
    Session,     \* slots for capture sessions
    Size,        \* record -> its __bytes
    MaxTunnels,  \* bound on the tunnels told apart
    MaxRecords,  \* bound on the records of a behaviour
    MaxLog,      \* MAX_LOG_SIZE
    MaxEntries,  \* MAX_ENTRIES_PER_SESSION
    MaxFinished, \* MAX_FINISHED_SESSIONS
    MaxActive    \* MAX_ACTIVE_SESSIONS

Rec == 1..MaxRecords

ASSUME RecordingAssumption ==
    /\ \E ids \in [Inst -> Id] : \A u, v \in Inst : ids[u] = ids[v] => u = v
    /\ Size \in [Rec -> Nat]
    /\ {MaxTunnels, MaxRecords, MaxLog, MaxEntries, MaxFinished, MaxActive} \subseteq Nat

VARIABLES
    idOf,      \* instance -> its id in serverConfigs
    tunnels,   \* decrypted tunnels, with the id of the pipeline they feed
    inflight,  \* requests not yet answered, with the id of their pipeline
    records,   \* what has been recorded so far, in order: instance, instanceId and,
               \* as a history, whether that id was out of date when it was written
    log,       \* _log, as the numbers of its records
    bytes,     \* _bytes
    paused,    \* _paused
    order,     \* the pairs of _sessions of which the first was inserted first
    session,   \* what each session holds
    overdue,   \* active sessions started more than ACTIVE_TTL_MS ago
    owed       \* history: what each session should have been given

logVars  == <<log, bytes, records>>
sessVars == <<order, session, overdue, owed>>
vars     == <<idOf, tunnels, inflight, records, log, bytes, paused, order, session, overdue, owed>>

Known  == {s \in Session : session[s].status # "gone"}
NoSession == [status |-> "gone", filter |-> {}, entries |-> <<>>, dropped |-> 0]
NoDebt    == [by |-> {}, records |-> {}]

TypeOK ==
    /\ idOf \in [Inst -> Id]
    /\ tunnels \subseteq [inst : Inst, id : Id]
    /\ inflight \subseteq [req : Request, inst : Inst, id : Id]
    /\ records \in Seq([inst : Inst, id : Id, late : BOOLEAN]) /\ Len(records) <= MaxRecords
    /\ log \subseteq DOMAIN records
    /\ bytes \in Nat
    /\ paused \in BOOLEAN
    /\ order \subseteq Known \X Known
    /\ session \in [Session -> [status : {"active", "stopped", "expired", "gone"},
                                filter : SUBSET Id, entries : Seq(1..Len(records)),
                                dropped : Nat]]
    /\ overdue \subseteq Session
    /\ owed \in [Session -> [by : SUBSET Inst, records : SUBSET Rec]]

Init ==
    /\ idOf \in {ids \in [Inst -> Id] : \A u, v \in Inst : ids[u] = ids[v] => u = v}
    /\ tunnels = {}
    /\ inflight = {}
    /\ records = <<>>
    /\ log = {}
    /\ bytes = 0
    /\ paused = FALSE
    /\ order = {}
    /\ session = [s \in Session |-> NoSession]
    /\ overdue = {}
    /\ owed = [s \in Session |-> NoDebt]

---------------------------------------------------------------------------
(* Sweeping: _sweep and _evictFinished, on a given table of sessions. *)

(* The bytes of the records of l, one after the other. *)
Weight(l) ==
    LET upTo[n \in 0..MaxRecords] ==
          IF n = 0 THEN 0 ELSE upTo[n - 1] + (IF n \in l THEN Size[n] ELSE 0)
    IN  upTo[MaxRecords]

Expire(table) ==
    [s \in Session |-> IF table[s].status = "active" /\ s \in overdue
                       THEN [table[s] EXCEPT !.status = "expired"] ELSE table[s]]

FinishedAfter(table, s) == {q \in Known : <<s, q>> \in order /\ table[q].status # "active"}

(* Mutant of Survives: the oldest go, running or not. *)
Survives_Oldest(table, s) == Cardinality(FinishedAfter(table, s)) < MaxFinished
Survives(table, s) ==
    \/ table[s].status = "active"
    \/ Cardinality(FinishedAfter(table, s)) < MaxFinished

Survivors(table) == {s \in Known : Survives(table, s)}

Store(table, keep) ==
    /\ order' = order \cap (keep \X keep)
    /\ session' = [s \in Session |-> IF s \in keep THEN table[s] ELSE NoSession]
    /\ owed' = [s \in Session |-> IF s \in keep THEN owed[s] ELSE NoDebt]
    /\ overdue' = {}

Remaining   == Survivors(Expire(session))
SweptOrder  == order \cap (Remaining \X Remaining)
Swept       == [s \in Session |-> IF s \in Remaining THEN Expire(session)[s] ELSE NoSession]
SweptOwed   == [s \in Session |-> IF s \in Remaining THEN owed[s] ELSE NoDebt]

---------------------------------------------------------------------------
(* Tunnels, requests and the log. *)

(* CONNECT: the decrypted socket is handed to the server of the pipeline   *)
(* the instance has now, and stays with it for as long as it is open.      *)
Connect(u) ==
    /\ Cardinality(tunnels) < MaxTunnels
    /\ tunnels' = tunnels \cup {[inst |-> u, id |-> idOf[u]]}
    /\ UNCHANGED <<idOf, inflight, logVars, paused, sessVars>>

(* Either end closes it.  An eviction closes the server it feeds, which    *)
(* ends idle connections at most, and not all of those.                    *)
Disconnect(t) ==
    /\ tunnels' = tunnels \ {t}
    /\ UNCHANGED <<idOf, inflight, logVars, paused, sessVars>>

(* A plain request is dispatched by what the instance goes by now; one in a *)
(* tunnel carries the id of the pipeline the tunnel feeds.                 *)
Carries(u, id) == id = idOf[u] \/ [inst |-> u, id |-> id] \in tunnels

Begin(r, u, id) ==
    /\ Carries(u, id)
    /\ \A f \in inflight : f.req # r
    /\ Len(records) + Cardinality(inflight) < MaxRecords
    /\ inflight' = inflight \cup {[req |-> r, inst |-> u, id |-> id]}
    /\ UNCHANGED <<idOf, tunnels, logVars, paused, sessVars>>

Wants(s, id) == Swept[s].status = "active" /\ (Swept[s].filter = {} \/ id \in Swept[s].filter)

(* Mutant of Given: past the cap the record is neither kept nor counted. *)
Given_Lost(held, rec) ==
    IF Len(held.entries) < MaxEntries
    THEN [held EXCEPT !.entries = Append(@, rec)] ELSE held
(* Mutant of Given: past the cap the oldest record makes room. *)
Given_Ring(held, rec) ==
    IF Len(held.entries) < MaxEntries
    THEN [held EXCEPT !.entries = Append(@, rec)]
    ELSE [held EXCEPT !.entries = Append(Tail(@), rec), !.dropped = @ + 1]
(* entries.push within the cap, droppedCount++ beyond it. *)
Given(held, rec) ==
    IF Len(held.entries) < MaxEntries
    THEN [held EXCEPT !.entries = Append(@, rec)]
    ELSE [held EXCEPT !.dropped = @ + 1]

Newest(l, n) == {rec \in l : Cardinality({later \in l : later > rec}) < n}

(* Mutant of Trimmed: the log is cut but what is cut stays on the bill. *)
Trimmed_Billed(rec) ==
    /\ log' = Newest(log \cup {rec}, MaxLog)
    /\ bytes' = Weight(log \cup {rec})
(* Mutant of Trimmed: the newcomer is never put on the bill. *)
Trimmed_Free(rec) ==
    /\ log' = Newest(log \cup {rec}, MaxLog)
    /\ bytes' = bytes - Weight(log \ Newest(log \cup {rec}, MaxLog))
(* The record is put in front and billed, the tail beyond MaxLog is popped. *)
Trimmed(rec) ==
    LET l == log \cup {rec}
    IN  /\ log' = Newest(l, MaxLog)
        /\ bytes' = bytes + Size[rec] - Weight(l \ Newest(l, MaxLog))

(* What a session was opened for: everything, or whatever is recorded under *)
(* the id that its instance has at the time.                               *)
Owes(s, id) == owed[s].by = {} \/ \E u \in owed[s].by : idOf[u] = id

(* addEntry, and the listener of capture-sessions *)
AddEntry(u, id) ==
    LET rec == Len(records) + 1
    IN  /\ records' = Append(records, [inst |-> u, id |-> id, late |-> id # idOf[u]])
        /\ Trimmed(rec)
        /\ order' = SweptOrder
        /\ session' = [s \in Session |->
                          IF Wants(s, id) THEN Given(Swept[s], rec) ELSE Swept[s]]
        /\ owed' = [s \in Session |->
                       IF Swept[s].status = "active" /\ Owes(s, id)
                       THEN [owed[s] EXCEPT !.records = @ \cup {rec}] ELSE SweptOwed[s]]
        /\ overdue' = {}

(* res.end, or logAbort of a request that is killed: whichever is first. *)
End(f) ==
    /\ inflight' = inflight \ {f}
    /\ IF paused THEN UNCHANGED <<logVars, sessVars>> ELSE AddEntry(f.inst, f.id)
    /\ UNCHANGED <<idOf, tunnels, paused>>

Pause(on) ==
    /\ paused' = on
    /\ UNCHANGED <<idOf, tunnels, inflight, logVars, sessVars>>

(* POST /log-clear: everything, one host's entries, or one instance's.     *)
(* An empty log costs nothing, whatever the bill said.                     *)
Cleared(gone) ==
    /\ log' = log \ gone
    /\ bytes' = IF log \subseteq gone THEN 0 ELSE bytes - Weight(log \cap gone)
    /\ UNCHANGED <<idOf, tunnels, inflight, records, paused, sessVars>>

ClearAll == Cleared(Rec)
ClearHost(u) == Cleared({rec \in DOMAIN records : records[rec].inst = u})
ClearInstance(id) == Cleared({rec \in DOMAIN records : records[rec].id = id})

---------------------------------------------------------------------------
(* Capture sessions. *)

ActiveIn(table) == {s \in Session : table[s].status = "active"}

(* Mutant of HasRoom: one session too many. *)
HasRoom_OffByOne == Cardinality(ActiveIn(Swept)) <= MaxActive
HasRoom == Cardinality(ActiveIn(Swept)) < MaxActive

(* POST /capture/start, for everything or for one live instance; 429 when  *)
(* there is no room.                                                       *)
Started(who) ==
    [status |-> "active", filter |-> {idOf[u] : u \in who}, entries |-> <<>>, dropped |-> 0]
Start(s, who) ==
    /\ s \notin Known
    /\ order' = IF HasRoom THEN SweptOrder \cup (Remaining \X {s}) ELSE SweptOrder
    /\ session' = IF HasRoom THEN [Swept EXCEPT ![s] = Started(who)] ELSE Swept
    /\ owed' = IF HasRoom
               THEN [SweptOwed EXCEPT ![s] = [by |-> who, records |-> {}]]
               ELSE SweptOwed
    /\ overdue' = {}
    /\ UNCHANGED <<idOf, tunnels, inflight, logVars, paused>>

(* POST /capture/stop: sweep, stop, evict.  The answer carries the session, *)
(* whether it is kept or not.                                              *)
Stopping(s) == [Swept EXCEPT ![s].status = IF @ = "active" THEN "stopped" ELSE @]
Stop(s) ==
    /\ s \in Remaining
    /\ Store(Stopping(s), Remaining \cap Survivors(Stopping(s)))
    /\ UNCHANGED <<idOf, tunnels, inflight, logVars, paused>>

Delete(s) ==
    /\ s \in Known
    /\ Store(Swept, Remaining \ {s})
    /\ UNCHANGED <<idOf, tunnels, inflight, logVars, paused>>

(* GET /capture, the reads of one session, and any call naming one that is *)
(* gone by the time it is swept.                                           *)
Read ==
    /\ Store(Swept, Remaining)
    /\ UNCHANGED <<idOf, tunnels, inflight, logVars, paused>>

(* Time passes.  A sweep ends whatever is overdue.                         *)
Overdue(s) ==
    /\ session[s].status = "active"
    /\ overdue' = overdue \cup {s}
    /\ UNCHANGED <<idOf, tunnels, inflight, logVars, paused, order, session, owed>>

---------------------------------------------------------------------------
(* POST /instances/:id/rename, as far as log and sessions are concerned.   *)
(* Open tunnels and requests in flight keep the id they have.              *)

(* renameInstance of the log, and of the sessions: the records of the old  *)
(* id that the log holds, and those that only a session may hold.  Records *)
(* held by neither are garbage, so they may follow too.                    *)
LoggedAs(old) == {rec \in log : records[rec].id = old}
CapturedAs(old) == {k \in DOMAIN records : records[k].id = old} \ LoggedAs(old)

Respelled(held, id) ==
    records' = [k \in DOMAIN records |->
                   IF k \in held THEN [records[k] EXCEPT !.id = id] ELSE records[k]]
Refiltered(old, id) ==
    session' = [s \in Session |->
                   IF old \in session[s].filter
                   THEN [session[s] EXCEPT !.filter = {id}] ELSE session[s]]

(* Mutant of Follow: the captured records of a session are left to the log, *)
(* which has trimmed some of them.                                         *)
Follow_LogOnly(old, id) == Respelled(LoggedAs(old), id) /\ Refiltered(old, id)
(* Mutant of Follow: captured records are followed, the log's are not.     *)
Follow_Captured(old, id) == Respelled(CapturedAs(old), id) /\ Refiltered(old, id)
Follow(old, id) == Respelled(LoggedAs(old) \cup CapturedAs(old), id) /\ Refiltered(old, id)

Rename(u, id) ==
    /\ \A v \in Inst : idOf[v] # id
    /\ idOf' = [idOf EXCEPT ![u] = id]
    /\ Follow(idOf[u], id)
    /\ UNCHANGED <<tunnels, inflight, log, bytes, paused, order, overdue, owed>>

Next ==
    \/ \E u \in Inst : Connect(u)
    \/ \E t \in tunnels : Disconnect(t)
    \/ \E r \in Request, u \in Inst, id \in Id : Begin(r, u, id)
    \/ \E f \in inflight : End(f)
    \/ \E on \in BOOLEAN : Pause(on)
    \/ ClearAll
    \/ \E u \in Inst : ClearHost(u)
    \/ \E id \in Id : ClearInstance(id)
    \/ \E s \in Session :
          \/ Start(s, {}) \/ \E u \in Inst : Start(s, {u})
          \/ Stop(s) \/ Delete(s) \/ Overdue(s)
    \/ Read
    \/ \E u \in Inst, id \in Id : Rename(u, id)

Spec == Init /\ [][Next]_vars

---------------------------------------------------------------------------
(* The bill is what is retained: trims, filtered clears and pauses add up. *)
BytesMatch == bytes = Weight(log)

(* Neither running nor finished sessions pile up, and the running ones are *)
(* exactly those that still take records.                                  *)
SessionCaps ==
    /\ Cardinality(ActiveIn(session)) <= MaxActive
    /\ Cardinality(Known \ ActiveIn(session)) <= MaxFinished

(* A session misses nothing of what it was opened for: however the log was *)
(* trimmed, cleared or renamed meanwhile, each record made, since it was    *)
(* started, under the id its instance had at the time is among its entries *)
(* or counted as dropped, and nothing else is.  What a tunnel older than   *)
(* the last rename goes on recording is under another id and is not in it; *)
(* OwnTraffic says what a client may take a session for.                   *)
CaptureComplete ==
    \A s \in Known :
        /\ Len(session[s].entries) + session[s].dropped = Cardinality(owed[s].records)
        /\ \A k \in 1..Len(session[s].entries) : session[s].entries[k] \in owed[s].records

(* After a rename the records captured so far still answer to the session's *)
(* own filter, so a query by instance finds them.                          *)
EntriesMatchFilter ==
    \A s \in Known : session[s].filter # {} =>
        \A k \in 1..Len(session[s].entries) :
            records[session[s].entries[k]].id \in session[s].filter

(* A record in the log carries the id its instance goes by now, whatever   *)
(* renames there were since it was made, unless its id was out of date      *)
(* already when it was written.                                            *)
LogFollowsRename ==
    \A rec \in log : records[rec].late \/ records[rec].id = idOf[records[rec].inst]

(* What a client may take a session for one instance for: the records of   *)
(* that instance.  The comment in onRenamed says the eviction keeps the old *)
(* id out of the log; a tunnel, or a request in flight at the rename, goes *)
(* on under it, and whoever takes the id over gets the records.            *)
OwnTraffic ==
    \A s \in Known : owed[s].by # {} =>
        \A k \in 1..Len(session[s].entries) :
            records[session[s].entries[k]].inst \in owed[s].by

(* A running session is never evicted to make room for others: it leaves   *)
(* only when it is deleted or stopped itself, or has expired.              *)
RunningIsKept ==
    [][\A s \in Session :
          session[s].status = "active" /\ s \notin overdue /\ s \notin Known'
             => Delete(s) \/ Stop(s)]_vars

(* What a session has captured stays with it: a cleared, trimmed or paused *)
(* log and a rename take no entry out of it.                               *)
EntriesOnlyGrow ==
    [][\A s \in Known \cap Known' :
          /\ Len(session'[s].entries) >= Len(session[s].entries)
          /\ \A k \in 1..Len(session[s].entries) :
                session'[s].entries[k] = session[s].entries[k]]_vars
===========================================================================
