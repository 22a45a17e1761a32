------------------------------ MODULE HostView ------------------------------
(***************************************************************************)
(* The copy of the host registry that the dashboard keeps                  *)
(* (public/js/modules/entries.js, utils/admin/{hosts,activity}.js).        *)
(*                                                                         *)
(* The dashboard folds the frames of its EventSource into its list,        *)
(* replaces the list by the answer of GET /hosts, and edits it when one of *)
(* its own calls is answered.  Frames and answers travel on different      *)
(* connections, so one may overtake the other.                             *)
(***************************************************************************)
EXTENDS HostRegistry, Sequences

CONSTANT MaxFrames  \* frames the socket of a dashboard holds before it is given up

ASSUME ViewAssumption == MaxFrames \in Nat \ {0}

VARIABLES
    online,  \* the EventSource is connected
    frames,  \* frames on their way, oldest first
    answer,  \* the answer on its way, at most one
    view,    \* state.hosts
    skewed   \* history: the view missed something of the stream

client   == <<online, frames, answer, view, skewed>>
viewVars == <<vars, client>>

(* What GET /hosts, DELETE /hosts/:host and POST /log-clear are answered. *)
IsAnswer(a) ==
    \/ a.kind = "hosts" /\ IsList(a.list)
    \/ a.kind \in {"forgot", "cleared"} /\ a.host \in Host
    \/ a.kind = "clearedAll"

ViewTypeOK ==
    /\ TypeOK
    /\ online \in BOOLEAN /\ skewed \in BOOLEAN
    /\ \A k \in 1..Len(frames) : IsList(frames[k])
    /\ Cardinality(answer) <= 1 /\ \A a \in answer : IsAnswer(a)
    /\ IsList(view)

ViewInit ==
    /\ Init
    /\ online = TRUE
    /\ frames = <<>>
    /\ answer = {}
    /\ view = [h \in {} |-> 0]
    /\ skewed = FALSE

---------------------------------------------------------------------------
(* What the server does with no call of the dashboard. *)

Elsewhere ==
    /\ \E h \in Host :
          \/ Seen(h) \/ Dial(h) \/ NoteRequest(h) \/ Close(h)
          \/ h \in Known /\ ClearCounters(h)
          \/ \E o \in Opinion : SetOpinion(h, o)
    /\ UNCHANGED client

(* The server or the network gives the connection up; what the socket has  *)
(* buffered is lost with it.                                               *)
Dropped ==
    /\ online' = FALSE
    /\ frames' = <<>>

(* writeToClient: a dashboard that does not drain its socket is evicted    *)
(* instead of being written to.                                            *)
WriteToClient(list) ==
    \/ Len(frames) < MaxFrames /\ frames' = Append(frames, list) /\ UNCHANGED <<online, skewed>>
    \/ Len(frames) = MaxFrames /\ Dropped /\ skewed' = TRUE

(* Mutant of Broadcast: a full socket costs the frame, not the connection. *)
Broadcast_Skip ==
    /\ Flush
    /\ IF dirty # {} /\ online /\ Len(frames) < MaxFrames
       THEN frames' = Append(frames, Only(hosts, dirty)) /\ UNCHANGED <<online, skewed>>
       ELSE UNCHANGED <<online, frames>> /\ skewed' = (skewed \/ (dirty # {} /\ ~online))
    /\ UNCHANGED <<answer, view>>
Broadcast ==
    /\ Flush
    /\ IF dirty = {} THEN UNCHANGED <<online, frames, skewed>>
       ELSE IF online THEN WriteToClient(Only(hosts, dirty))
       ELSE skewed' = TRUE /\ UNCHANGED <<online, frames>>
    /\ UNCHANGED <<answer, view>>

(* The process dies and boots; the view stays on the screen. *)
Crash ==
    /\ Restart
    /\ online' = FALSE
    /\ frames' = <<>>
    /\ answer' = {}
    /\ skewed' = TRUE
    /\ UNCHANGED view

---------------------------------------------------------------------------
(* The dashboard's calls: what the server does, and the answer it sends. *)

Serve(a) == answer = {} /\ answer' = {a} /\ UNCHANGED <<online, frames, view>>

(* A fetch starts afresh: frames already sent are older than its answer.   *)
FetchHosts ==
    /\ Serve([kind |-> "hosts", list |-> hosts])
    /\ skewed' = FALSE
    /\ UNCHANGED vars

ForgetHost(h) == Serve([kind |-> "forgot", host |-> h]) /\ Forget(h) /\ UNCHANGED skewed

ClearHost(h) ==
    /\ Serve([kind |-> "cleared", host |-> h])
    /\ h \in Known
    /\ ClearCounters(h)
    /\ UNCHANGED skewed

(* POST /log-clear for everything: the registry is not told. *)
ClearAll == Serve([kind |-> "clearedAll"]) /\ UNCHANGED <<vars, skewed>>

---------------------------------------------------------------------------
(* The dashboard's side. *)

(* forgetHost and clearEntries, on the list of the screen *)
Without(h) == Only(view, Host \ {h})
Zeroed(S) == [h \in DOMAIN view |-> IF h \in S THEN [view[h] EXCEPT !.hits = 0] ELSE view[h]]

(* An answer arrives.  After clearing everything the view differs from the *)
(* registry, which has kept its counters.                                  *)
Receive(a) ==
    /\ answer' = {}
    /\ view' = CASE a.kind = "hosts"      -> a.list
                 [] a.kind = "forgot"     -> Without(a.host)
                 [] a.kind = "cleared"    -> Zeroed({a.host})
                 [] a.kind = "clearedAll" -> Zeroed(Host)
    /\ skewed' = (skewed \/ a.kind = "clearedAll")
    /\ UNCHANGED <<vars, online, frames>>

(* mergeHosts, on a frame that arrives; if it has overtaken an answer,     *)
(* that answer may undo it.                                                *)
ReceiveFrame ==
    /\ frames # <<>>
    /\ view' = Merge(view, Head(frames))
    /\ frames' = Tail(frames)
    /\ skewed' = (skewed \/ answer # {})
    /\ UNCHANGED <<vars, online, answer>>

(* The stream drops, by itself or because a ping of the heartbeat found    *)
(* the socket dead or full, and comes back; nothing is fetched again.      *)
Disconnect ==
    /\ online
    /\ Dropped
    /\ skewed' = (skewed \/ frames # <<>>)
    /\ UNCHANGED <<vars, answer, view>>

Reconnect ==
    /\ ~online
    /\ online' = TRUE
    /\ UNCHANGED <<vars, frames, answer, view, skewed>>

ViewNext ==
    \/ Elsewhere \/ Broadcast \/ Crash
    \/ FetchHosts \/ ClearAll \/ \E h \in Host : ForgetHost(h) \/ ClearHost(h)
    \/ \E a \in answer : Receive(a)
    \/ ReceiveFrame \/ Disconnect \/ Reconnect

ViewSpec == ViewInit /\ [][ViewNext]_viewVars
---------------------------------------------------------------------------
(* Once the stream is quiet, a dashboard that missed nothing of it, and    *)
(* has not cleared everything, shows every host as the registry has it:    *)
(* coalescing, eviction, forgetting and clearing lose no update.           *)
ViewCatchesUp ==
    ~armed /\ frames = <<>> /\ answer = {} /\ ~skewed =>
        \A h \in Known : h \in DOMAIN view /\ view[h] = hosts[h]

(* Clearing the log clears the counters with it: a dashboard that clears   *)
(* everything while nothing else happens ends up showing what the registry *)
(* has.                                                                    *)
ClearIsPaired ==
    [][\A a \in answer : Receive(a) /\ a.kind = "clearedAll" =>
          \A h \in Known \cap DOMAIN view :
             ~armed /\ frames = <<>> /\ view[h] = hosts[h] => view'[h] = hosts[h]]_viewVars
=============================================================================
