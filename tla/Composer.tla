------------------------------ MODULE Composer ------------------------------
(***************************************************************************)
(* The request editor of one dashboard (public/js/modules/request-         *)
(* editor.js): one window for retrying a captured request and for          *)
(* composing, loading, sending and saving others.                          *)
(*                                                                         *)
(* The variables of a request that was sent are written back to the saved  *)
(* request it came from; a save goes to the collection the window was      *)
(* opened from.  Both are kept in variables of the module that the window  *)
(* shares with whatever is opened in it next, while sends and lists are    *)
(* on their way.  Of a saved request only its variables are modelled.      *)
(***************************************************************************)
EXTENDS Naturals, FiniteSets

CONSTANTS
    Request,   \* ids of saved requests, one per name
    Value,     \* what the Variables pane may hold
    Coll,      \* collections
    Patient,   \* TRUE: the user waits for every answer before going on
    MaxActs,   \* bound on what is done in the dashboard and elsewhere
    None

VARIABLES
    disk,      \* id -> the variables saved, or None when it is not there
    open,      \* the window is on the screen
    mode,      \* _mode
    saved,     \* _saved: the list fetched last, as disk
    savedId,   \* _savedId
    coll,      \* _collectionId
    pane,      \* what the Variables pane holds
    origin,    \* history: the saved request the fields are those of
    home,      \* history: the collection this request was opened from
    send,      \* the Send on its way, or None
    save,      \* the Save on its way, or None
    lists,     \* refreshSaved on its way: [selected, answer, closes]
    filed,     \* history: the last save, [to, home], or None
    acts

window == <<open, mode, savedId, coll, pane, origin, home>>
vars == <<disk, saved, window, send, save, lists, filed, acts>>

Disk == [Request -> Value \cup {None}]
Kept(d) == {r \in Request : d[r] # None}

TypeOK ==
    /\ disk \in Disk /\ saved \in Disk
    /\ open \in BOOLEAN /\ mode \in {"replay", "compose"}
    /\ {savedId, origin} \subseteq Request \cup {None}
    /\ {coll, home} \subseteq Coll \cup {None}
    /\ pane \in Value
    /\ Cardinality(lists) <= MaxActs

CONSTANT NoValue  \* an empty pane
Init ==
    /\ disk \in [Request -> Value]
    /\ saved = disk
    /\ open = FALSE /\ mode = "replay"
    /\ savedId = None /\ coll = None /\ origin = None /\ home = None
    /\ pane = NoValue
    /\ send = None /\ save = None /\ lists = {} /\ filed = None
    /\ acts = 0

Act == acts < MaxActs /\ acts' = acts + 1
(* The prompt of a Save covers the window. *)
UserActs ==
    /\ Act
    /\ save = None
    /\ Patient => send = None /\ lists = {}
Fetching(selected, closes) ==
    lists' = lists \cup {[selected |-> selected, answer |-> None, closes |-> closes, at |-> acts]}

---------------------------------------------------------------------------
(* What is opened in the window. *)

(* openReplayEditor *)
OpenReplay ==
    /\ ~open /\ UserActs
    /\ open' = TRUE /\ mode' = "replay"
    /\ savedId' = None /\ coll' = None /\ pane' = NoValue
    /\ origin' = None /\ home' = None
    /\ UNCHANGED <<disk, saved, send, save, lists, filed>>

(* openComposer, empty or from the collections screen with a request and   *)
(* the collection it is in; the list is fetched once the window is up.     *)
OpenComposer(r, c) ==
    /\ ~open /\ UserActs
    /\ r # None => r \in Kept(disk)
    /\ open' = TRUE /\ mode' = "compose"
    /\ savedId' = r /\ coll' = c
    /\ pane' = IF r = None THEN NoValue ELSE disk[r]
    /\ origin' = r /\ home' = c
    /\ Fetching(r, FALSE)
    /\ UNCHANGED <<disk, saved, send, save, filed>>

(* Mutant of Load: the collection is carried across. *)
Load_Carrying(r) ==
    /\ open /\ mode = "compose" /\ r \in Kept(saved) /\ UserActs
    /\ savedId' = r /\ pane' = saved[r]
    /\ origin' = r /\ home' = None
    /\ UNCHANGED <<disk, open, mode, saved, coll, send, save, lists, filed>>
(* Mutant of Load: the request that was loaded before stays the one loaded.*)
Load_Unnamed(r) ==
    /\ open /\ mode = "compose" /\ r \in Kept(saved) /\ UserActs
    /\ coll' = None /\ pane' = saved[r]
    /\ origin' = r /\ home' = None
    /\ UNCHANGED <<disk, open, mode, saved, savedId, send, save, lists, filed>>
(* loadSavedRequest, from the list of the window.                          *)
Load(r) ==
    /\ open /\ mode = "compose" /\ r \in Kept(saved) /\ UserActs
    /\ savedId' = r /\ coll' = None /\ pane' = saved[r]
    /\ origin' = r /\ home' = None
    /\ UNCHANGED <<disk, open, mode, saved, send, save, lists, filed>>

(* The placeholder of the list: the fields stay, as nobody's. *)
Unload ==
    /\ open /\ mode = "compose" /\ UserActs
    /\ savedId' = None /\ origin' = None
    /\ UNCHANGED <<disk, open, mode, saved, coll, pane, home, send, save, lists, filed>>

Type(v) ==
    /\ open /\ v # pane /\ UserActs
    /\ pane' = v
    /\ UNCHANGED <<disk, open, mode, saved, savedId, coll, origin, home, send, save, lists, filed>>

(* closeRequestEditor *)
Closed ==
    /\ open' = FALSE /\ savedId' = None /\ coll' = None
    /\ UNCHANGED <<mode, pane, origin, home>>
Close ==
    /\ open /\ UserActs
    /\ Closed
    /\ UNCHANGED <<disk, saved, send, save, lists, filed>>

---------------------------------------------------------------------------
(* Send. *)

(* The button is disabled until the call is through. *)
Send ==
    /\ open /\ send = None /\ UserActs
    /\ send' = [stage |-> "out", value |-> pane, origin |-> origin, to |-> None]
    /\ UNCHANGED <<disk, saved, window, save, lists, filed>>

(* Refused, failed, or not what was expected: the window stays.            *)
SendRejected ==
    /\ send # None /\ send.stage = "out"
    /\ send' = None
    /\ UNCHANGED <<disk, saved, window, save, lists, filed, acts>>

(* The answer is there: the variables go to the request that is loaded     *)
(* now, unless the list says that it has them, and the window is closed.   *)
SendReturns ==
    /\ send # None /\ send.stage = "out"
    /\ IF savedId # None /\ saved[savedId] # send.value
       THEN send' = [send EXCEPT !.stage = "write", !.to = savedId] /\ UNCHANGED window
       ELSE send' = None /\ Closed
    /\ UNCHANGED <<disk, saved, save, lists, filed, acts>>

(* persistVariables: PATCH /saved-requests/:id. *)
Persist ==
    /\ send # None /\ send.stage = "write"
    /\ disk' = IF disk[send.to] = None THEN disk ELSE [disk EXCEPT ![send.to] = send.value]
    /\ send' = [send EXCEPT !.stage = "list"]
    /\ Fetching(send.to, TRUE)
    /\ UNCHANGED <<saved, window, save, filed, acts>>

(* The PATCH cannot be sent: this is not reported. *)
PersistFails ==
    /\ send # None /\ send.stage = "write"
    /\ send' = None
    /\ Closed
    /\ UNCHANGED <<disk, saved, save, lists, filed, acts>>

---------------------------------------------------------------------------
(* Lists, saves and deletes. *)

ListServed(f) ==
    /\ f.answer = None
    /\ lists' = (lists \ {f}) \cup {[f EXCEPT !.answer = disk]}
    /\ UNCHANGED <<disk, saved, window, send, save, filed, acts>>

(* refreshSaved and fillSaved: the list, and the request to be selected,   *)
(* if it is in it; an answer that is none is an empty list.                *)
ListLands(f, d) ==
    /\ lists' = lists \ {f}
    /\ saved' = d
    /\ IF f.closes THEN Closed /\ send' = None
       ELSE /\ savedId' = IF f.selected \in Kept(d) THEN f.selected ELSE None
            /\ UNCHANGED <<open, mode, coll, pane, origin, home, send>>
    /\ UNCHANGED <<disk, save, filed, acts>>

(* saveCurrentRequest: the fields are read, then the name is asked for.    *)
Save ==
    /\ open /\ UserActs
    /\ save' = [value |-> pane, home |-> home]
    /\ UNCHANGED <<disk, saved, window, send, lists, filed>>

SaveNamed(r) ==
    /\ save # None
    /\ disk' = [disk EXCEPT ![r] = save.value]
    /\ filed' = [to |-> coll, home |-> save.home]
    /\ origin' = IF open THEN r ELSE origin
    /\ save' = None
    /\ Fetching(r, FALSE)
    /\ UNCHANGED <<saved, open, mode, savedId, coll, pane, home, send, acts>>

(* Cancelled, refused, or the server cannot be reached. *)
SaveDropped ==
    /\ save # None
    /\ save' = None
    /\ UNCHANGED <<disk, saved, window, send, lists, filed, acts>>

(* deleteSavedRequest: the fields stay in the window, as nobody's. *)
Delete ==
    /\ open /\ savedId \in Kept(saved) /\ savedId \in Kept(disk) /\ UserActs
    /\ disk' = [disk EXCEPT ![savedId] = None]
    /\ origin' = None
    /\ Fetching(None, FALSE)
    /\ UNCHANGED <<open, mode, saved, savedId, coll, pane, home, send, save, filed>>

(* Another dashboard, or a client. *)
Elsewhere(r, v) ==
    /\ Act /\ disk[r] # v
    /\ disk' = [disk EXCEPT ![r] = v]
    /\ UNCHANGED <<saved, window, send, save, lists, filed>>

User ==
    \/ OpenReplay \/ \E r \in Request \cup {None}, c \in Coll \cup {None} : OpenComposer(r, c)
    \/ \E r \in Request : Load(r)
    \/ Unload \/ Close \/ Send \/ Save \/ Delete
    \/ \E v \in Value : Type(v)

Answers ==
    \/ SendRejected \/ SendReturns \/ Persist \/ PersistFails
    \/ \E f \in lists : \/ ListServed(f)
                        \/ f.answer # None /\ ListLands(f, f.answer)
                        \/ ListLands(f, [r \in Request |-> None])
    \/ SaveDropped \/ \E r \in Request : SaveNamed(r)

Next == User \/ Answers \/ \E r \in Request, v \in Value \cup {None} : Elsewhere(r, v)

Spec == Init /\ [][Next]_vars

---------------------------------------------------------------------------
(* The variables of a Send are written back to the saved request that they *)
(* come from, and to no other one (request-editor.js, persistVariables).   *)
VariablesStayHome ==
    send # None => send.to \in {None, send.origin}

(* A save lands in the collection that its request was opened from, or, if *)
(* it was picked from the list since, in none (openComposer, Load).        *)
SavesLandHome ==
    filed # None => filed.to = filed.home
=============================================================================
