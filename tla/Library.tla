------------------------------- MODULE Library -------------------------------
(***************************************************************************)
(* Saved requests, collections, and the screen that runs them              *)
(* (utils/request-store.js, utils/collection-store.js,                     *)
(* utils/admin/{send,collections}.js, public/js/modules/collections.js).   *)
(*                                                                         *)
(* A saved request is a file; its id is a slug of its name, numbered when  *)
(* another name has the slug.  Collections are one index file that lists   *)
(* ids in order, read and written whole by every route, and editable by    *)
(* hand.  The screen works on the last answer it was given, so on ids that *)
(* may be gone, and sends a collection one request at a time by id; so do  *)
(* the command line and the test clients, on a list they have just read.   *)
(* One run is followed at a time.                                          *)
(* Labels of collections and the contents of requests are left out.        *)
(***************************************************************************)
EXTENDS Naturals, FiniteSets, SequencesExt

CONSTANTS
    Id,          \* ids of saved requests
    Name,        \* their names
    IdsOf,       \* name -> the ids save tries, in order
    Coll,        \* ids of collections, in the order create numbers them
    Inst,        \* instance ids
    Libraries,   \* what may be on disk at the start: files and an index
    MaxChanges,  \* bound on the changes made to the files
    Nothing      \* no file, no collection, no row, no run

Record == [name : Name, inst : Inst]
Batch == [by : {"screen", "script"}, sent : Seq(Id), left : Seq(Id),
          flight : {"asked", "out", "done", "failed"}, aborted : BOOLEAN]
Group == [id : Range(Coll), requests : Seq(Id)]
IsIndex(x) == x \in Seq(Group)

ASSUME LibraryAssumption ==
    /\ IsFiniteSet(Id) /\ Inst # {}
    /\ \A n \in Name : IdsOf[n] \in Seq(Id)
    /\ Coll \in Seq(Range(Coll))
    /\ \A l \in Libraries : l.files \in [Id -> Record \cup {Nothing}] /\ IsIndex(l.index)
    /\ MaxChanges \in Nat
    /\ Nothing \notin Record \cup Range(Coll) \cup Batch

VARIABLES
    files,    \* id -> the request saved under it, or Nothing
    index,    \* _collections.json: a sequence of collections with their ids
    live,     \* the instances that are configured
    data,     \* _data: the grouping the screen was given last
    run,      \* the batch of runBatch, or Nothing
    rows,     \* _run: id -> what its row says
    placed,   \* history: ids put in a collection and not deleted since
    changes   \* changes made to the files

vars == <<files, index, live, data, run, rows, placed, changes>>

TypeOK ==
    /\ files \in [Id -> Record \cup {Nothing}]
    /\ IsIndex(index) /\ IsIndex(data.collections) /\ data.ungrouped \subseteq Id
    /\ live \subseteq Inst
    /\ run = Nothing \/ (run \in Batch /\ run.sent # <<>>)
    /\ rows \in [Id -> {"", "queued", "running", "done", "failed"}]
    /\ placed \subseteq Id
    /\ changes \in 0..MaxChanges

Saved(f) == {id \in Id : f[id] # Nothing}
Members(x) == UNION {Range(x[k].requests) : k \in DOMAIN x}
Place(x, c) == SelectInSeq(x, LAMBDA g : g.id = c)
Known(x, c) == Place(x, c) # 0
ListOf(x, c) == x[Place(x, c)].requests

(* What a sequence has at the positions in P, in its order. *)
Picked(seq, P) ==
    LET upTo[k \in 0..Len(seq)] ==
            IF k = 0 THEN <<>>
            ELSE IF k \in P THEN Append(upTo[k - 1], seq[k]) ELSE upTo[k - 1]
    IN  upTo[Len(seq)]
Kept(seq, S) == Picked(seq, {k \in DOMAIN seq : seq[k] \in S})

(* Mutant of Grouped: a request listed twice is shown twice. *)
Grouped_Twice(x, f) ==
    [collections |-> [k \in DOMAIN x |->
        [x[k] EXCEPT !.requests = Kept(@, Saved(f))]],
     ungrouped |-> Saved(f) \ Members(x)]
(* groupRequests: an id without a file disappears, one that is listed more *)
(* than once stays where it is first, the rest is ungrouped.               *)
Grouped(x, f) ==
    LET claimed(k) == UNION {Range(x[l].requests) : l \in 1..(k - 1)}
        first(seq) == {j \in DOMAIN seq : \A i \in 1..(j - 1) : seq[i] # seq[j]}
        items(k, seq) ==
            Picked(seq, {j \in first(seq) : seq[j] \in Saved(f) \ claimed(k)})
    IN  [collections |-> [k \in DOMAIN x |-> [x[k] EXCEPT !.requests = items(k, @)]],
         ungrouped |-> Saved(f) \ Members(x)]

Init ==
    /\ \E l \in Libraries : files = l.files /\ index = l.index
    /\ live = {CHOOSE i \in Inst : TRUE}
    /\ data = Grouped(index, files)
    /\ run = Nothing
    /\ rows = [id \in Id |-> ""]
    /\ placed = Members(index)
    /\ changes = 0

Change == changes < MaxChanges /\ changes' = changes + 1

---------------------------------------------------------------------------
(* The routes, called by any dashboard, client or script. *)

(* Mutant of Slot: the first id is taken, whoever has it. *)
Slot_First(n) == Head(IdsOf[n])
(* save: the first id that is free, or has a request of this very name.    *)
Takes(id, n) == IF id \in Saved(files) THEN files[id].name = n ELSE TRUE
Slot(n) == IdsOf[n][SelectInSeq(IdsOf[n], LAMBDA id : Takes(id, n))]
HasSlot(n) == \E id \in Range(IdsOf[n]) : Takes(id, n)

(* assign: out of wherever it is, then in at a position, or at the end.    *)
Without(x, id) ==
    [k \in DOMAIN x |-> [x[k] EXCEPT !.requests = Kept(@, Id \ {id})]]
Assigned(x, id, c, at) ==
    [k \in DOMAIN x |->
        LET rest == Without(x, id)[k]
            n == IF at > Len(rest.requests) THEN Len(rest.requests) ELSE at
        IN  IF k = Place(x, c) THEN [rest EXCEPT !.requests = InsertAt(@, n + 1, id)] ELSE rest]

End == Cardinality(Id)  \* an index past every list: append

(* POST /saved-requests: the file is written even when the collection it   *)
(* was to go to is gone.                                                   *)
Save(n, i, c) ==
    /\ i \in live /\ HasSlot(n)
    /\ Change
    /\ files' = [files EXCEPT ![Slot(n)] = [name |-> n, inst |-> i]]
    /\ IF Known(index, c)
       THEN index' = Assigned(index, Slot(n), c, End) /\ placed' = placed \cup {Slot(n)}
       ELSE UNCHANGED <<index, placed>>
    /\ UNCHANGED <<live, data, run, rows>>

(* PATCH /saved-requests/:id: saved again, under its name. *)
Patch(id) ==
    /\ files[id] # Nothing /\ HasSlot(files[id].name)
    /\ Change
    /\ files' = [files EXCEPT ![Slot(files[id].name)] = files[id]]
    /\ UNCHANGED <<index, live, data, run, rows, placed>>

(* Mutant of Forgotten: the index is left alone. *)
Forgotten_Not(id) == UNCHANGED index
(* removeRequest *)
Forgotten(id) == index' = Without(index, id)

(* DELETE /saved-requests/:id; the screen clears the row of one it deletes.*)
Delete(id, here) ==
    /\ files[id] # Nothing
    /\ Change
    /\ files' = [files EXCEPT ![id] = Nothing]
    /\ Forgotten(id)
    /\ placed' = placed \ {id}
    /\ rows' = IF here THEN [rows EXCEPT ![id] = ""] ELSE rows
    /\ UNCHANGED <<live, data, run>>

(* The process dies between the file and the index. *)
DeleteDies(id) ==
    /\ files[id] # Nothing
    /\ Change
    /\ files' = [files EXCEPT ![id] = Nothing]
    /\ UNCHANGED <<index, live, data, run, rows, placed>>

(* create: under the first id nobody has. *)
Created(x) ==
    LET k == SelectInSeq(Coll, LAMBDA c : ~Known(x, c))
    IN  Append(x, [id |-> Coll[k], requests |-> <<>>])

CreateCollection ==
    /\ \E c \in Range(Coll) : ~Known(index, c)
    /\ index' = Created(index)
    /\ Change
    /\ UNCHANGED <<files, live, data, run, rows, placed>>

Uncollected(x, c) == Picked(x, {k \in DOMAIN x : x[k].id # c})

(* The requests of a deleted collection are kept, ungrouped. *)
RemoveCollection(c) ==
    /\ Known(index, c)
    /\ Change
    /\ index' = Uncollected(index, c)
    /\ UNCHANGED <<files, live, data, run, rows, placed>>

(* POST /collections/assign *)
Assign(id, c, at) ==
    /\ files[id] # Nothing
    /\ c = Nothing \/ Known(index, c)
    /\ Change
    /\ index' = Assigned(index, id, c, at)
    /\ placed' = IF c = Nothing THEN placed \ {id} ELSE placed \cup {id}
    /\ UNCHANGED <<files, live, data, run, rows>>

(* POST /instances/:id/rename repoints the files; removing one does not.   *)
RenameInstance(i, j) ==
    /\ i \in live /\ j \notin live
    /\ Change
    /\ live' = (live \ {i}) \cup {j}
    /\ files' = [id \in Id |-> IF id \in Saved(files) /\ files[id].inst = i
                               THEN [files[id] EXCEPT !.inst = j] ELSE files[id]]
    /\ UNCHANGED <<index, data, run, rows, placed>>

RemoveInstance(i) ==
    /\ i \in live
    /\ Change
    /\ live' = live \ {i}
    /\ UNCHANGED <<files, index, data, run, rows, placed>>

---------------------------------------------------------------------------
(* The screen. *)

(* GET /collections *)
Listed == Grouped(index, files)

(* refreshCollections, after each change of its own and on opening; what   *)
(* happens until the answer is there, and elsewhere, it does not know.     *)
Refresh ==
    /\ data' = Listed
    /\ UNCHANGED <<files, index, live, run, rows, placed, changes>>

(* Mutant of DropIndex: the index is not corrected. *)
DropIndex_AsIs(id, c, p) == p
(* dropTarget and handleDrop: the index is counted among the rows that the *)
(* search shows, and is one less when the row moves down in its own group. *)
DropIndex(id, c, p) ==
    LET own == ListOf(data.collections, c)
    IN  IF id \in Range(own) /\ SelectInSeq(own, LAMBDA x : x = id) - 1 < p THEN p - 1 ELSE p

(* id is dropped on the half of row r of collection c. *)
Drop(id, c, r, half, shown) ==
    /\ Known(data.collections, c) /\ id # r
    /\ id \in shown /\ id \in Members(data.collections) \cup data.ungrouped
    /\ LET visible == Kept(ListOf(data.collections, c), shown)
           row == SelectInSeq(visible, LAMBDA x : x = r)
           at == DropIndex(id, c, IF half = "before" THEN row - 1 ELSE row)
       IN  /\ row # 0
           /\ ~\E k \in DOMAIN ListOf(data.collections, c) :
                   ListOf(data.collections, c)[k] = id /\ k - 1 = at
           /\ Assign(id, c, at)

Started(list, by) ==
    /\ run = Nothing /\ list # <<>>
    /\ run' = [by |-> by, sent |-> <<Head(list)>>, left |-> Tail(list),
               flight |-> "asked", aborted |-> FALSE]
    /\ UNCHANGED <<files, index, live, data, placed, changes>>

(* runBatch: the list is the one on the screen; the first goes out.        *)
RunBatch(list) ==
    /\ Started(list, "screen")
    /\ rows' = [id \in Id |-> IF id = Head(list) THEN "running"
                              ELSE IF id \in Range(list) THEN "queued" ELSE rows[id]]

(* cmdRun, and runCollection of a client: a collection by its id, as GET   *)
(* /collections groups it; or one saved request; or every one, in an order *)
(* that is left open.  Every request is sent, whatever became of the one   *)
(* before it.                                                              *)
RunCollection(c) ==
    /\ Known(index, c)
    /\ Started(ListOf(Listed.collections, c), "script")
    /\ UNCHANGED rows

RunOne(id) == files[id] # Nothing /\ Started(<<id>>, "script") /\ UNCHANGED rows

RunAll ==
    /\ Started(SetToSeq(Saved(files)), "script")
    /\ UNCHANGED rows

(* POST /saved-requests/:id/send: refused without the file or the instance.*)
SendArrives ==
    /\ run # Nothing /\ run.flight = "asked"
    /\ LET id == Last(run.sent)
           sent == IF id \in Saved(files) THEN files[id].inst \in live ELSE FALSE
       IN  run' = [run EXCEPT !.flight = IF sent THEN "out" ELSE "failed"]
    /\ UNCHANGED <<files, index, live, data, rows, placed, changes>>

(* An answer, or SSL proxying is off, or the upstream failed or timed out. *)
SendAnswered ==
    /\ run # Nothing /\ run.flight = "out"
    /\ \E said \in {"done", "failed"} : run' = [run EXCEPT !.flight = said]
    /\ UNCHANGED <<files, index, live, data, rows, placed, changes>>

(* The rows are the screen's; a script prints its own. *)
Said(id, what) == IF run.by = "screen" THEN [rows EXCEPT ![id] = what] ELSE rows

(* Mutant of Advance: a failed request ends the run without its Stop.      *)
Advance_Giveup ==
    /\ run # Nothing /\ run.flight \in {"done", "failed"}
    /\ rows' = Said(Last(run.sent), run.flight)
    /\ run' = Nothing
    /\ UNCHANGED <<files, index, live, data, placed, changes>>
(* The await of runBatch returns: the row says so, and the next request    *)
(* goes out; after Stop the rows of the others are cleared instead.        *)
AdvanceScreen ==
    LET said == Said(Last(run.sent), run.flight)
    IN  IF run.aborted \/ run.left = <<>>
        THEN /\ run' = Nothing
             /\ rows' = [id \in Id |-> IF id \in Range(run.left) THEN "" ELSE said[id]]
        ELSE /\ run' = [run EXCEPT !.sent = Append(@, Head(run.left)), !.left = Tail(@),
                                   !.flight = "asked"]
             /\ rows' = [said EXCEPT ![Head(run.left)] = "running"]

(* The loop of cmdRun, of runCollection. *)
AdvanceScript ==
    /\ run' = IF run.left = <<>> THEN Nothing
              ELSE [run EXCEPT !.sent = Append(@, Head(run.left)), !.left = Tail(@),
                               !.flight = "asked"]
    /\ UNCHANGED rows

Advance ==
    /\ run # Nothing /\ run.flight \in {"done", "failed"}
    /\ IF run.by = "screen" THEN AdvanceScreen ELSE AdvanceScript
    /\ UNCHANGED <<files, index, live, data, placed, changes>>

Stop ==
    /\ run # Nothing /\ run.by = "screen"
    /\ run' = [run EXCEPT !.aborted = TRUE]
    /\ UNCHANGED <<files, index, live, data, rows, placed, changes>>

Routes ==
    \/ \E n \in Name, i \in Inst, c \in Range(Coll) \cup {Nothing} : Save(n, i, c)
    \/ \E id \in Id :
          \/ Patch(id) \/ DeleteDies(id)
          \/ \E here \in BOOLEAN : Delete(id, here)
          \/ \E c \in Range(Coll) \cup {Nothing} : Assign(id, c, End)
    \/ CreateCollection
    \/ \E c \in Range(Coll) : RemoveCollection(c)
    \/ \E i \in Inst : RemoveInstance(i) \/ \E j \in Inst : RenameInstance(i, j)

Screen ==
    \/ Refresh
    \/ \E id, r \in Id, c \in Range(Coll), half \in {"before", "after"}, shown \in SUBSET Id :
          Drop(id, c, r, half, shown)
    \/ \E k \in DOMAIN data.collections : RunBatch(data.collections[k].requests)
    \/ \E id \in data.ungrouped : RunBatch(<<id>>)
    \/ Stop

(* Bound: a script is followed as long as the screen shows no row of a run *)
(* of its own, which the script would leave as it is.                      *)
Scripts ==
    /\ \A id \in Id : rows[id] = ""
    /\ \/ \E c \in Range(Coll) : RunCollection(c)
       \/ \E id \in Id : RunOne(id)
       \/ RunAll

Running == SendArrives \/ SendAnswered \/ Advance

Next == Routes \/ Screen \/ Scripts \/ Running

(* The proxy answers or gives up after 30 s, and the loop goes on. *)
Spec == Init /\ [][Next]_vars

---------------------------------------------------------------------------
(* However the index was edited, a run sends no request twice, and none    *)
(* that is still to be sent has been (collection-store.js, on reading).    *)
RunsOnce ==
    run # Nothing => IsInjective(run.sent \o run.left)

(* A row says it is waiting or on its way only while the run that will     *)
(* clear it is going on, whatever was deleted or stopped meanwhile.        *)
RowsTellTheRun ==
    \A id \in Id :
        rows[id] \in {"queued", "running"} =>
            /\ run # Nothing /\ run.by = "screen"
            /\ IF rows[id] = "queued" THEN id \in Range(run.left) ELSE id = Last(run.sent)

(* A request is in a collection only if it was put there: one that gets a  *)
(* deleted request's id does not inherit its place (a delete cut short by  *)
(* a crash aside).                                                         *)
PlacedByHand == Members(index) \cap Saved(files) \subseteq placed

(* A save never takes the file of a request of another name. *)
KeepsItsName ==
    [][\A id \in Saved(files) \cap Saved(files') : files'[id].name = files[id].name]_vars

(* Whether an id stands right before or after another in a list. *)
Beside(list, id, r, half) ==
    LET a == SelectInSeq(list, LAMBDA x : x = id)
        b == SelectInSeq(list, LAMBDA x : x = r)
    IN  a # 0 /\ b # 0 /\ (IF half = "before" THEN a + 1 = b ELSE b + 1 = a)

(* On a screen that shows all there is and as it is, a request dropped on  *)
(* the top half of a row lands right before that row, on the bottom half   *)
(* right after it, from wherever it is dragged.  (With a search the index  *)
(* is counted among the rows that match, and the request lands elsewhere.) *)
DropLands ==
    [][index' # index /\ files' = files /\ data = Grouped(index, files)
         /\ data.collections = index =>
          \A id, r \in Id, c \in Range(Coll), half \in {"before", "after"} :
             Drop(id, c, r, half, Id) => Beside(ListOf(index', c), id, r, half)]_vars

(* Saving over a request of the same name is an update: there are never    *)
(* two files of one name (request-store.js, on save).                      *)
NamesAreUnique ==
    \A id, other \in Saved(files) : files[id].name = files[other].name => id = other
=============================================================================
