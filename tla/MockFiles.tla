------------------------------ MODULE MockFiles ------------------------------
(***************************************************************************)
(* Mock files, the cache of the loader, scopes and toggles                 *)
(* (utils/mock-loader.js, utils/mock-scope.js, utils/admin/mocks.js,       *)
(* utils/admin/toggles.js, the rename route of utils/admin/instances.js).  *)
(*                                                                         *)
(* A .mock.js file holds one mock or several; a mock may name the          *)
(* instances it is for.  The registry is loaded from disk on demand and    *)
(* kept until a write through the API or an event of the file watcher      *)
(* invalidates it.  The watcher is started after the files have been read, *)
(* and knows a mock file by the name the event gives; what happens to the  *)
(* files in between, or is announced under another name, it misses.  An id *)
(* lives in three places - the instance list, the toggles, and the files - *)
(* which a rename has to move together.                                    *)
(*                                                                         *)
(* A file is a sequence of mocks; one that exists and does not load is     *)
(* the empty sequence.  JavaScript source is seen through what a line      *)
(* editor can do to it: a "multi" mock has its servers array spread over   *)
(* several lines, where setMockServers does not see it.                    *)
(***************************************************************************)
EXTENDS Naturals, FiniteSets, SequencesExt

CONSTANTS
    Id,         \* instance ids
    Name,       \* mock names
    FileOrder,  \* the file names, in the order the directory lists them
    CopyOf,     \* file -> the names duplicate-mock tries for its copy, in order
    Contents,   \* what an editor, or POST /save-mock, puts in a file
    MaxWrites,  \* bound on the changes made to files, renames of instances aside
    Absent      \* no such file

File == Range(FileOrder)
MockEntry == [name : Name, scope : SUBSET Id, multi : BOOLEAN]

ASSUME MockFilesAssumption ==
    /\ FileOrder \in Seq(File) /\ CopyOf \in [File -> Seq(File)]
    /\ Contents \subseteq Seq(MockEntry) /\ Absent \notin Seq(MockEntry)
    /\ MaxWrites \in Nat

VARIABLES
    disk,      \* file -> its mocks, or Absent
    cache,     \* _cache: the mocks loaded last, each with its file
    valid,     \* _cacheValid
    starting,  \* loadMocks has read the files and is about to start the watcher
    watching,  \* a watcher is running
    pending,   \* the watcher has an event to deliver
    missed,    \* history: of a change since the last load there will be no event
    live,      \* serverConfigs
    on,        \* store.instanceStatus: id -> mocks switched on
    writes     \* changes made to files, through the API or behind its back

loaderVars == <<cache, valid, starting, watching, pending, missed>>
filesVars == <<disk, cache, valid, starting, watching, pending, missed, live, on, writes>>

FilesTypeOK ==
    /\ \A f \in File : disk[f] = Absent \/ \A k \in DOMAIN disk[f] : disk[f][k] \in MockEntry
    /\ \A x \in {valid, starting, watching, pending, missed} : x \in BOOLEAN
    /\ live \subseteq Id
    /\ on \in [Id -> SUBSET Name] /\ \A i \in Id \ live : on[i] = {}
    /\ writes \in 0..MaxWrites

(* The registry _loadFromDisk builds: files in order, mocks in file order. *)
Entries(d, f) ==
    IF d[f] = Absent THEN <<>>
    ELSE [k \in DOMAIN d[f] |-> [file |-> f, name |-> d[f][k].name, scope |-> d[f][k].scope]]
OnDisk(d) == FlattenSeq([k \in DOMAIN FileOrder |-> Entries(d, FileOrder[k])])

InScope(m, i) == m.scope = {} \/ i \in m.scope

FilesInit ==
    /\ disk \in [File -> {Absent} \cup Contents]
    /\ cache = <<>> /\ valid = FALSE
    /\ starting = FALSE /\ watching = FALSE /\ pending = FALSE /\ missed = FALSE
    /\ live \in {S \in SUBSET Id : S # {}}
    /\ on = [i \in Id |-> {}]
    /\ writes = 0

---------------------------------------------------------------------------
(* The loader. *)

(* _loadFromDisk, unless the cache will do. *)
Registry == IF valid THEN cache ELSE OnDisk(disk)

(* loadMocks, up to the start of a watcher: what every reader of the       *)
(* registry does to the loader.                                            *)
Load ==
    /\ cache' = Registry /\ valid' = TRUE
    /\ starting' = (~valid /\ ~watching)
    /\ missed' = (valid /\ missed)
    /\ UNCHANGED <<watching, pending>>

(* _startWatcher.  A watcher that cannot be started is only logged. *)
StartWatcher ==
    /\ starting
    /\ starting' = FALSE /\ watching' \in BOOLEAN
    /\ UNCHANGED <<disk, cache, valid, pending, missed, live, on, writes>>

(* A write of the server's own: loadMocks.invalidate(), and the watcher    *)
(* sees it as well.                                                        *)
Invalidated == valid' = FALSE /\ missed' = FALSE
Written(d) ==
    /\ disk' = d
    /\ Invalidated
    /\ pending' = (pending \/ watching)
    /\ UNCHANGED <<cache, starting, watching>>

(* A write of a route on files. *)
Stored(d) ==
    /\ writes < MaxWrites /\ writes' = writes + 1
    /\ Written(d)
    /\ UNCHANGED <<live, on>>

List == Load /\ UNCHANGED <<disk, live, on, writes>>

(* An editor, a checkout or a git pull changes, adds or removes a file,    *)
(* also right after the loader has read it.  A file that comes or goes     *)
(* with its folder may be announced under the folder's name.               *)
Edit(f, content, byName) ==
    /\ writes < MaxWrites
    /\ disk[f] # content /\ (byName \/ Absent \in {disk[f], content})
    /\ disk' = [disk EXCEPT ![f] = content]
    /\ pending' = (pending \/ (watching /\ byName))
    /\ missed' = (missed \/ (valid /\ (starting \/ ~byName)))
    /\ writes' = writes + 1
    /\ UNCHANGED <<cache, valid, starting, watching, live, on>>

(* Mutant of WatchEvent: the event leaves the cache valid. *)
WatchEvent_Deaf == pending /\ pending' = FALSE
                   /\ UNCHANGED <<disk, cache, valid, starting, watching, missed, live, on, writes>>
(* An event of a name that ends in .mock.js; others are dropped. *)
WatchEvent ==
    /\ pending
    /\ pending' = FALSE /\ Invalidated
    /\ UNCHANGED <<disk, cache, starting, watching, live, on, writes>>

(* The watcher reports an error and is dropped, its events with it.  The    *)
(* cache stays valid: the next watcher starts with the next load.          *)
WatchFails ==
    /\ watching
    /\ watching' = FALSE /\ pending' = FALSE
    /\ UNCHANGED <<disk, cache, valid, starting, missed, live, on, writes>>

---------------------------------------------------------------------------
(* The routes on files. *)

Exists(f) == disk[f] # Absent

SaveMock(f, content) ==
    /\ Exists(f)
    /\ Stored([disk EXCEPT ![f] = content])

CreateMock(f, n) ==
    /\ ~Exists(f)
    /\ Stored([disk EXCEPT ![f] = <<[name |-> n, scope |-> {}, multi |-> FALSE]>>])

DeleteMock(f) ==
    /\ Exists(f)
    /\ Stored([disk EXCEPT ![f] = Absent])

(* renameSync: a file that has the new name already is replaced. *)
RenameMock(f, g) ==
    /\ Exists(f)
    /\ Stored([disk EXCEPT ![f] = Absent, ![g] = disk[f]])

(* The first free name; the copy keeps the names of the mocks inside. *)
DuplicateMock(f) ==
    /\ Exists(f)
    /\ \E k \in DOMAIN CopyOf[f] :
          /\ ~Exists(CopyOf[f][k]) /\ \A j \in 1..(k - 1) : Exists(CopyOf[f][j])
          /\ Stored([disk EXCEPT ![CopyOf[f][k]] = disk[f]])

(* setMockServers on a file's text: the first mock of that name is found   *)
(* by its name line, or the rewrite fails.  An array on several lines is   *)
(* not recognised: the line put in front of it is shadowed by it.          *)
Named(content, n) == {k \in DOMAIN content : content[k].name = n}
SetMockServers(content, n, scope) ==
    [k \in DOMAIN content |->
        IF k = Min(Named(content, n)) /\ ~content[k].multi
        THEN [content[k] EXCEPT !.scope = scope] ELSE content[k]]

(* Only known ids are kept, and none or all of them means every instance.  *)
ScopeFor(ids) ==
    LET known == ids \cap live IN IF Cardinality(known) < Cardinality(live) THEN known ELSE {}

MockScope(f, n, ids) ==
    /\ Exists(f) /\ Named(disk[f], n) # {}
    /\ Stored([disk EXCEPT ![f] = SetMockServers(@, n, ScopeFor(ids))])

---------------------------------------------------------------------------
(* The toggles. *)

Switched(i, names, up) ==
    on' = [on EXCEPT ![i] = IF up THEN @ \cup names ELSE @ \ names]

(* mockByName: the first of that name, wherever it applies *)
FirstOf(reg, n) == {k \in DOMAIN reg : reg[k].name = n /\ \A j \in 1..(k - 1) : reg[j].name # n}

Toggle(i, n, up) ==
    /\ i \in live
    /\ LET reg == Registry IN \E k \in FirstOf(reg, n) : InScope(reg[k], i)
    /\ Load /\ Switched(i, {n}, up)
    /\ UNCHANGED <<disk, live, writes>>

(* Names nobody has are stored with the others. *)
ToggleBulk(i, names, up) ==
    /\ i \in live
    /\ Load
    /\ LET reg == Registry
       IN  Switched(i, {n \in names : \A k \in FirstOf(reg, n) : InScope(reg[k], i)}, up)
    /\ UNCHANGED <<disk, live, writes>>

(* cmdBulk of the command line: the names of a folder, as an earlier call  *)
(* for the registry had them; some may be gone by now.                     *)
CmdBulk(i, up) == ToggleBulk(i, Name, up)

ToggleByPath(i, f, up) ==
    /\ i \in live
    /\ LET reg == Registry
       IN  \E k \in DOMAIN reg :
              /\ reg[k].file = f /\ \A j \in 1..(k - 1) : reg[j].file # f
              /\ Switched(i, {reg[k].name}, up)
    /\ Load
    /\ UNCHANGED <<disk, live, writes>>

---------------------------------------------------------------------------
(* Instances. *)

AddInstance(i) ==
    /\ i \notin live
    /\ live' = live \cup {i}
    /\ UNCHANGED <<disk, loaderVars, on, writes>>

(* Files that name the instance go on naming it. *)
RemoveInstance(i) ==
    /\ i \in live
    /\ live' = live \ {i} /\ on' = [on EXCEPT ![i] = {}]
    /\ UNCHANGED <<disk, loaderVars, writes>>

Affected(i) == {m \in Range(Registry) : i \in m.scope}
Respelled(scope, i, j) == {IF x = i THEN j ELSE x : x \in scope}

(* planScopeRewrites fails when a mock of the registry is not where it was *)
(* loaded from.                                                            *)
Plannable(i) ==
    \A m \in Affected(i) : Exists(m.file) /\ Named(disk[m.file], m.name) # {}

(* The content of f once mock m has been rewritten in it, if it is one of  *)
(* f's that names the old id.                                              *)
Rescoped(content, m, f, i, j) ==
    IF m.file = f /\ i \in m.scope
    THEN SetMockServers(content, m.name, Respelled(m.scope, i, j)) ELSE content

(* Mutant of Rewritten: each rewrite starts from the file as it is on disk,*)
(* so only the last mock of a file is rescoped.                            *)
Rewritten_Alone(f, i, j) ==
    LET own == {k \in DOMAIN Registry : Registry[k].file = f /\ i \in Registry[k].scope}
    IN  Rescoped(disk[f], Registry[Max(own)], f, i, j)
(* What a file is to say after the rename: each mock of the registry that   *)
(* names the old id, rewritten in turn to the scope the registry has.      *)
Rewritten(f, i, j) ==
    LET after[k \in 0..Len(Registry)] ==
            IF k = 0 THEN disk[f] ELSE Rescoped(after[k - 1], Registry[k], f, i, j)
    IN  after[Len(Registry)]
Planned(i) == {m.file : m \in Affected(i)}

ReKeyed(i, j) ==
    /\ live' = (live \ {i}) \cup {j}
    /\ on' = [on EXCEPT ![j] = on[i], ![i] = {}]

(* The files are written and the registry invalidated after it was loaded  *)
(* for the plan, which may have started a watcher.                         *)
WrittenAfterLoad(d) ==
    /\ disk' = d
    /\ cache' = Registry /\ Invalidated
    /\ watching' \in IF valid \/ watching THEN {watching} ELSE BOOLEAN
    /\ pending' = (pending \/ watching')
    /\ UNCHANGED starting

(* POST /instances/:id/rename *)
Rename(i, j) ==
    /\ i \in live /\ j \notin live
    /\ Plannable(i)
    /\ ReKeyed(i, j)
    /\ IF Planned(i) = {}
       THEN Load /\ UNCHANGED disk
       ELSE WrittenAfterLoad([f \in File |-> IF f \in Planned(i) THEN Rewritten(f, i, j)
                                             ELSE disk[f]])
    /\ UNCHANGED writes

Restarted == /\ cache' = <<>> /\ Invalidated
             /\ starting' = FALSE /\ watching' = FALSE /\ pending' = FALSE

(* The process dies after the new id is saved: some files are rewritten,   *)
(* one is perhaps cut short.                                               *)
RenameDies(i, j) ==
    /\ i \in live /\ j \notin live
    /\ Plannable(i)
    /\ ReKeyed(i, j)
    /\ \E done \in SUBSET Planned(i), torn \in SUBSET Planned(i) :
          /\ Cardinality(torn) <= 1 /\ done \cap torn = {}
          /\ done \cup torn # Planned(i) \/ torn # {}
          /\ disk' = [f \in File |-> IF f \in torn THEN <<>>
                                     ELSE IF f \in done THEN Rewritten(f, i, j) ELSE disk[f]]
    /\ Restarted
    /\ UNCHANGED writes

Restart == Restarted /\ UNCHANGED <<disk, live, on, writes>>

OnFile(f) ==
    \/ \E c \in Contents : SaveMock(f, c)
    \/ \E n \in Name : CreateMock(f, n)
    \/ \E n \in Name, ids \in SUBSET Id : MockScope(f, n, ids)
    \/ \E g \in File \ {f} : RenameMock(f, g)
    \/ DeleteMock(f) \/ DuplicateMock(f)

OnInstance(i) ==
    \/ \E n \in Name : Toggle(i, n, TRUE)
    \/ \E up \in BOOLEAN : CmdBulk(i, up)
    \/ \E f \in File : ToggleByPath(i, f, TRUE)
    \/ AddInstance(i) \/ RemoveInstance(i)
    \/ \E j \in Id : Rename(i, j) \/ RenameDies(i, j)

(* loadMocks is synchronous: between reading and starting the watcher only *)
(* others than this process act, or it dies.                               *)
FilesNext ==
    \/ StartWatcher \/ Restart
    \/ \E f \in File, c \in Contents \cup {Absent}, byName \in BOOLEAN : Edit(f, c, byName)
    \/ ~starting /\ \/ List \/ WatchEvent \/ WatchFails
                    \/ \E f \in File : OnFile(f)
                    \/ \E i \in Id : OnInstance(i)

FilesSpec == FilesInit /\ [][FilesNext]_filesVars

---------------------------------------------------------------------------
(* A registry that is in use while the watcher runs and has nothing to     *)
(* report is what the files say, whoever wrote them and in whatever order  *)
(* loads, writes, events, failures of the watcher and restarts happened -  *)
(* unless a file changed since the load before the watcher was started, or *)
(* under another name than its own.  (After a failure of the watcher the   *)
(* cache may be stale until the next write.)                               *)
CacheFresh ==
    valid /\ watching /\ ~pending /\ ~missed => cache = OnDisk(disk)

(* "The cache is automatically invalidated when any .mock.js file in the   *)
(* directory changes" (mock-loader.js:82): not one that changes between    *)
(* the load and the start of the watcher, nor one that comes or goes under *)
(* its folder's name (LateWatch.cfg).                                      *)
AlwaysFresh ==
    valid /\ watching /\ ~pending => cache = OnDisk(disk)

(* The mocks that answer for instance i. *)
Answering(i) ==
    {<<m.file, m.name>> : m \in {e \in Range(OnDisk(disk)) : InScope(e, i) /\ e.name \in on[i]}}

(* Where the editor looks for a mock of the instance, at the first of its  *)
(* name in the file, there is one that is not written the way the editor   *)
(* does not see.  (mock-scope.js states the limit, and takes names for     *)
(* unique.)                                                                *)
Visible(i) ==
    \A f \in {g \in File : Exists(g)} : \A k \in DOMAIN disk[f] :
        i \in disk[f][k].scope => ~disk[f][Min(Named(disk[f], disk[f][k].name))].multi

(* The mocks that answered for an instance answer for it after a rename,   *)
(* however many of them are in a file and wherever the toggles came from:  *)
(* nothing is detached silently (instances.js, on the rename route).       *)
RenameFollows ==
    [][\A i \in live \ live', j \in live' \ live :
          Registry = OnDisk(disk) /\ Visible(i) /\ Rename(i, j)
             => Answering(i) \subseteq Answering(j)']_filesVars

(* A toggle for a mock that does not apply is refused rather than silently *)
(* stored where it can never take effect (toggles.js, header).             *)
NoInertToggle ==
    [][\A i \in live \cap live' : \A n \in on'[i] \ on[i] :
          LET called == {m \in Range(cache') : m.name = n}
          IN  called # {} => \E m \in called : InScope(m, i)]_filesVars
=============================================================================
