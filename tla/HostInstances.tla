--------------------------- MODULE HostInstances ---------------------------
(***************************************************************************)
(* Hosts, instances, toggles, profiles and the standalone listeners        *)
(* (utils/instance-manager.js, utils/admin/{hosts,instances,toggles,       *)
(* profiles}.js, the boot code of server.js and the fold and unfold of     *)
(* utils/state-store.js).                                                  *)
(*                                                                         *)
(* The same facts are kept in five places: the serverConfigs array, two    *)
(* maps keyed by instance id, one keyed by host and the listening sockets. *)
(* Every handler updates some of them, saves all of them folded into one   *)
(* entry per host, and a restart unfolds that.  Handlers are synchronous,  *)
(* so each is one action; a handler that saves twice can die in between.   *)
(***************************************************************************)
EXTENDS Naturals, Sequences, FiniteSets

CONSTANTS
    Host,            \* host names as the clients and the dashboard spell them
    Canon,           \* the hostname URL parsing makes of each
    Id,              \* instance ids
    SlugOf,          \* slugify(host)
    Candidates,      \* base -> base, base-2, base-3, ...
    Port,            \* FIRST_PORT and up, to a bound
    Mock,            \* names of the mocks
    Setting,         \* values of an instanceSettings entry
    DefaultSetting,  \* what initInstanceState seeds
    ProfileName      \* names of the profiles

ASSUME HostAssumption ==
    /\ Canon \in [Host -> Host]
    /\ \A h \in Host : Canon[Canon[h]] = Canon[h]
    /\ SlugOf \in [Host -> Id]
    /\ Candidates \in [Id -> Seq(Id)]
    /\ Port \subseteq Nat
    /\ DefaultSetting \in Setting

VARIABLES
    serverConfigs,     \* the live instances; the order of the array is dropped
    instanceStatus,    \* id -> the mocks switched on
    instanceSettings,  \* id -> isActive, targetUrl and latency as one value
    hostSettings,      \* host -> its row
    profiles,          \* name -> a copy of instanceStatus
    standaloneOn,      \* _standaloneOn and store.standaloneInstances
    listeners,         \* _standaloneServers
    disk,              \* state.json
    dirty              \* history: memory has changes nobody saved

vars == <<serverConfigs, instanceStatus, instanceSettings, hostSettings,
          profiles, standaloneOn, listeners, disk, dirty>>

---------------------------------------------------------------------------
(* JavaScript objects used as maps: functions whose domain is their keys.  *)

IsMap(f, K, V) == DOMAIN f \subseteq K /\ f \in [DOMAIN f -> V]
Put(f, k, v) == [x \in DOMAIN f \cup {k} |-> IF x = k THEN v ELSE f[x]]
Without(f, k) == [x \in DOMAIN f \ {k} |-> f[x]]
Assign(f, g) == [x \in DOMAIN f \cup DOMAIN g |-> IF x \in DOMAIN g THEN g[x] ELSE f[x]]
Rekeyed(f, old, new) == IF old \in DOMAIN f THEN Put(Without(f, old), new, f[old]) ELSE f

(* A row's focus and block rules are one flag: any of them not the default. *)
(* An instanceId or an instance that may be null is a set of at most one.   *)
Config   == [id : Id, port : Port, host : Host]
Listener == [id : Id, port : Port]
Row      == [ssl : BOOLEAN, pref : BOOLEAN, inst : SUBSET Id]
Saved    == [id : Id, port : Port, settings : Setting, mocks : SUBSET Mock]
Entry    == [ssl : BOOLEAN, pref : BOOLEAN, inst : SUBSET Saved]

IsToggles(t)  == IsMap(t, Id, SUBSET Mock)
IsProfiles(f) == DOMAIN f \subseteq ProfileName /\ \A n \in DOMAIN f : IsToggles(f[n])
IsDoc(doc) ==
    /\ doc.standalone \in BOOLEAN
    /\ IsMap(doc.entries, Host, Entry)
    /\ IsProfiles(doc.profiles)

NoRow == [ssl |-> FALSE, pref |-> FALSE, inst |-> {}]
RowOf(rows, h) == IF h \in DOMAIN rows THEN rows[h] ELSE NoRow

TypeOK ==
    /\ serverConfigs \subseteq Config
    /\ IsToggles(instanceStatus)
    /\ IsMap(instanceSettings, Id, Setting)
    /\ IsMap(hostSettings, Host, Row)
    /\ \A h \in DOMAIN hostSettings : \A i, j \in hostSettings[h].inst : i = j
    /\ IsProfiles(profiles)
    /\ standaloneOn \in BOOLEAN
    /\ listeners \subseteq Listener
    /\ IsDoc(disk)
    /\ dirty \in BOOLEAN

LiveIds == {c.id : c \in serverConfigs}

(* Mutant of Intercepted: a host whose SSL is off does not count. *)
Intercepted_On == {c.host : c \in {c \in serverConfigs : RowOf(hostSettings, c.host).ssl}}
Intercepted == {c.host : c \in serverConfigs}

---------------------------------------------------------------------------
(* fromRuntime and toRuntime.  When two instances share a host the file    *)
(* keeps one of them: the last of the array there, an arbitrary one here.  *)

ChosenFor(cfgs, h) == CHOOSE c \in cfgs : c.host = h

EntryOf(cfgs, status, settings, rows, h) ==
    [ssl  |-> RowOf(rows, h).ssl,
     pref |-> RowOf(rows, h).pref,
     inst |-> IF \E c \in cfgs : c.host = h
              THEN LET c == ChosenFor(cfgs, h)
                   IN  {[id |-> c.id, port |-> c.port,
                         settings |-> settings[c.id], mocks |-> status[c.id]]}
              ELSE {}]

(* Mutant of Worth: a block rule alone does not keep the row. *)
Worth_SslOnly(rows) == {h \in DOMAIN rows : rows[h].ssl}
Worth(rows) == {h \in DOMAIN rows : rows[h].ssl \/ rows[h].pref}

Folded(cfgs, status, settings, rows) ==
    [h \in {c.host : c \in cfgs} \cup Worth(rows) |-> EntryOf(cfgs, status, settings, rows, h)]

Document ==
    [standalone |-> standaloneOn,
     entries    |-> Folded(serverConfigs, instanceStatus, instanceSettings, hostSettings),
     profiles   |-> profiles]

SavedIn(doc) == UNION {doc.entries[h].inst : h \in DOMAIN doc.entries}
SavedAs(doc, id) == CHOOSE s \in SavedIn(doc) : s.id = id

ConfigsIn(doc) ==
    UNION {{[id |-> s.id, port |-> s.port, host |-> h] : s \in doc.entries[h].inst}
             : h \in DOMAIN doc.entries}
StatusIn(doc)   == [i \in {s.id : s \in SavedIn(doc)} |-> SavedAs(doc, i).mocks]
SettingsIn(doc) == [i \in {s.id : s \in SavedIn(doc)} |-> SavedAs(doc, i).settings]
RowsIn(doc) ==
    [h \in DOMAIN doc.entries |->
        [ssl  |-> doc.entries[h].ssl,
         pref |-> doc.entries[h].pref,
         inst |-> {s.id : s \in doc.entries[h].inst}]]

(* saveState, at the end of a handler. *)
Save ==
    /\ disk' = Document'
    /\ dirty' = FALSE

---------------------------------------------------------------------------
(* The standalone tier. *)

Eligible(cfgs, rows) == {c \in cfgs : RowOf(rows, c.host).ssl}

(* syncStandalone, run while the rows are `rows` *)
Sync(rows) ==
    LET due == Eligible(serverConfigs', rows)
    IN  listeners' =
          IF ~standaloneOn' THEN listeners
          ELSE {l \in listeners : \E c \in due : c.id = l.id}
               \cup {[id |-> c.id, port |-> c.port] :
                       c \in {c \in due : \A l \in listeners : l.id # c.id}}

StandaloneOn ==
    /\ standaloneOn' = TRUE
    /\ UNCHANGED <<serverConfigs, instanceStatus, instanceSettings, hostSettings, profiles>>
    /\ Sync(hostSettings)
    /\ Save

StandaloneOff ==
    /\ standaloneOn' = FALSE
    /\ listeners' = {}
    /\ UNCHANGED <<serverConfigs, instanceStatus, instanceSettings, hostSettings, profiles>>
    /\ Save

---------------------------------------------------------------------------
(* Creating an instance. *)

(* Mutant of FirstFree: the base is taken as it is. *)
FirstFree_Base(base, id) == id = base
FirstFree(base, id) ==
    \E k \in DOMAIN Candidates[base] :
        /\ id = Candidates[base][k]
        /\ id \notin LiveIds
        /\ \A j \in 1..(k - 1) : Candidates[base][j] \in LiveIds

Taken == {c.port : c \in serverConfigs}
LowestFree(p) == p \notin Taken /\ \A q \in Port : q < p => q \in Taken

(* at most one: id and port are determined by what is taken *)
NewInstances(h, base) ==
    {i \in [id : Id, port : Port, host : {h}] : FirstFree(base, i.id) /\ LowestFree(i.port)}

(* initInstanceState: a slice already there is kept *)
Seeded(map, id, value) == IF id \in DOMAIN map THEN map ELSE Put(map, id, value)

Push(i) ==
    /\ serverConfigs' = serverConfigs \cup {i}
    /\ instanceStatus' = Seeded(instanceStatus, i.id, {})
    /\ instanceSettings' = Seeded(instanceSettings, i.id, DefaultSetting)

Promoted(h, id) ==
    Put(hostSettings, h, [RowOf(hostSettings, h) EXCEPT !.ssl = TRUE, !.inst = {id}])

(* POST /instances: a target typed in by hand, named or not.  It flips the *)
(* SSL flag like POST /hosts/ssl but does not reconcile the listeners.     *)
AddInstance(h, base) ==
    /\ Canon[h] = h
    /\ h \notin Intercepted
    /\ \E i \in NewInstances(h, base) :
        /\ Push(i)
        /\ hostSettings' = Promoted(h, i.id)
    /\ UNCHANGED <<profiles, standaloneOn, listeners>>
    /\ Save

(* POST /hosts/ssl with enabled: true.  ensureInstanceForHost looks the    *)
(* host up as it is spelled and stores it as URL parsing returns it.       *)
EnableSsl(h) ==
    /\ \/ \E c \in serverConfigs :
            /\ c.host = h
            /\ hostSettings' = Promoted(h, c.id)
            /\ UNCHANGED <<serverConfigs, instanceStatus, instanceSettings>>
       \/ /\ h \notin Intercepted
          /\ \E i \in NewInstances(Canon[h], SlugOf[h]) :
                /\ Push(i)
                /\ hostSettings' = Promoted(h, i.id)
    /\ UNCHANGED <<profiles, standaloneOn>>
    /\ Sync(hostSettings')
    /\ Save

---------------------------------------------------------------------------
(* Switching, preferring, removing, renaming. *)

(* Mutants of DisableSsl: the listener is left running; the instance is    *)
(* let go of.                                                              *)
DisableSsl_NoSync(h) ==
    /\ hostSettings' = Put(hostSettings, h, [RowOf(hostSettings, h) EXCEPT !.ssl = FALSE])
    /\ UNCHANGED <<serverConfigs, instanceStatus, instanceSettings, profiles, standaloneOn, listeners>>
    /\ Save
DisableSsl_LetGo(h) ==
    /\ hostSettings' = Put(hostSettings, h,
                           [RowOf(hostSettings, h) EXCEPT !.ssl = FALSE, !.inst = {}])
    /\ UNCHANGED <<serverConfigs, instanceStatus, instanceSettings, profiles, standaloneOn>>
    /\ Sync(hostSettings')
    /\ Save
(* POST /hosts/ssl with enabled: false *)
DisableSsl(h) ==
    /\ hostSettings' = Put(hostSettings, h, [RowOf(hostSettings, h) EXCEPT !.ssl = FALSE])
    /\ UNCHANGED <<serverConfigs, instanceStatus, instanceSettings, profiles, standaloneOn>>
    /\ Sync(hostSettings')
    /\ Save

(* POST /hosts/focus and /hosts/block *)
SetPreference(h, pref) ==
    /\ hostSettings' = Put(hostSettings, h, [RowOf(hostSettings, h) EXCEPT !.pref = pref])
    /\ UNCHANGED <<serverConfigs, instanceStatus, instanceSettings, profiles, standaloneOn, listeners>>
    /\ Save

(* Mutant of RowsWithout: the host's own row stays, and its switch with it. *)
RowsWithout_Kept(c) ==
    [h \in DOMAIN hostSettings |->
        IF c.id \in hostSettings[h].inst
        THEN [hostSettings[h] EXCEPT !.inst = {}] ELSE hostSettings[h]]
RowsWithout(c) ==
    [h \in DOMAIN hostSettings \ {c.host} |->
        IF c.id \in hostSettings[h].inst
        THEN [hostSettings[h] EXCEPT !.inst = {}, !.ssl = FALSE] ELSE hostSettings[h]]

(* Mutant of Dropped: the toggles are forgotten. *)
Dropped_KeepsToggles(c) ==
    /\ serverConfigs' = serverConfigs \ {c}
    /\ instanceSettings' = Without(instanceSettings, c.id)
    /\ UNCHANGED instanceStatus
Dropped(c) ==
    /\ serverConfigs' = serverConfigs \ {c}
    /\ instanceStatus' = Without(instanceStatus, c.id)
    /\ instanceSettings' = Without(instanceSettings, c.id)

(* DELETE /instances/:id *)
RemoveInstance(c) ==
    /\ Dropped(c)
    /\ hostSettings' = RowsWithout(c)
    /\ UNCHANGED <<profiles, standaloneOn>>
    /\ Sync(hostSettings')
    /\ Save

(* DELETE /hosts/:host: the instance its row names goes first, and the row *)
(* after the listeners have been reconciled.                               *)
ForgetHost(h) ==
    /\ h \in DOMAIN hostSettings
    /\ \/ \E c \in serverConfigs :
            /\ c.id \in hostSettings[h].inst
            /\ Dropped(c)
            /\ hostSettings' = Without(RowsWithout(c), h)
            /\ UNCHANGED standaloneOn
            /\ Sync(RowsWithout(c))
       \/ /\ hostSettings[h].inst \cap LiveIds = {}
          /\ hostSettings' = Without(hostSettings, h)
          /\ UNCHANGED <<serverConfigs, instanceStatus, instanceSettings, standaloneOn, listeners>>
    /\ UNCHANGED profiles
    /\ Save

(* Mutants of RenamedRow: the row keeps the old id; it names both ids. *)
RenamedRow_Stale(row, old, id) == row
RenamedRow_Both(row, old, id) ==
    IF old \in row.inst THEN [row EXCEPT !.inst = @ \cup {id}] ELSE row
RenamedRow(row, old, id) ==
    IF old \in row.inst THEN [row EXCEPT !.inst = {id}] ELSE row

(* Mutant of Renamed: the settings are copied, not moved. *)
Renamed_Copied(c, id) ==
    /\ serverConfigs' = (serverConfigs \ {c}) \cup {[c EXCEPT !.id = id]}
    /\ instanceStatus' = Rekeyed(instanceStatus, c.id, id)
    /\ instanceSettings' = Put(instanceSettings, id, instanceSettings[c.id])
    /\ hostSettings' = [h \in DOMAIN hostSettings |-> RenamedRow(hostSettings[h], c.id, id)]
Renamed(c, id) ==
    /\ serverConfigs' = (serverConfigs \ {c}) \cup {[c EXCEPT !.id = id]}
    /\ instanceStatus' = Rekeyed(instanceStatus, c.id, id)
    /\ instanceSettings' = Rekeyed(instanceSettings, c.id, id)
    /\ hostSettings' = [h \in DOMAIN hostSettings |-> RenamedRow(hostSettings[h], c.id, id)]

(* POST /instances/:id/rename, as far as this state goes *)
RenameInstance(c, id) ==
    /\ id \notin LiveIds
    /\ Renamed(c, id)
    /\ UNCHANGED <<profiles, standaloneOn>>
    /\ Sync(hostSettings')
    /\ Save

---------------------------------------------------------------------------
(* Toggles, settings, profiles. *)

(* POST /toggle, /toggle-bulk and /toggle-by-path, for mocks in scope *)
Toggle(c, mocks, enabled) ==
    /\ instanceStatus' =
          [instanceStatus EXCEPT ![c.id] = IF enabled THEN @ \cup mocks ELSE @ \ mocks]
    /\ UNCHANGED <<serverConfigs, instanceSettings, hostSettings, profiles, standaloneOn, listeners>>
    /\ Save

(* POST /instance-settings *)
EditSettings(id, value) ==
    /\ instanceSettings' = [instanceSettings EXCEPT ![id] = value]
    /\ UNCHANGED <<serverConfigs, instanceStatus, hostSettings, profiles, standaloneOn, listeners>>
    /\ Save

(* The same, answered 400 because of a later field: the earlier fields     *)
(* have been changed and nothing has been saved.                           *)
EditRejected(id, value) ==
    /\ value # instanceSettings[id]
    /\ instanceSettings' = [instanceSettings EXCEPT ![id] = value]
    /\ dirty' = TRUE
    /\ UNCHANGED <<serverConfigs, instanceStatus, hostSettings, profiles, standaloneOn, listeners, disk>>

SaveProfile(p) ==
    /\ profiles' = Put(profiles, p, instanceStatus)
    /\ UNCHANGED <<serverConfigs, instanceStatus, instanceSettings, hostSettings, standaloneOn, listeners>>
    /\ Save

(* Object.assign: ids in the profile win, wherever they come from *)
LoadProfile(p) ==
    /\ p \in DOMAIN profiles
    /\ instanceStatus' = Assign(instanceStatus, profiles[p])
    /\ UNCHANGED <<serverConfigs, instanceSettings, hostSettings, profiles, standaloneOn, listeners>>
    /\ Save

DeleteProfile(p) ==
    /\ p \in DOMAIN profiles
    /\ profiles' = Without(profiles, p)
    /\ UNCHANGED <<serverConfigs, instanceStatus, instanceSettings, hostSettings, standaloneOn, listeners>>
    /\ Save

(* A handler of another component saves: a display name, an approval. *)
OtherSave ==
    /\ UNCHANGED <<serverConfigs, instanceStatus, instanceSettings, hostSettings,
                   profiles, standaloneOn, listeners>>
    /\ Save

---------------------------------------------------------------------------
(* Stopping and booting.  The boot-time preference (STANDALONE_INSTANCES   *)
(* or config.js) turns the tier on without saving that.                    *)
Boot(doc, forced) ==
    /\ serverConfigs' = ConfigsIn(doc)
    /\ instanceStatus' = StatusIn(doc)
    /\ instanceSettings' = SettingsIn(doc)
    /\ hostSettings' = RowsIn(doc)
    /\ profiles' = doc.profiles
    /\ standaloneOn' = (forced \/ doc.standalone)
    /\ listeners' = IF forced \/ doc.standalone
                    THEN {[id |-> c.id, port |-> c.port] :
                            c \in Eligible(ConfigsIn(doc), RowsIn(doc))}
                    ELSE {}
    /\ disk' = doc
    /\ dirty' = (forced /\ ~doc.standalone)

Restart(forced) == Boot(disk, forced)

(* The process dies in AddInstance or EnableSsl, after the instance has    *)
(* been saved and before its row has.                                      *)
DieCreating(h, base, forced) ==
    /\ h \notin Intercepted
    /\ \E i \in NewInstances(Canon[h], base) :
        Boot([Document EXCEPT !.entries =
                Folded(serverConfigs \cup {i},
                       Seeded(instanceStatus, i.id, {}),
                       Seeded(instanceSettings, i.id, DefaultSetting),
                       hostSettings)], forced)

EmptyMap == [x \in {} |-> {}]

(* A fresh clone: the shipped state.example.json has no entries. *)
Init ==
    /\ serverConfigs = {}
    /\ instanceStatus = EmptyMap
    /\ instanceSettings = EmptyMap
    /\ hostSettings = EmptyMap
    /\ profiles = EmptyMap
    /\ standaloneOn = FALSE
    /\ listeners = {}
    /\ disk = [standalone |-> FALSE, entries |-> EmptyMap, profiles |-> EmptyMap]
    /\ dirty = FALSE

(* POST /standalone *)
Standalone == StandaloneOn \/ StandaloneOff

Next ==
    \/ Standalone
    \/ \E h \in Host :
          \/ \E base \in Id : AddInstance(h, base)
          \/ EnableSsl(h) \/ DisableSsl(h) \/ ForgetHost(h)
          \/ \E pref \in BOOLEAN : SetPreference(h, pref)
    \/ \E c \in serverConfigs :
          \/ RemoveInstance(c)
          \/ \E id \in Id : RenameInstance(c, id)
          \/ \E mocks \in SUBSET Mock, enabled \in BOOLEAN : Toggle(c, mocks, enabled)
    \/ \E id \in DOMAIN instanceSettings, value \in Setting :
          EditSettings(id, value) \/ EditRejected(id, value)
    \/ \E p \in ProfileName : SaveProfile(p) \/ LoadProfile(p) \/ DeleteProfile(p)
    \/ OtherSave
    \/ \E forced \in BOOLEAN :
          \/ Restart(forced)
          \/ \E h \in Host, base \in Id : DieCreating(h, base, forced)

Spec == Init /\ [][Next]_vars

---------------------------------------------------------------------------
(* No two live instances share an id, which keys their slices, or a port,  *)
(* which their listeners bind; through any mix of minting, renaming,       *)
(* removing and reloading.                                                 *)
UniqueIdsAndPorts ==
    \A c, d \in serverConfigs : c.id = d.id \/ c.port = d.port => c = d

(* No row points at an instance that is gone. *)
NoDanglingRow == \A h \in DOMAIN hostSettings : hostSettings[h].inst \subseteq LiveIds

(* Every live instance has both of its slices, and no settings outlive     *)
(* their instance.                                                         *)
SlicesTotal ==
    /\ LiveIds \subseteq DOMAIN instanceStatus
    /\ LiveIds = DOMAIN instanceSettings

(* A switch that is on can decrypt something: the host has an instance of  *)
(* its own, named by its row, for every host spelled as URL parsing        *)
(* returns it.                                                             *)
SslHasPipeline ==
    \A h \in DOMAIN hostSettings :
        hostSettings[h].ssl /\ Canon[h] = h =>
            \E c \in serverConfigs : c.host = h /\ c.id \in hostSettings[h].inst

(* No listener outlives its reason: the tier is on and it serves, on that  *)
(* instance's own port, a live instance whose host is decrypted.           *)
NoStaleListener ==
    \A l \in listeners :
        /\ standaloneOn
        /\ \E c \in Eligible(serverConfigs, hostSettings) : c.id = l.id /\ c.port = l.port

(* A host has one instance, however often it is enabled. *)
OneInstancePerHost == \A c, d \in serverConfigs : c.host = d.host => c = d

(* Toggles go with their instance. *)
NoOrphanToggles == DOMAIN instanceStatus \subseteq LiveIds

(* A restart gives back what was there, except for what was never saved:   *)
(* every handler saves what it changed, and the one-entry-per-host fold    *)
(* loses only the rows nobody has an opinion about.                        *)
RestartKeeps ==
    ~dirty =>
        /\ ConfigsIn(disk) = serverConfigs
        /\ SettingsIn(disk) = instanceSettings
        /\ \A i \in LiveIds : StatusIn(disk)[i] = instanceStatus[i]
        /\ \A h \in Host : RowOf(RowsIn(disk), h) = RowOf(hostSettings, h)
        /\ disk.profiles = profiles
        /\ disk.standalone = standaloneOn

(* With the tier on, every decrypted host has its listener. *)
ListenersFollowSsl ==
    standaloneOn => \A c \in Eligible(serverConfigs, hostSettings) :
                        \E l \in listeners : l.id = c.id

(* While a host keeps its row it keeps its instance and the port of it:    *)
(* switching SSL off and on, renaming, a restart or a crash never move a   *)
(* host to another port.                                                   *)
PortOf(h) == {c.port : c \in {c \in serverConfigs : c.id \in RowOf(hostSettings, h).inst}}
StablePort ==
    [][\A h \in Host :
          h \in DOMAIN hostSettings /\ h \in DOMAIN hostSettings' /\ PortOf(h) # {}
             => PortOf(h)' = PortOf(h)]_vars
===========================================================================
