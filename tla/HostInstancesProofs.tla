------------------------ MODULE HostInstancesProofs ------------------------
(***************************************************************************)
(* Proofs about HostInstances, for every set of hosts, ids and ports and   *)
(* every spelling of the hosts.  The invariant splits into Core, about the *)
(* slices in memory, the listeners, and GoodDoc, about the file: what a    *)
(* boot may rely on.  FoldGood and BootGood carry the one to the other.    *)
(***************************************************************************)
EXTENDS HostInstances, TLAPS

Ids(cfgs) == {c.id : c \in cfgs}

Typed(cfgs, status, settings, rows) ==
    /\ cfgs \subseteq Config
    /\ IsToggles(status)
    /\ IsMap(settings, Id, Setting)
    /\ IsMap(rows, Host, Row)
    /\ \A h \in DOMAIN rows : \A i, j \in rows[h].inst : i = j

Unique(cfgs) == \A c, d \in cfgs : c.id = d.id \/ c.port = d.port => c = d

Canonical(cfgs) == \A c \in cfgs : Canon[c.host] = c.host

Slices(cfgs, status, settings) ==
    /\ Ids(cfgs) \subseteq DOMAIN status
    /\ Ids(cfgs) = DOMAIN settings

Pointing(cfgs, rows) == \A h \in DOMAIN rows : rows[h].inst \subseteq Ids(cfgs)

Piped(cfgs, rows) ==
    \A h \in DOMAIN rows :
        rows[h].ssl /\ Canon[h] = h => \E c \in cfgs : c.host = h /\ c.id \in rows[h].inst

Core(cfgs, status, settings, rows) ==
    /\ Typed(cfgs, status, settings, rows)
    /\ Unique(cfgs)
    /\ Canonical(cfgs)
    /\ Slices(cfgs, status, settings)
    /\ Pointing(cfgs, rows)
    /\ Piped(cfgs, rows)

Served(ls, on, cfgs, rows) ==
    \A l \in ls : on /\ \E c \in Eligible(cfgs, rows) : c.id = l.id /\ c.port = l.port

GoodDoc(doc) ==
    /\ IsDoc(doc)
    /\ \A h \in DOMAIN doc.entries : \A s, t \in doc.entries[h].inst : s = t
    /\ \A g, h \in DOMAIN doc.entries :
          \A s \in doc.entries[g].inst, t \in doc.entries[h].inst :
              s.id = t.id \/ s.port = t.port => g = h
    /\ \A h \in DOMAIN doc.entries : doc.entries[h].inst # {} => Canon[h] = h
    /\ \A h \in DOMAIN doc.entries :
          doc.entries[h].ssl /\ Canon[h] = h => doc.entries[h].inst # {}

CoreNow == Core(serverConfigs, instanceStatus, instanceSettings, hostSettings)

Rest ==
    /\ IsProfiles(profiles)
    /\ standaloneOn \in BOOLEAN
    /\ dirty \in BOOLEAN

ListenersOK ==
    /\ listeners \subseteq Listener
    /\ Served(listeners, standaloneOn, serverConfigs, hostSettings)

IInv == CoreNow /\ Rest /\ ListenersOK /\ GoodDoc(disk)

---------------------------------------------------------------------------
(* The fold and the unfold. *)

(* What saveState writes of good slices is a good file. *)
LEMMA FoldGood ==
    ASSUME NEW cfgs, NEW status, NEW settings, NEW rows, NEW sa \in BOOLEAN, NEW profs,
           Core(cfgs, status, settings, rows), IsProfiles(profs)
    PROVE  GoodDoc([standalone |-> sa, entries |-> Folded(cfgs, status, settings, rows),
                    profiles |-> profs])
<1> DEFINE E == Folded(cfgs, status, settings, rows)
           D == [standalone |-> sa, entries |-> E, profiles |-> profs]
<1>0. /\ cfgs \subseteq Config
      /\ DOMAIN status \subseteq Id /\ \A i \in DOMAIN status : status[i] \subseteq Mock
      /\ DOMAIN settings \subseteq Id /\ \A i \in DOMAIN settings : settings[i] \in Setting
      /\ DOMAIN rows \subseteq Host /\ \A h \in DOMAIN rows : rows[h] \in Row
      /\ \A c \in cfgs : c.id \in DOMAIN status /\ c.id \in DOMAIN settings
  BY DEF Core, Typed, IsToggles, IsMap, Slices, Ids
<1>1. \A h : (\E c \in cfgs : c.host = h) =>
             ChosenFor(cfgs, h) \in cfgs /\ ChosenFor(cfgs, h).host = h
  BY DEF ChosenFor
<1>2. DOMAIN E = {c.host : c \in cfgs} \cup Worth(rows)
  BY DEF Folded
<1>3. DOMAIN E \subseteq Host
  BY <1>0, <1>2 DEF Worth, Config
<1>4. \A h \in DOMAIN E : E[h] = EntryOf(cfgs, status, settings, rows, h)
  BY DEF Folded
<1>5. ASSUME NEW h \in DOMAIN E
      PROVE  /\ E[h].ssl = RowOf(rows, h).ssl
             /\ E[h].pref = RowOf(rows, h).pref
             /\ E[h].inst # {} => \E c \in cfgs : c.host = h
             /\ (\E c \in cfgs : c.host = h) => E[h].inst # {}
             /\ \A s \in E[h].inst :
                  /\ s \in Saved
                  /\ s.id = ChosenFor(cfgs, h).id
                  /\ s.port = ChosenFor(cfgs, h).port
             /\ \A s, t \in E[h].inst : s = t
  <2>1. CASE \E c \in cfgs : c.host = h
    <3> DEFINE c == ChosenFor(cfgs, h)
               s == [id |-> c.id, port |-> c.port, settings |-> settings[c.id],
                     mocks |-> status[c.id]]
    <3>1. c \in cfgs /\ c.host = h
      BY <1>1, <2>1
    <3>2. E[h].ssl = RowOf(rows, h).ssl /\ E[h].pref = RowOf(rows, h).pref /\ E[h].inst = {s}
      BY <1>4, <2>1 DEF EntryOf
    <3>3. c.id \in Id /\ c.port \in Port
      BY <3>1, <1>0 DEF Config
    <3>4. settings[c.id] \in Setting /\ status[c.id] \in SUBSET Mock
      BY <3>1, <1>0
    <3>5. s \in Saved /\ s.id = c.id /\ s.port = c.port
      BY <3>3, <3>4 DEF Saved
    <3> QED BY <2>1, <3>2, <3>5
  <2>2. CASE ~\E c \in cfgs : c.host = h
    <3>1. E[h].ssl = RowOf(rows, h).ssl /\ E[h].pref = RowOf(rows, h).pref /\ E[h].inst = {}
      BY <1>4, <2>2 DEF EntryOf
    <3> QED BY <2>2, <3>1
  <2> QED BY <2>1, <2>2
<1>6. \A h \in DOMAIN E : RowOf(rows, h) \in Row
  BY <1>0 DEF RowOf, NoRow, Row
<1>7. IsMap(E, Host, Entry)
  <2>1. ASSUME NEW h \in DOMAIN E PROVE E[h] \in Entry
    <3>1. E[h].ssl \in BOOLEAN /\ E[h].pref \in BOOLEAN /\ E[h].inst \subseteq Saved
      BY <1>5, <1>6 DEF Row
    <3>2. E[h] = [ssl |-> E[h].ssl, pref |-> E[h].pref, inst |-> E[h].inst]
      BY <1>4 DEF EntryOf
    <3> QED BY <3>1, <3>2 DEF Entry
  <2>2. E = [h \in DOMAIN E |-> E[h]]
    BY DEF Folded
  <2> QED BY <2>1, <2>2, <1>3 DEF IsMap
<1>8. IsDoc(D)
  BY <1>7 DEF IsDoc
<1>9. \A g, h \in DOMAIN E : \A s \in E[g].inst, t \in E[h].inst :
          s.id = t.id \/ s.port = t.port => g = h
  <2> SUFFICES ASSUME NEW g \in DOMAIN E, NEW h \in DOMAIN E,
                      NEW s \in E[g].inst, NEW t \in E[h].inst,
                      s.id = t.id \/ s.port = t.port
               PROVE  g = h
    OBVIOUS
  <2>1. /\ ChosenFor(cfgs, g) \in cfgs /\ ChosenFor(cfgs, g).host = g
        /\ ChosenFor(cfgs, h) \in cfgs /\ ChosenFor(cfgs, h).host = h
    BY <1>1, <1>5
  <2>2. ChosenFor(cfgs, g) = ChosenFor(cfgs, h)
    BY <2>1, <1>5 DEF Core, Unique
  <2> QED BY <2>1, <2>2
<1>10. \A h \in DOMAIN E : E[h].inst # {} => Canon[h] = h
  BY <1>5 DEF Core, Canonical
<1>11. \A h \in DOMAIN E : E[h].ssl /\ Canon[h] = h => E[h].inst # {}
  <2> SUFFICES ASSUME NEW h \in DOMAIN E, E[h].ssl, Canon[h] = h PROVE E[h].inst # {}
    OBVIOUS
  <2>1. h \in DOMAIN rows /\ rows[h].ssl
    BY <1>5 DEF RowOf, NoRow
  <2>2. \E c \in cfgs : c.host = h
    BY <2>1 DEF Core, Piped
  <2> QED BY <2>2, <1>5
<1>12. D.entries = E
  OBVIOUS
<1> QED BY <1>5, <1>8, <1>9, <1>10, <1>11, <1>12 DEF GoodDoc

(* A boot from a good file finds good slices and starts good listeners. *)
LEMMA BootGood ==
    ASSUME NEW doc, GoodDoc(doc), NEW forced \in BOOLEAN, Boot(doc, forced)
    PROVE  IInv'
<1> DEFINE E == doc.entries
<1>0. /\ DOMAIN E \subseteq Host
      /\ \A h \in DOMAIN E : /\ E[h] \in Entry
                             /\ E[h].ssl \in BOOLEAN
                             /\ E[h].pref \in BOOLEAN
                             /\ E[h].inst \subseteq Saved
      /\ doc.standalone \in BOOLEAN
      /\ IsProfiles(doc.profiles)
  BY DEF GoodDoc, IsDoc, IsMap, Entry
<1>1. \A s \in SavedIn(doc) : s \in Saved /\ \E h \in DOMAIN E : s \in E[h].inst
  BY <1>0 DEF SavedIn
<1>2. \A s, t \in SavedIn(doc) : s.id = t.id => s = t
  <2> SUFFICES ASSUME NEW s \in SavedIn(doc), NEW t \in SavedIn(doc), s.id = t.id
               PROVE  s = t
    OBVIOUS
  <2>1. PICK g \in DOMAIN E : s \in E[g].inst
    BY <1>1
  <2>2. PICK h \in DOMAIN E : t \in E[h].inst
    BY <1>1
  <2>3. g = h
    BY <2>1, <2>2 DEF GoodDoc
  <2> QED BY <2>1, <2>2, <2>3 DEF GoodDoc
<1>3. \A s \in SavedIn(doc) : SavedAs(doc, s.id) = s
  BY <1>2 DEF SavedAs
<1>4. \A c : c \in ConfigsIn(doc) <=>
             \E h \in DOMAIN E : \E s \in E[h].inst :
                c = [id |-> s.id, port |-> s.port, host |-> h]
  BY DEF ConfigsIn
<1>5. Ids(ConfigsIn(doc)) = {s.id : s \in SavedIn(doc)}
  <2>1. \A c \in ConfigsIn(doc) : \E s \in SavedIn(doc) : c.id = s.id
    BY <1>4 DEF SavedIn
  <2>2. \A s \in SavedIn(doc) : \E c \in ConfigsIn(doc) : c.id = s.id
    <3> SUFFICES ASSUME NEW s \in SavedIn(doc)
                 PROVE  \E c \in ConfigsIn(doc) : c.id = s.id
      OBVIOUS
    <3>1. PICK h \in DOMAIN E : s \in E[h].inst
      BY <1>1
    <3>2. [id |-> s.id, port |-> s.port, host |-> h] \in ConfigsIn(doc)
      BY <1>4, <3>1
    <3> QED BY <3>2
  <2> QED BY <2>1, <2>2 DEF Ids
<1>6. ConfigsIn(doc) \subseteq Config
  BY <1>0, <1>4 DEF Config, Saved
<1>7. \A i \in {s.id : s \in SavedIn(doc)} :
          i \in Id /\ SavedAs(doc, i) \in Saved
  BY <1>1, <1>3 DEF Saved
<1>8. IsToggles(StatusIn(doc)) /\ IsMap(SettingsIn(doc), Id, Setting)
  <2>1. \A i \in {s.id : s \in SavedIn(doc)} :
           SavedAs(doc, i).mocks \in SUBSET Mock /\ SavedAs(doc, i).settings \in Setting
    BY <1>7 DEF Saved
  <2> QED BY <1>7, <2>1 DEF IsToggles, IsMap, StatusIn, SettingsIn
<1>9. IsMap(RowsIn(doc), Host, Row)
  <2>1. ASSUME NEW h \in DOMAIN E PROVE {s.id : s \in E[h].inst} \subseteq Id
    BY <1>0 DEF Saved
  <2> QED BY <1>0, <2>1 DEF IsMap, RowsIn, Row
<1>10. \A h \in DOMAIN RowsIn(doc) : \A i, j \in RowsIn(doc)[h].inst : i = j
  BY DEF RowsIn, GoodDoc
<1>11. Unique(ConfigsIn(doc))
  <2> SUFFICES ASSUME NEW c \in ConfigsIn(doc), NEW d \in ConfigsIn(doc),
                      c.id = d.id \/ c.port = d.port
               PROVE  c = d
    BY DEF Unique
  <2>1. PICK g \in DOMAIN E :
           \E s \in E[g].inst : c = [id |-> s.id, port |-> s.port, host |-> g]
    BY <1>4
  <2>1a. PICK s \in E[g].inst : c = [id |-> s.id, port |-> s.port, host |-> g]
    BY <2>1
  <2>2. PICK h \in DOMAIN E :
           \E t \in E[h].inst : d = [id |-> t.id, port |-> t.port, host |-> h]
    BY <1>4
  <2>2a. PICK t \in E[h].inst : d = [id |-> t.id, port |-> t.port, host |-> h]
    BY <2>2
  <2>3. g = h
    BY <2>1a, <2>2a DEF GoodDoc
  <2> QED BY <2>1a, <2>2a, <2>3 DEF GoodDoc
<1>12. Canonical(ConfigsIn(doc))
  <2> SUFFICES ASSUME NEW c \in ConfigsIn(doc) PROVE Canon[c.host] = c.host
    BY DEF Canonical
  <2>1. PICK h \in DOMAIN E :
           \E s \in E[h].inst : c = [id |-> s.id, port |-> s.port, host |-> h]
    BY <1>4
  <2>1a. PICK s \in E[h].inst : c = [id |-> s.id, port |-> s.port, host |-> h]
    BY <2>1
  <2> QED BY <2>1a DEF GoodDoc
<1>13. Slices(ConfigsIn(doc), StatusIn(doc), SettingsIn(doc))
  BY <1>5 DEF Slices, StatusIn, SettingsIn
<1>14. Pointing(ConfigsIn(doc), RowsIn(doc))
  BY <1>5 DEF Pointing, RowsIn, SavedIn
<1>15. Piped(ConfigsIn(doc), RowsIn(doc))
  <2> SUFFICES ASSUME NEW h \in DOMAIN RowsIn(doc), RowsIn(doc)[h].ssl, Canon[h] = h
               PROVE  \E c \in ConfigsIn(doc) : c.host = h /\ c.id \in RowsIn(doc)[h].inst
    BY DEF Piped
  <2>1. h \in DOMAIN E /\ E[h].ssl /\ RowsIn(doc)[h].inst = {s.id : s \in E[h].inst}
    BY DEF RowsIn
  <2>2. PICK s \in E[h].inst : TRUE
    BY <2>1 DEF GoodDoc
  <2>3. [id |-> s.id, port |-> s.port, host |-> h] \in ConfigsIn(doc)
    BY <1>4, <2>1
  <2> QED BY <2>1, <2>2, <2>3
<1>16. CoreNow'
  BY <1>6, <1>8, <1>9, <1>10, <1>11, <1>12, <1>13, <1>14, <1>15
     DEF CoreNow, Core, Typed, Boot
<1>17. Rest'
  BY <1>0 DEF Rest, Boot
<1>18. ListenersOK'
  <2>1. CASE forced \/ doc.standalone
    <3>1. listeners' = {[id |-> c.id, port |-> c.port] :
                           c \in Eligible(ConfigsIn(doc), RowsIn(doc))}
      BY <2>1 DEF Boot
    <3>2. standaloneOn'
      BY <2>1 DEF Boot
    <3>3. \A c \in Eligible(ConfigsIn(doc), RowsIn(doc)) : c.id \in Id /\ c.port \in Port
      BY <1>6 DEF Eligible, Config
    <3>4. listeners' \subseteq Listener
      BY <3>1, <3>3 DEF Listener
    <3>5. Served(listeners', standaloneOn', ConfigsIn(doc), RowsIn(doc))
      BY <3>1, <3>2 DEF Served
    <3> QED BY <3>4, <3>5 DEF ListenersOK, Boot
  <2>2. CASE ~(forced \/ doc.standalone)
    <3>1. listeners' = {}
      BY <2>2 DEF Boot
    <3> QED BY <3>1 DEF ListenersOK, Served
  <2> QED BY <2>1, <2>2
<1>19. GoodDoc(disk')
  BY DEF Boot
<1> QED BY <1>16, <1>17, <1>18, <1>19 DEF IInv

---------------------------------------------------------------------------
(* What the handlers have in common. *)

LEMMA InitIInv == Init => IInv
<1> SUFFICES ASSUME Init PROVE IInv
  OBVIOUS
<1>1. CoreNow
  BY DEF Init, EmptyMap, CoreNow, Core, Typed, IsToggles, IsMap, Unique, Canonical,
     Slices, Ids, Pointing, Piped
<1>2. GoodDoc(disk)
  BY DEF Init, EmptyMap, GoodDoc, IsDoc, IsMap, IsProfiles
<1>3. QED
  BY <1>1, <1>2 DEF Init, EmptyMap, IInv, Rest, IsProfiles, ListenersOK, Served

(* saveState after a handler that keeps the slices good *)
LEMMA SaveGood ==
    ASSUME CoreNow', Rest', Save
    PROVE  GoodDoc(disk')
<1>1. GoodDoc(Document')
  BY FoldGood DEF CoreNow, Rest, Document
<1> QED BY <1>1 DEF Save

(* A minted instance clashes with nobody: id and port are both free. *)
LEMMA PushCore ==
    ASSUME CoreNow, NEW h \in Host, NEW base \in Id, NEW i \in NewInstances(Canon[h], base)
    PROVE  /\ i \in Config
           /\ i.host = Canon[h]
           /\ i.id \notin LiveIds
           /\ Core(serverConfigs \cup {i}, Seeded(instanceStatus, i.id, {}),
                   Seeded(instanceSettings, i.id, DefaultSetting), hostSettings)
<1> USE HostAssumption
<1> DEFINE cfgs == serverConfigs \cup {i}
           st == Seeded(instanceStatus, i.id, {})
           se == Seeded(instanceSettings, i.id, DefaultSetting)
<1>1. /\ i \in Config /\ i.host = Canon[h] /\ i.id \in Id
      /\ i.id \notin LiveIds /\ i.port \notin Taken
  BY DEF NewInstances, FirstFree, LowestFree, Config
<1>2. IsToggles(st) /\ IsMap(se, Id, Setting)
  BY <1>1 DEF CoreNow, Core, Typed, IsToggles, IsMap, Seeded, Put
<1>3. Typed(cfgs, st, se, hostSettings)
  BY <1>1, <1>2 DEF CoreNow, Core, Typed
<1>4. Unique(cfgs)
  BY <1>1 DEF CoreNow, Core, Unique, LiveIds, Taken
<1>5. Canonical(cfgs)
  BY <1>1 DEF CoreNow, Core, Canonical
<1>6. Ids(cfgs) = Ids(serverConfigs) \cup {i.id}
  BY DEF Ids
<1>7. Slices(cfgs, st, se)
  BY <1>6 DEF CoreNow, Core, Slices, Seeded, Put
<1>8. Pointing(cfgs, hostSettings)
  BY <1>6 DEF CoreNow, Core, Pointing
<1>9. Piped(cfgs, hostSettings)
  BY DEF CoreNow, Core, Piped
<1> QED BY <1>1, <1>3, <1>4, <1>5, <1>7, <1>8, <1>9 DEF Core

(* Writing one row. *)
LEMMA RowCore ==
    ASSUME NEW cfgs, NEW status, NEW settings, NEW rows, Core(cfgs, status, settings, rows),
           NEW h \in Host, NEW r \in Row, r.inst \subseteq Ids(cfgs),
           \A i, j \in r.inst : i = j,
           r.ssl /\ Canon[h] = h => \E c \in cfgs : c.host = h /\ c.id \in r.inst
    PROVE  Core(cfgs, status, settings, Put(rows, h, r))
<1> DEFINE new == Put(rows, h, r)
<1>1. /\ DOMAIN new = DOMAIN rows \cup {h}
      /\ \A g \in DOMAIN new : new[g] = IF g = h THEN r ELSE rows[g]
      /\ new = [g \in DOMAIN new |-> new[g]]
  BY DEF Put
<1> HIDE DEF new
<1>2. IsMap(new, Host, Row)
  BY <1>1 DEF Core, Typed, IsMap
<1>3. Typed(cfgs, status, settings, new)
  BY <1>1, <1>2 DEF Core, Typed
<1>4. Pointing(cfgs, new)
  BY <1>1 DEF Core, Pointing
<1>5. Piped(cfgs, new)
  BY <1>1 DEF Core, Piped
<1>6. Core(cfgs, status, settings, new)
  BY <1>3, <1>4, <1>5 DEF Core
<1> QED BY <1>6 DEF new

(* Deleting one row. *)
LEMMA RowDropCore ==
    ASSUME NEW cfgs, NEW status, NEW settings, NEW rows, Core(cfgs, status, settings, rows),
           NEW h
    PROVE  Core(cfgs, status, settings, Without(rows, h))
<1> DEFINE new == Without(rows, h)
<1>1. /\ DOMAIN new = DOMAIN rows \ {h}
      /\ \A g \in DOMAIN new : new[g] = rows[g]
      /\ new = [g \in DOMAIN new |-> new[g]]
  BY DEF Without
<1> HIDE DEF new
<1>2. IsMap(new, Host, Row)
  BY <1>1 DEF Core, Typed, IsMap
<1>3. Core(cfgs, status, settings, new)
  BY <1>1, <1>2 DEF Core, Typed, Pointing, Piped
<1> QED BY <1>3 DEF new

RowFacts(rows) == \A h \in Host : RowOf(rows, h) \in Row

LEMMA RowOfType == CoreNow => RowFacts(hostSettings)
  BY DEF CoreNow, Core, Typed, IsMap, RowFacts, RowOf, NoRow, Row

(* Reconciling leaves exactly listeners with a reason, provided no live id *)
(* changed its port in this step.                                          *)
LEMMA SyncServed ==
    ASSUME ListenersOK, serverConfigs \subseteq Config, serverConfigs' \subseteq Config,
           standaloneOn => standaloneOn', NEW rows, Sync(rows),
           \A c \in serverConfigs', d \in serverConfigs : c.id = d.id => c.port = d.port
    PROVE  listeners' \subseteq Listener /\ Served(listeners', standaloneOn', serverConfigs', rows)
<1> DEFINE due == Eligible(serverConfigs', rows)
           kept == {l \in listeners : \E c \in due : c.id = l.id}
           started == {[id |-> c.id, port |-> c.port] :
                          c \in {c \in due : \A l \in listeners : l.id # c.id}}
<1>1. due \subseteq serverConfigs'
  BY DEF Eligible
<1>2. CASE ~standaloneOn'
  <2>1. listeners' = listeners /\ listeners = {}
    BY <1>2 DEF Sync, ListenersOK, Served
  <2> QED BY <2>1 DEF Served
<1>3. CASE standaloneOn'
  <2>1. listeners' = kept \cup started
    BY <1>3 DEF Sync
  <2>2. \A l \in kept : l \in Listener /\ \E c \in due : c.id = l.id /\ c.port = l.port
    <3> SUFFICES ASSUME NEW l \in kept
                 PROVE  l \in Listener /\ \E c \in due : c.id = l.id /\ c.port = l.port
      OBVIOUS
    <3>1. PICK c \in due : c.id = l.id
      OBVIOUS
    <3>2. PICK d \in serverConfigs : d.id = l.id /\ d.port = l.port
      BY DEF ListenersOK, Served, Eligible
    <3> QED BY <1>1, <3>1, <3>2 DEF ListenersOK
  <2>3. \A l \in started : l \in Listener /\ \E c \in due : c.id = l.id /\ c.port = l.port
    BY <1>1 DEF Config, Listener
  <2> QED BY <1>3, <2>1, <2>2, <2>3 DEF Served
<1> QED BY <1>2, <1>3

---------------------------------------------------------------------------
(* One lemma for every handler. *)

(* Handlers that leave instances and listeners alone and write one row.    *)
LEMMA RowWriteIInv ==
    ASSUME IInv, NEW h \in Host, NEW r \in Row, r.inst \subseteq LiveIds,
           \A i, j \in r.inst : i = j,
           r.ssl /\ Canon[h] = h => \E c \in serverConfigs : c.host = h /\ c.id \in r.inst,
           hostSettings' = Put(hostSettings, h, r),
           UNCHANGED <<serverConfigs, instanceStatus, instanceSettings, profiles, standaloneOn>>,
           (listeners' = listeners /\ RowOf(hostSettings, h).ssl = r.ssl) \/ Sync(hostSettings'),
           Save
    PROVE  IInv'
<1>1. CoreNow'
  BY RowCore DEF IInv, CoreNow, LiveIds, Ids
<1>2. Rest'
  BY DEF IInv, Rest, Save
<1>3. ListenersOK'
  <2>1. CASE listeners' = listeners /\ RowOf(hostSettings, h).ssl = r.ssl
    <3>1. \A g : RowOf(hostSettings', g).ssl = RowOf(hostSettings, g).ssl
      BY <2>1 DEF RowOf, Put
    <3>2. Eligible(serverConfigs', hostSettings') = Eligible(serverConfigs, hostSettings)
      BY <3>1 DEF Eligible
    <3> QED BY <2>1, <3>2 DEF IInv, ListenersOK, Served
  <2>2. CASE Sync(hostSettings')
    <3>1. \A c \in serverConfigs', d \in serverConfigs : c.id = d.id => c.port = d.port
      BY DEF IInv, CoreNow, Core, Unique
    <3>2. serverConfigs \subseteq Config /\ serverConfigs' \subseteq Config
      BY DEF IInv, CoreNow, Core, Typed
    <3> QED BY <2>2, <3>1, <3>2, SyncServed DEF IInv, ListenersOK
  <2> QED BY <2>1, <2>2
<1>4. GoodDoc(disk')
  BY <1>1, <1>2, SaveGood
<1> QED BY <1>1, <1>2, <1>3, <1>4 DEF IInv

LEMMA DisableSslIInv == ASSUME IInv, NEW h \in Host, DisableSsl(h) PROVE IInv'
<1> DEFINE r == [RowOf(hostSettings, h) EXCEPT !.ssl = FALSE]
<1>1. r \in Row /\ r.ssl = FALSE /\ r.inst = RowOf(hostSettings, h).inst
  BY RowOfType DEF IInv, RowFacts, Row
<1>2. r.inst \subseteq LiveIds /\ \A i, j \in r.inst : i = j
  BY <1>1 DEF IInv, CoreNow, Core, Typed, Pointing, RowOf, NoRow, Ids, LiveIds
<1> QED BY <1>1, <1>2, RowWriteIInv DEF DisableSsl

LEMMA SetPreferenceIInv ==
    ASSUME IInv, NEW h \in Host, NEW pref \in BOOLEAN, SetPreference(h, pref) PROVE IInv'
<1> DEFINE old == RowOf(hostSettings, h)
           r == [old EXCEPT !.pref = pref]
<1>1. r \in Row /\ r.ssl = old.ssl /\ r.inst = old.inst
  BY RowOfType DEF IInv, RowFacts, Row
<1>2. /\ r.inst \subseteq LiveIds /\ \A i, j \in r.inst : i = j
      /\ r.ssl /\ Canon[h] = h => \E c \in serverConfigs : c.host = h /\ c.id \in r.inst
  BY <1>1 DEF IInv, CoreNow, Core, Typed, Pointing, Piped, RowOf, NoRow, Ids, LiveIds
<1> QED BY <1>1, <1>2, RowWriteIInv DEF SetPreference

(* Handlers that write no slice that any part of the invariant but Rest    *)
(* and the types read.                                                     *)
LEMMA QuietIInv ==
    ASSUME IInv, UNCHANGED <<serverConfigs, hostSettings, standaloneOn, listeners>>,
           IsToggles(instanceStatus'), LiveIds \subseteq DOMAIN instanceStatus',
           IsMap(instanceSettings', Id, Setting),
           DOMAIN instanceSettings' = DOMAIN instanceSettings,
           IsProfiles(profiles'), dirty' \in BOOLEAN,
           Save \/ disk' = disk
    PROVE  IInv'
<1>1. CoreNow'
  BY DEF IInv, CoreNow, Core, Typed, Slices, Ids, LiveIds
<1>2. Rest'
  BY DEF IInv, Rest
<1>3. ListenersOK'
  BY DEF IInv, ListenersOK, Served, Eligible
<1>4. GoodDoc(disk')
  BY <1>1, <1>2, SaveGood DEF IInv
<1> QED BY <1>1, <1>2, <1>3, <1>4 DEF IInv

LEMMA ToggleIInv ==
    ASSUME IInv, NEW c \in serverConfigs, NEW mocks \in SUBSET Mock, NEW enabled \in BOOLEAN,
           Toggle(c, mocks, enabled)
    PROVE  IInv'
<1>1. IsToggles(instanceStatus) /\ LiveIds \subseteq DOMAIN instanceStatus
  BY DEF IInv, CoreNow, Core, Typed, Slices, Ids, LiveIds
<1>2. IsToggles(instanceStatus') /\ DOMAIN instanceStatus' = DOMAIN instanceStatus
  BY <1>1 DEF Toggle, IsToggles, IsMap
<1>3. IsMap(instanceSettings, Id, Setting) /\ IsProfiles(profiles)
  BY DEF IInv, CoreNow, Core, Typed, Rest
<1> QED BY <1>1, <1>2, <1>3, QuietIInv DEF Toggle, Save

LEMMA EditIInv ==
    ASSUME IInv, NEW id \in DOMAIN instanceSettings, NEW value \in Setting,
           EditSettings(id, value) \/ EditRejected(id, value)
    PROVE  IInv'
<1>1. /\ IsToggles(instanceStatus) /\ LiveIds \subseteq DOMAIN instanceStatus
      /\ IsMap(instanceSettings, Id, Setting) /\ IsProfiles(profiles)
  BY DEF IInv, CoreNow, Core, Typed, Slices, Ids, LiveIds, Rest
<1>2. /\ IsMap(instanceSettings', Id, Setting)
      /\ DOMAIN instanceSettings' = DOMAIN instanceSettings
  BY <1>1 DEF EditSettings, EditRejected, IsMap
<1> QED BY <1>1, <1>2, QuietIInv DEF EditSettings, EditRejected, Save

LEMMA ProfileIInv ==
    ASSUME IInv, NEW p \in ProfileName, SaveProfile(p) \/ LoadProfile(p) \/ DeleteProfile(p)
    PROVE  IInv'
<1>1. /\ IsToggles(instanceStatus) /\ LiveIds \subseteq DOMAIN instanceStatus
      /\ IsMap(instanceSettings, Id, Setting) /\ IsProfiles(profiles)
  BY DEF IInv, CoreNow, Core, Typed, Slices, Ids, LiveIds, Rest
<1>2. CASE SaveProfile(p)
  <2>1. IsProfiles(profiles')
    BY <1>1, <1>2 DEF SaveProfile, IsProfiles, Put
  <2> QED BY <1>1, <1>2, <2>1, QuietIInv DEF SaveProfile, Save
<1>3. CASE LoadProfile(p)
  <2>1. IsToggles(profiles[p])
    BY <1>1, <1>3 DEF LoadProfile, IsProfiles
  <2>2. IsToggles(instanceStatus') /\ LiveIds \subseteq DOMAIN instanceStatus'
    BY <1>1, <1>3, <2>1 DEF LoadProfile, IsToggles, IsMap, Assign
  <2> QED BY <1>1, <1>3, <2>2, QuietIInv DEF LoadProfile, Save
<1>4. CASE DeleteProfile(p)
  <2>1. IsProfiles(profiles')
    BY <1>1, <1>4 DEF DeleteProfile, IsProfiles, Without
  <2> QED BY <1>1, <1>4, <2>1, QuietIInv DEF DeleteProfile, Save
<1> QED BY <1>2, <1>3, <1>4

LEMMA OtherSaveIInv == ASSUME IInv, OtherSave PROVE IInv'
<1>1. /\ IsToggles(instanceStatus) /\ LiveIds \subseteq DOMAIN instanceStatus
      /\ IsMap(instanceSettings, Id, Setting) /\ IsProfiles(profiles)
  BY DEF IInv, CoreNow, Core, Typed, Slices, Ids, LiveIds, Rest
<1> QED BY <1>1, QuietIInv DEF OtherSave, Save

LEMMA StandaloneIInv == ASSUME IInv, StandaloneOn \/ StandaloneOff PROVE IInv'
<1>1. CoreNow'
  BY DEF IInv, CoreNow, StandaloneOn, StandaloneOff
<1>2. Rest'
  BY DEF IInv, Rest, StandaloneOn, StandaloneOff, Save
<1>3. ListenersOK'
  <2>1. CASE StandaloneOff
    BY <2>1 DEF StandaloneOff, ListenersOK, Served
  <2>2. CASE StandaloneOn
    <3>1. \A c \in serverConfigs', d \in serverConfigs : c.id = d.id => c.port = d.port
      BY <2>2 DEF StandaloneOn, IInv, CoreNow, Core, Unique
    <3>2. serverConfigs \subseteq Config /\ serverConfigs' \subseteq Config
      BY <2>2 DEF StandaloneOn, IInv, CoreNow, Core, Typed
    <3> QED BY <2>2, <3>1, <3>2, SyncServed DEF StandaloneOn, IInv, ListenersOK
  <2> QED BY <2>1, <2>2
<1>4. Save
  BY DEF StandaloneOn, StandaloneOff
<1>5. GoodDoc(disk')
  BY <1>1, <1>2, <1>4, SaveGood
<1> QED BY <1>1, <1>2, <1>3, <1>5 DEF IInv

(* Minting an instance and pointing the host's row at it. *)
LEMMA MintCore ==
    ASSUME IInv, NEW h \in Host, NEW base \in Id, NEW i \in NewInstances(Canon[h], base),
           Push(i), hostSettings' = Promoted(h, i.id)
    PROVE  /\ CoreNow'
           /\ serverConfigs' \subseteq Config
           /\ \A c \in serverConfigs', d \in serverConfigs : c.id = d.id => c.port = d.port
           /\ Eligible(serverConfigs, hostSettings) \subseteq Eligible(serverConfigs', hostSettings')
<1> DEFINE r == [RowOf(hostSettings, h) EXCEPT !.ssl = TRUE, !.inst = {i.id}]
           st == Seeded(instanceStatus, i.id, {})
           se == Seeded(instanceSettings, i.id, DefaultSetting)
<1>1. /\ i \in Config /\ i.host = Canon[h] /\ i.id \notin LiveIds
      /\ Core(serverConfigs \cup {i}, st, se, hostSettings)
  BY PushCore DEF IInv
<1>2. r \in Row /\ r.ssl = TRUE /\ r.inst = {i.id}
  BY <1>1, RowOfType DEF IInv, RowFacts, Row, Config
<1>3. i.id \in Ids(serverConfigs \cup {i})
  BY DEF Ids
<1>4. Core(serverConfigs \cup {i}, st, se, Put(hostSettings, h, r))
  BY <1>1, <1>2, <1>3, RowCore
<1>5. CoreNow'
  BY <1>4 DEF CoreNow, Push, Promoted
<1>6. serverConfigs' = serverConfigs \cup {i} /\ serverConfigs' \subseteq Config
  BY <1>1 DEF Push, IInv, CoreNow, Core, Typed
<1>7. \A c \in serverConfigs', d \in serverConfigs : c.id = d.id => c.port = d.port
  BY <1>1, <1>6 DEF IInv, CoreNow, Core, Unique, LiveIds
<1>8. \A g : RowOf(hostSettings, g).ssl => RowOf(hostSettings', g).ssl
  BY <1>2 DEF Promoted, Put, RowOf
<1>9. Eligible(serverConfigs, hostSettings) \subseteq Eligible(serverConfigs', hostSettings')
  BY <1>6, <1>8 DEF Eligible
<1> QED BY <1>5, <1>6, <1>7, <1>9

LEMMA AddInstanceIInv ==
    ASSUME IInv, NEW h \in Host, NEW base \in Id, AddInstance(h, base) PROVE IInv'
<1>1. PICK i \in NewInstances(h, base) : Push(i) /\ hostSettings' = Promoted(h, i.id)
  BY DEF AddInstance
<1>2. i \in NewInstances(Canon[h], base)
  BY <1>1 DEF AddInstance
<1>3. CoreNow' /\ Eligible(serverConfigs, hostSettings) \subseteq Eligible(serverConfigs', hostSettings')
  BY <1>1, <1>2, MintCore
<1>4. Rest' /\ Save
  BY DEF IInv, Rest, AddInstance, Save
<1>5. ListenersOK'
  BY <1>3 DEF IInv, ListenersOK, Served, AddInstance
<1> QED BY <1>3, <1>4, <1>5, SaveGood DEF IInv

LEMMA EnableSslIInv == ASSUME IInv, NEW h \in Host, EnableSsl(h) PROVE IInv'
<1> USE HostAssumption
<1>1. CASE \E c \in serverConfigs :
              /\ c.host = h
              /\ hostSettings' = Promoted(h, c.id)
              /\ UNCHANGED <<serverConfigs, instanceStatus, instanceSettings>>
  <2>1. PICK c \in serverConfigs :
              /\ c.host = h
              /\ hostSettings' = Promoted(h, c.id)
              /\ UNCHANGED <<serverConfigs, instanceStatus, instanceSettings>>
    BY <1>1
  <2> DEFINE r == [RowOf(hostSettings, h) EXCEPT !.ssl = TRUE, !.inst = {c.id}]
  <2>2. c.id \in Id /\ c.id \in LiveIds
    BY DEF IInv, CoreNow, Core, Typed, Config, LiveIds
  <2>3. r \in Row /\ r.ssl = TRUE /\ r.inst = {c.id}
    BY <2>2, RowOfType DEF IInv, RowFacts, Row
  <2>4. hostSettings' = Put(hostSettings, h, r)
    BY <2>1 DEF Promoted
  <2> QED BY <2>1, <2>2, <2>3, <2>4, RowWriteIInv DEF EnableSsl
<1>2. CASE h \notin Intercepted /\ \E i \in NewInstances(Canon[h], SlugOf[h]) :
              Push(i) /\ hostSettings' = Promoted(h, i.id)
  <2>1. PICK i \in NewInstances(Canon[h], SlugOf[h]) :
              Push(i) /\ hostSettings' = Promoted(h, i.id)
    BY <1>2
  <2>2. SlugOf[h] \in Id
    OBVIOUS
  <2>3. /\ CoreNow' /\ serverConfigs' \subseteq Config
        /\ \A c \in serverConfigs', d \in serverConfigs : c.id = d.id => c.port = d.port
    BY <2>1, <2>2, MintCore
  <2>4. Rest' /\ Save
    BY DEF IInv, Rest, EnableSsl, Save
  <2>5. Sync(hostSettings') /\ (standaloneOn => standaloneOn') /\ serverConfigs \subseteq Config
    BY DEF EnableSsl, IInv, CoreNow, Core, Typed
  <2>6. ListenersOK'
    BY <2>3, <2>5, SyncServed DEF IInv, ListenersOK
  <2> QED BY <2>3, <2>4, <2>6, SaveGood DEF IInv
<1> QED BY <1>1, <1>2 DEF EnableSsl

(* removeInstance: nothing is left pointing at the instance. *)
LEMMA DropCore ==
    ASSUME CoreNow, NEW c \in serverConfigs
    PROVE  Core(serverConfigs \ {c}, Without(instanceStatus, c.id),
                Without(instanceSettings, c.id), RowsWithout(c))
<1> DEFINE cfgs == serverConfigs \ {c}
           st == Without(instanceStatus, c.id)
           se == Without(instanceSettings, c.id)
           rows == RowsWithout(c)
<1>1. Ids(cfgs) = Ids(serverConfigs) \ {c.id}
  BY DEF Ids, CoreNow, Core, Unique
<1>2. /\ DOMAIN st = DOMAIN instanceStatus \ {c.id}
      /\ DOMAIN se = DOMAIN instanceSettings \ {c.id}
      /\ IsToggles(st) /\ IsMap(se, Id, Setting)
  BY DEF CoreNow, Core, Typed, IsToggles, IsMap, Without
<1>3. /\ DOMAIN rows = DOMAIN hostSettings \ {c.host}
      /\ \A h \in DOMAIN rows :
            rows[h] = IF c.id \in hostSettings[h].inst
                      THEN [hostSettings[h] EXCEPT !.inst = {}, !.ssl = FALSE]
                      ELSE hostSettings[h]
      /\ rows = [h \in DOMAIN rows |-> rows[h]]
  BY DEF RowsWithout
<1>4. \A h \in DOMAIN hostSettings : h \in Host /\ hostSettings[h] \in Row
  BY DEF CoreNow, Core, Typed, IsMap
<1>5. \A h \in DOMAIN rows :
         /\ rows[h] \in Row
         /\ rows[h].inst \subseteq hostSettings[h].inst \ {c.id}
         /\ rows[h].ssl => hostSettings[h].ssl /\ rows[h].inst = hostSettings[h].inst
  <2> SUFFICES ASSUME NEW h \in DOMAIN rows
               PROVE  /\ rows[h] \in Row
                      /\ rows[h].inst \subseteq hostSettings[h].inst \ {c.id}
                      /\ rows[h].ssl => hostSettings[h].ssl /\ rows[h].inst = hostSettings[h].inst
    OBVIOUS
  <2>1. hostSettings[h] \in Row
    BY <1>3, <1>4
  <2>2. CASE c.id \in hostSettings[h].inst
    <3>1. rows[h] = [hostSettings[h] EXCEPT !.inst = {}, !.ssl = FALSE]
      BY <1>3, <2>2
    <3> QED BY <2>1, <3>1 DEF Row
  <2>3. CASE c.id \notin hostSettings[h].inst
    <3>1. rows[h] = hostSettings[h]
      BY <1>3, <2>3
    <3> QED BY <2>1, <2>3, <3>1
  <2> QED BY <2>2, <2>3
<1> HIDE DEF rows, st, se
<1>6. IsMap(rows, Host, Row)
  BY <1>3, <1>4, <1>5 DEF IsMap
<1>7. \A h \in DOMAIN rows : \A i, j \in rows[h].inst : i = j
  <2>1. \A h \in DOMAIN hostSettings : \A i, j \in hostSettings[h].inst : i = j
    BY DEF CoreNow, Core, Typed
  <2>2. DOMAIN rows \subseteq DOMAIN hostSettings
    BY <1>3
  <2>3. \A h \in DOMAIN rows : rows[h].inst \subseteq hostSettings[h].inst
    BY <1>5
  <2> QED BY <2>1, <2>2, <2>3
<1>8. Typed(cfgs, st, se, rows)
  BY <1>2, <1>6, <1>7 DEF CoreNow, Core, Typed
<1>9. Unique(cfgs) /\ Canonical(cfgs)
  BY DEF CoreNow, Core, Unique, Canonical
<1>10. Slices(cfgs, st, se)
  BY <1>1, <1>2 DEF CoreNow, Core, Slices
<1>11. Pointing(cfgs, rows)
  BY <1>1, <1>3, <1>5 DEF CoreNow, Core, Pointing
<1>12. Piped(cfgs, rows)
  <2> SUFFICES ASSUME NEW h \in DOMAIN rows, rows[h].ssl, Canon[h] = h
               PROVE  \E d \in cfgs : d.host = h /\ d.id \in rows[h].inst
    BY DEF Piped
  <2>1. PICK d \in serverConfigs : d.host = h /\ d.id \in hostSettings[h].inst
    BY <1>3, <1>5 DEF CoreNow, Core, Piped
  <2>2. rows[h].inst = hostSettings[h].inst /\ c.id \notin rows[h].inst
    BY <1>5
  <2> QED BY <2>1, <2>2
<1> QED BY <1>8, <1>9, <1>10, <1>11, <1>12 DEF Core, rows, st, se

LEMMA RemoveInstanceIInv ==
    ASSUME IInv, NEW c \in serverConfigs, RemoveInstance(c) PROVE IInv'
<1>1. CoreNow'
  BY DropCore DEF IInv, CoreNow, RemoveInstance, Dropped
<1>2. Rest' /\ Save
  BY DEF IInv, Rest, RemoveInstance, Save
<1>3. /\ serverConfigs \subseteq Config /\ serverConfigs' \subseteq Config
      /\ \A d \in serverConfigs', e \in serverConfigs : d.id = e.id => d.port = e.port
  BY DEF IInv, CoreNow, Core, Typed, Unique, RemoveInstance, Dropped
<1>4. ListenersOK'
  BY <1>3, SyncServed DEF RemoveInstance, IInv, ListenersOK
<1> QED BY <1>1, <1>2, <1>4, SaveGood DEF IInv

LEMMA ForgetHostIInv == ASSUME IInv, NEW h \in Host, ForgetHost(h) PROVE IInv'
<1>1. Rest' /\ Save
  BY DEF IInv, Rest, ForgetHost, Save
<1>2. CASE \E c \in serverConfigs :
              /\ c.id \in hostSettings[h].inst
              /\ Dropped(c)
              /\ hostSettings' = Without(RowsWithout(c), h)
              /\ UNCHANGED standaloneOn
              /\ Sync(RowsWithout(c))
  <2>1. PICK c \in serverConfigs :
              /\ c.id \in hostSettings[h].inst
              /\ Dropped(c)
              /\ hostSettings' = Without(RowsWithout(c), h)
              /\ UNCHANGED standaloneOn
              /\ Sync(RowsWithout(c))
    BY <1>2
  <2>2. CoreNow'
    BY <2>1, DropCore, RowDropCore DEF IInv, CoreNow, Dropped
  <2>3. /\ serverConfigs \subseteq Config /\ serverConfigs' \subseteq Config
        /\ \A d \in serverConfigs', e \in serverConfigs : d.id = e.id => d.port = e.port
    BY <2>1 DEF IInv, CoreNow, Core, Typed, Unique, Dropped
  <2>4. /\ listeners' \subseteq Listener
        /\ Served(listeners', standaloneOn', serverConfigs', RowsWithout(c))
    BY <2>1, <2>3, SyncServed DEF IInv, ListenersOK
  <2>5. ~RowOf(RowsWithout(c), h).ssl
    <3>1. CASE h \in DOMAIN RowsWithout(c)
      <4>1. hostSettings[h] \in Row /\ h \in DOMAIN hostSettings
        BY <3>1 DEF RowsWithout, IInv, CoreNow, Core, Typed, IsMap
      <4>2. RowsWithout(c)[h] = [hostSettings[h] EXCEPT !.inst = {}, !.ssl = FALSE]
        BY <2>1, <3>1 DEF RowsWithout
      <4> QED BY <3>1, <4>1, <4>2 DEF RowOf, Row
    <3>2. CASE h \notin DOMAIN RowsWithout(c)
      BY <3>2 DEF RowOf, NoRow
    <3> QED BY <3>1, <3>2
  <2>6. Eligible(serverConfigs', RowsWithout(c)) \subseteq Eligible(serverConfigs', hostSettings')
    BY <2>1, <2>5 DEF Eligible, RowOf, Without
  <2>7. ListenersOK'
    BY <2>4, <2>6 DEF ListenersOK, Served
  <2> QED BY <1>1, <2>2, <2>7, SaveGood DEF IInv
<1>3. CASE /\ hostSettings[h].inst \cap LiveIds = {}
           /\ hostSettings' = Without(hostSettings, h)
           /\ UNCHANGED <<serverConfigs, instanceStatus, instanceSettings,
                          standaloneOn, listeners>>
  <2>1. CoreNow'
    BY <1>3, RowDropCore DEF IInv, CoreNow
  <2>2. ASSUME NEW c \in Eligible(serverConfigs, hostSettings) PROVE c.host # h
    <3> SUFFICES ASSUME c.host = h PROVE FALSE
      OBVIOUS
    <3>1. Canon[h] = h /\ h \in DOMAIN hostSettings /\ hostSettings[h].ssl
      BY DEF Eligible, RowOf, NoRow, IInv, CoreNow, Core, Canonical
    <3>2. \E d \in serverConfigs : d.id \in hostSettings[h].inst
      BY <3>1 DEF IInv, CoreNow, Core, Piped
    <3> QED BY <1>3, <3>2 DEF LiveIds
  <2>3. Eligible(serverConfigs, hostSettings) \subseteq Eligible(serverConfigs', hostSettings')
    BY <1>3, <2>2 DEF Eligible, RowOf, Without
  <2>4. ListenersOK'
    BY <1>3, <2>3 DEF IInv, ListenersOK, Served
  <2> QED BY <1>1, <2>1, <2>4, SaveGood DEF IInv
<1> QED BY <1>2, <1>3 DEF ForgetHost

(* renameInstance: the config, both slices and the rows move together. *)
LEMMA RenameIInv ==
    ASSUME IInv, NEW c \in serverConfigs, NEW id \in Id, RenameInstance(c, id) PROVE IInv'
<1> DEFINE new == [c EXCEPT !.id = id]
<1>1. c \in Config /\ new \in Config /\ new.id = id /\ new.port = c.port /\ new.host = c.host
  BY DEF IInv, CoreNow, Core, Typed, Config
<1>2. serverConfigs' = (serverConfigs \ {c}) \cup {new} /\ id \notin LiveIds /\ c.id \in LiveIds
  BY DEF RenameInstance, Renamed, LiveIds
<1>3. Ids(serverConfigs') = (LiveIds \ {c.id}) \cup {id}
  <2>1. \A d \in serverConfigs \ {c} : d.id # c.id
    BY DEF IInv, CoreNow, Core, Unique
  <2> QED BY <1>1, <1>2, <2>1 DEF Ids, LiveIds
<1> HIDE DEF new
<1>4. serverConfigs \subseteq Config /\ serverConfigs' \subseteq Config
  BY <1>1, <1>2 DEF IInv, CoreNow, Core, Typed
<1>5. Unique(serverConfigs') /\ Canonical(serverConfigs')
  BY <1>1, <1>2 DEF IInv, CoreNow, Core, Unique, Canonical, LiveIds
<1>6. /\ c.id \in DOMAIN instanceStatus /\ c.id \in DOMAIN instanceSettings
      /\ IsToggles(instanceStatus) /\ IsMap(instanceSettings, Id, Setting)
      /\ LiveIds \subseteq DOMAIN instanceStatus /\ LiveIds = DOMAIN instanceSettings
  BY <1>2 DEF IInv, CoreNow, Core, Typed, Slices, Ids, LiveIds
<1>7. /\ instanceStatus' = Put(Without(instanceStatus, c.id), id, instanceStatus[c.id])
      /\ instanceSettings' = Put(Without(instanceSettings, c.id), id, instanceSettings[c.id])
  BY <1>6 DEF RenameInstance, Renamed, Rekeyed
<1>8. /\ IsToggles(instanceStatus') /\ IsMap(instanceSettings', Id, Setting)
      /\ DOMAIN instanceStatus' = (DOMAIN instanceStatus \ {c.id}) \cup {id}
      /\ DOMAIN instanceSettings' = (DOMAIN instanceSettings \ {c.id}) \cup {id}
  BY <1>6, <1>7 DEF IsToggles, IsMap, Put, Without
<1>9. Slices(serverConfigs', instanceStatus', instanceSettings')
  BY <1>3, <1>6, <1>8 DEF Slices
<1>10. /\ hostSettings' = [h \in DOMAIN hostSettings |-> RenamedRow(hostSettings[h], c.id, id)]
       /\ DOMAIN hostSettings' = DOMAIN hostSettings
       /\ \A h \in DOMAIN hostSettings :
             hostSettings'[h] = RenamedRow(hostSettings[h], c.id, id)
  BY DEF RenameInstance, Renamed
<1>11. ASSUME NEW h \in DOMAIN hostSettings
       PROVE  /\ h \in Host
              /\ hostSettings'[h] \in Row
              /\ hostSettings'[h].ssl = hostSettings[h].ssl
              /\ hostSettings'[h].inst =
                    IF c.id \in hostSettings[h].inst THEN {id} ELSE hostSettings[h].inst
  <2>1. h \in Host /\ hostSettings[h] \in Row
    BY DEF IInv, CoreNow, Core, Typed, IsMap
  <2> QED BY <1>10, <2>1 DEF RenamedRow, Row
<1>12. \A h \in DOMAIN hostSettings : \A i, j \in hostSettings[h].inst : i = j
  BY DEF IInv, CoreNow, Core, Typed
<1>13. /\ IsMap(hostSettings', Host, Row)
       /\ \A h \in DOMAIN hostSettings' : \A i, j \in hostSettings'[h].inst : i = j
  <2>1. IsMap(hostSettings', Host, Row)
    BY <1>10, <1>11 DEF IsMap
  <2>2. ASSUME NEW h \in DOMAIN hostSettings'
        PROVE  \A i, j \in hostSettings'[h].inst : i = j
    BY <1>10, <1>11, <1>12
  <2> QED BY <2>1, <2>2
<1>14. Pointing(serverConfigs', hostSettings')
  <2> SUFFICES ASSUME NEW h \in DOMAIN hostSettings, NEW i \in hostSettings'[h].inst
               PROVE  i \in Ids(serverConfigs')
    BY <1>10 DEF Pointing
  <2>1. hostSettings[h].inst \subseteq LiveIds
    BY DEF IInv, CoreNow, Core, Pointing, Ids, LiveIds
  <2>2. CASE c.id \in hostSettings[h].inst
    BY <1>3, <1>11, <2>2
  <2>3. CASE c.id \notin hostSettings[h].inst
    BY <1>3, <1>11, <2>1, <2>3
  <2> QED BY <2>2, <2>3
<1>15. Piped(serverConfigs', hostSettings')
  <2> SUFFICES ASSUME NEW h \in DOMAIN hostSettings, hostSettings'[h].ssl, Canon[h] = h
               PROVE  \E d \in serverConfigs' : d.host = h /\ d.id \in hostSettings'[h].inst
    BY <1>10 DEF Piped
  <2>1. PICK d \in serverConfigs : d.host = h /\ d.id \in hostSettings[h].inst
    BY <1>11 DEF IInv, CoreNow, Core, Piped
  <2>2. CASE d = c
    <3>1. new \in serverConfigs' /\ new.host = h /\ new.id \in hostSettings'[h].inst
      BY <1>1, <1>2, <1>11, <2>1, <2>2
    <3> QED BY <3>1
  <2>3. CASE d # c
    <3>1. d \in serverConfigs' /\ d.id # c.id
      BY <1>2, <2>3 DEF IInv, CoreNow, Core, Unique
    <3>2. c.id \notin hostSettings[h].inst
      BY <1>12, <2>1, <3>1
    <3> QED BY <1>11, <2>1, <3>1, <3>2
  <2> QED BY <2>2, <2>3
<1>16. CoreNow'
  BY <1>4, <1>5, <1>8, <1>9, <1>13, <1>14, <1>15 DEF CoreNow, Core, Typed
<1>17. Rest' /\ Save
  BY DEF IInv, Rest, RenameInstance, Save
<1>18. \A d \in serverConfigs', e \in serverConfigs : d.id = e.id => d.port = e.port
  BY <1>1, <1>2 DEF IInv, CoreNow, Core, Unique, LiveIds
<1>19. ListenersOK'
  BY <1>4, <1>18, SyncServed DEF RenameInstance, IInv, ListenersOK
<1> QED BY <1>16, <1>17, <1>19, SaveGood DEF IInv

(* Every boot, after a stop or a crash, is from a good file. *)
LEMMA BootsGoodDoc ==
    ASSUME IInv, NEW forced \in BOOLEAN,
           \/ Restart(forced)
           \/ \E h \in Host, base \in Id : DieCreating(h, base, forced)
    PROVE  \E doc : GoodDoc(doc) /\ Boot(doc, forced)
<1>1. CASE Restart(forced)
  BY <1>1 DEF Restart, IInv
<1>2. CASE \E h \in Host, base \in Id : DieCreating(h, base, forced)
  <2>1. PICK h \in Host, base \in Id : DieCreating(h, base, forced)
    BY <1>2
  <2> DEFINE E(i) == Folded(serverConfigs \cup {i}, Seeded(instanceStatus, i.id, {}),
                            Seeded(instanceSettings, i.id, DefaultSetting), hostSettings)
             D(i) == [Document EXCEPT !.entries = E(i)]
  <2>2. PICK i \in NewInstances(Canon[h], base) : Boot(D(i), forced)
    BY <2>1 DEF DieCreating
  <2>3. D(i) = [standalone |-> standaloneOn, entries |-> E(i), profiles |-> profiles]
    BY DEF Document
  <2>4. GoodDoc(D(i))
    BY <2>3, PushCore, FoldGood DEF IInv, Rest
  <2> QED BY <2>2, <2>4
<1> QED BY <1>1, <1>2

LEMMA BootIInv ==
    ASSUME IInv, NEW forced \in BOOLEAN,
           \/ Restart(forced)
           \/ \E h \in Host, base \in Id : DieCreating(h, base, forced)
    PROVE  IInv'
  BY BootsGoodDoc, BootGood

---------------------------------------------------------------------------
LEMMA NextIInv == IInv /\ [Next]_vars => IInv'
<1> SUFFICES ASSUME IInv, [Next]_vars PROVE IInv'
  OBVIOUS
<1>1. CASE UNCHANGED vars
  BY <1>1 DEF vars, IInv, CoreNow, Rest, ListenersOK, Served, Eligible
<1>2. CASE StandaloneOn \/ StandaloneOff
  BY <1>2, StandaloneIInv
<1>3. ASSUME NEW h \in Host,
             \/ \E base \in Id : AddInstance(h, base)
             \/ EnableSsl(h) \/ DisableSsl(h) \/ ForgetHost(h)
             \/ \E pref \in BOOLEAN : SetPreference(h, pref)
      PROVE  IInv'
  BY <1>3, AddInstanceIInv, EnableSslIInv, DisableSslIInv, ForgetHostIInv, SetPreferenceIInv
<1>4. ASSUME NEW c \in serverConfigs,
             \/ RemoveInstance(c)
             \/ \E id \in Id : RenameInstance(c, id)
             \/ \E mocks \in SUBSET Mock, enabled \in BOOLEAN : Toggle(c, mocks, enabled)
      PROVE  IInv'
  BY <1>4, RemoveInstanceIInv, RenameIInv, ToggleIInv
<1>5. ASSUME NEW id \in DOMAIN instanceSettings, NEW value \in Setting,
             EditSettings(id, value) \/ EditRejected(id, value)
      PROVE  IInv'
  BY <1>5, EditIInv
<1>6. ASSUME NEW p \in ProfileName, SaveProfile(p) \/ LoadProfile(p) \/ DeleteProfile(p)
      PROVE  IInv'
  BY <1>6, ProfileIInv
<1>7. CASE OtherSave
  BY <1>7, OtherSaveIInv
<1>8. ASSUME NEW forced \in BOOLEAN,
             \/ Restart(forced)
             \/ \E h \in Host, base \in Id : DieCreating(h, base, forced)
      PROVE  IInv'
  BY <1>8, BootIInv
<1> QED BY <1>1, <1>2, <1>3, <1>4, <1>5, <1>6, <1>7, <1>8 DEF Next, Standalone

LEMMA IInvSafe ==
    IInv => /\ TypeOK /\ UniqueIdsAndPorts /\ NoDanglingRow
            /\ SlicesTotal /\ SslHasPipeline /\ NoStaleListener
<1> SUFFICES ASSUME IInv
             PROVE  /\ TypeOK /\ UniqueIdsAndPorts /\ NoDanglingRow
                    /\ SlicesTotal /\ SslHasPipeline /\ NoStaleListener
  OBVIOUS
<1>1. TypeOK
  BY DEF IInv, CoreNow, Core, Typed, Rest, ListenersOK, GoodDoc, TypeOK
<1>2. UniqueIdsAndPorts /\ NoDanglingRow /\ SlicesTotal /\ SslHasPipeline
  BY DEF IInv, CoreNow, Core, Unique, Pointing, Slices, Piped, Ids, LiveIds,
     UniqueIdsAndPorts, NoDanglingRow, SlicesTotal, SslHasPipeline
<1>3. NoStaleListener
  BY DEF IInv, ListenersOK, Served, NoStaleListener
<1> QED BY <1>1, <1>2, <1>3

(* The slices stay well formed and in step with each other, and what is on *)
(* disk can always be booted from, whatever the handlers, restarts and     *)
(* crashes (server.js, instance-manager.js, state-store.js).               *)
THEOREM HostInvariant == Spec => []IInv
<1>1. Init => IInv
  BY InitIInv
<1>2. IInv /\ [Next]_vars => IInv'
  BY NextIInv
<1> QED BY <1>1, <1>2, PTL DEF Spec

(* Type correctness of the registry. *)
THEOREM HostTypes == Spec => []TypeOK
  BY HostInvariant, IInvSafe, PTL

(* Ids and ports are never shared by two live instances. *)
THEOREM HostUnique == Spec => []UniqueIdsAndPorts
  BY HostInvariant, IInvSafe, PTL

(* No host row ever points at an instance that is gone. *)
THEOREM HostNoDanglingRow == Spec => []NoDanglingRow
  BY HostInvariant, IInvSafe, PTL

(* Live instances have both slices; settings never outlive an instance. *)
THEOREM HostSlicesTotal == Spec => []SlicesTotal
  BY HostInvariant, IInvSafe, PTL

(* A host switched to decrypting has an instance behind it. *)
THEOREM HostSslHasPipeline == Spec => []SslHasPipeline
  BY HostInvariant, IInvSafe, PTL

(* A standalone listener always serves a live, decrypted instance on that  *)
(* instance's own port.                                                    *)
THEOREM HostNoStaleListener == Spec => []NoStaleListener
  BY HostInvariant, IInvSafe, PTL

---------------------------------------------------------------------------
(* Hosts that are all spelled as URL parsing returns them.  Then the row   *)
(* of a host names the instance of that host and nothing else, which makes *)
(* the fold to one entry per host lose nothing.                            *)
Canonised == \A h \in Host : Canon[h] = h

At(cfgs, h) == {c \in cfgs : c.host = h}
Paired(cfgs, rows) == \A h \in Host : RowOf(rows, h).inst = {c.id : c \in At(cfgs, h)}

PairedNow == Paired(serverConfigs, hostSettings)

LEMMA OnePerHost ==
    ASSUME NEW cfgs, NEW status, NEW settings, NEW rows, Core(cfgs, status, settings, rows),
           Paired(cfgs, rows)
    PROVE  /\ \A c, d \in cfgs : c.host = d.host => c = d
           /\ \A c \in cfgs : c.host \in Host /\ RowOf(rows, c.host).inst = {c.id}
           /\ \A c \in cfgs, h \in Host : c.id \in RowOf(rows, h).inst => c.host = h
<1>1. \A c \in cfgs : c.host \in Host /\ c.id \in Id
  BY DEF Core, Typed, Config
<1>2. \A h \in Host : \A i, j \in RowOf(rows, h).inst : i = j
  BY DEF RowOf, NoRow, Core, Typed
<1>3. \A c \in cfgs : c.id \in RowOf(rows, c.host).inst
  BY <1>1 DEF Paired, At
<1>4. \A c, d \in cfgs : c.host = d.host => c = d
  BY <1>1, <1>2, <1>3 DEF Core, Unique
<1>5. \A c \in cfgs, h \in Host : c.id \in RowOf(rows, h).inst => c.host = h
  BY DEF Paired, At, Core, Unique
<1>6. QED
  BY <1>1, <1>2, <1>3, <1>4, <1>5

(* Nothing is lost by a save, if a host has one instance. *)
LEMMA FoldKeeps ==
    ASSUME NEW cfgs, NEW status, NEW settings, NEW rows, NEW doc,
           Core(cfgs, status, settings, rows), \A c, d \in cfgs : c.host = d.host => c = d,
           doc.entries = Folded(cfgs, status, settings, rows)
    PROVE  /\ ConfigsIn(doc) = cfgs
           /\ SettingsIn(doc) = settings
           /\ \A i \in Ids(cfgs) : StatusIn(doc)[i] = status[i]
           /\ Paired(cfgs, rows) => \A h \in Host : RowOf(RowsIn(doc), h) = RowOf(rows, h)
<1> DEFINE E == doc.entries
           S(c) == [id |-> c.id, port |-> c.port, settings |-> settings[c.id],
                    mocks |-> status[c.id]]
<1>1. /\ \A c, d \in cfgs : c.host = d.host => c = d
      /\ \A c, d \in cfgs : c.id = d.id => c = d
      /\ \A c \in cfgs : c \in Config /\ c.host \in Host
  BY DEF Core, Unique, Typed, Config
<1>2. DOMAIN E = {c.host : c \in cfgs} \cup Worth(rows)
  BY DEF Folded
<1>3. \A h \in DOMAIN E : E[h] = EntryOf(cfgs, status, settings, rows, h)
  BY DEF Folded
<1>4. \A c \in cfgs : c.host \in DOMAIN E /\ E[c.host].inst = {S(c)}
  <2> SUFFICES ASSUME NEW c \in cfgs PROVE c.host \in DOMAIN E /\ E[c.host].inst = {S(c)}
    OBVIOUS
  <2>1. ChosenFor(cfgs, c.host) = c
    BY <1>1 DEF ChosenFor
  <2>2. c.host \in DOMAIN E
    BY <1>2
  <2>3. E[c.host] = EntryOf(cfgs, status, settings, rows, c.host)
    BY <1>3, <2>2
  <2>4. EntryOf(cfgs, status, settings, rows, c.host).inst = {S(c)}
    BY <2>1 DEF EntryOf
  <2>5. QED
    BY <2>2, <2>3, <2>4
<1>5. \A h \in DOMAIN E : E[h].inst # {} => \E c \in cfgs : c.host = h
  BY <1>3 DEF EntryOf
<1>6. \A c \in cfgs : S(c).id = c.id /\ S(c).port = c.port /\ S(c).settings = settings[c.id]
                      /\ S(c).mocks = status[c.id]
  OBVIOUS
<1>7. \A c \in cfgs : c = [id |-> c.id, port |-> c.port, host |-> c.host]
  BY <1>1 DEF Config
<1> HIDE DEF S, E
<1>8. ConfigsIn(doc) = cfgs
  <2>1. ASSUME NEW d \in ConfigsIn(doc) PROVE d \in cfgs
    <3>0. PICK h \in DOMAIN E : \E s \in E[h].inst :
                 d = [id |-> s.id, port |-> s.port, host |-> h]
      BY DEF ConfigsIn, E
    <3>1. PICK s \in E[h].inst : d = [id |-> s.id, port |-> s.port, host |-> h]
      BY <3>0
    <3>2. PICK c \in cfgs : c.host = h
      BY <1>5, <3>1
    <3>3. s = S(c)
      BY <1>4, <3>1, <3>2
    <3>4. QED
      BY <1>6, <1>7, <3>1, <3>2, <3>3
  <2>2. ASSUME NEW c \in cfgs PROVE c \in ConfigsIn(doc)
    <3>1. S(c) \in E[c.host].inst /\ c.host \in DOMAIN E
      BY <1>4
    <3>2. c = [id |-> S(c).id, port |-> S(c).port, host |-> c.host]
      BY <1>6, <1>7
    <3>3. QED
      BY <3>1, <3>2 DEF ConfigsIn, E
  <2>3. QED
    BY <2>1, <2>2
<1>9. SavedIn(doc) = {S(c) : c \in cfgs}
  <2>1. ASSUME NEW s \in SavedIn(doc) PROVE \E c \in cfgs : s = S(c)
    <3>1. PICK h \in DOMAIN E : s \in E[h].inst
      BY DEF SavedIn, E
    <3>2. QED
      BY <1>4, <1>5, <3>1
  <2>2. \A c \in cfgs : S(c) \in SavedIn(doc)
    BY <1>4 DEF SavedIn, E
  <2>3. QED
    BY <2>1, <2>2
<1>10. \A c \in cfgs : SavedAs(doc, c.id) = S(c)
  BY <1>1, <1>6, <1>9 DEF SavedAs
<1>11. {s.id : s \in SavedIn(doc)} = Ids(cfgs)
  BY <1>6, <1>9 DEF Ids
<1>12. SettingsIn(doc) = settings
  <2>1. settings = [i \in Ids(cfgs) |-> settings[i]]
    BY DEF Core, Slices, Typed, IsMap
  <2>2. \A i \in Ids(cfgs) : SavedAs(doc, i).settings = settings[i]
    BY <1>6, <1>10 DEF Ids
  <2>3. QED
    BY <1>11, <2>1, <2>2 DEF SettingsIn
<1>13. \A i \in Ids(cfgs) : StatusIn(doc)[i] = status[i]
  BY <1>6, <1>10, <1>11 DEF StatusIn, Ids
<1>14. ASSUME Paired(cfgs, rows), NEW h \in Host PROVE RowOf(RowsIn(doc), h) = RowOf(rows, h)
  <2>0. \A c \in cfgs : RowOf(rows, c.host).inst = {c.id}
    BY <1>14, OnePerHost
  <2> DEFINE r == RowOf(rows, h)
  <2>1. r \in Row /\ r = [ssl |-> r.ssl, pref |-> r.pref, inst |-> r.inst]
    BY DEF RowOf, NoRow, Row, Core, Typed, IsMap
  <2>2. CASE h \in DOMAIN E
    <3>1. E[h].ssl = r.ssl /\ E[h].pref = r.pref
      BY <1>3, <2>2 DEF EntryOf
    <3>2. {s.id : s \in E[h].inst} = r.inst
      <4>1. CASE \E c \in cfgs : c.host = h
        BY <1>4, <1>6, <2>0, <4>1
      <4>2. CASE ~\E c \in cfgs : c.host = h
        BY <1>5, <1>14, <2>2, <4>2 DEF Paired, At
      <4>3. QED
        BY <4>1, <4>2
    <3>3. RowOf(RowsIn(doc), h) = [ssl |-> E[h].ssl, pref |-> E[h].pref,
                                   inst |-> {s.id : s \in E[h].inst}]
      BY <2>2 DEF RowOf, RowsIn, E
    <3>4. QED
      BY <2>1, <3>1, <3>2, <3>3
  <2>3. CASE h \notin DOMAIN E
    <3>1. RowOf(RowsIn(doc), h) = NoRow
      BY <2>3 DEF RowOf, RowsIn, E
    <3>2. r.inst = {}
      BY <1>2, <1>14, <2>3 DEF Paired, At
    <3>3. h \notin Worth(rows)
      BY <1>2, <2>3
    <3>4. r = NoRow
      <4>1. CASE h \in DOMAIN rows
        BY <2>1, <3>2, <3>3, <4>1 DEF RowOf, Worth, NoRow, Row
      <4>2. CASE h \notin DOMAIN rows
        BY <4>2 DEF RowOf
      <4>3. QED
        BY <4>1, <4>2
    <3>5. QED
      BY <3>1, <3>4
  <2>4. QED
    BY <2>2, <2>3
<1>15. QED
  BY <1>8, <1>12, <1>13, <1>14

(* What a boot restores pairs rows and instances, whoever wrote the file. *)
LEMMA BootPaired ==
    ASSUME NEW doc, GoodDoc(doc)
    PROVE  Paired(ConfigsIn(doc), RowsIn(doc))
<1> SUFFICES ASSUME NEW h \in Host
             PROVE  RowOf(RowsIn(doc), h).inst = {c.id : c \in At(ConfigsIn(doc), h)}
  BY DEF Paired
<1>1. \A c : c \in ConfigsIn(doc) <=>
             \E g \in DOMAIN doc.entries : \E s \in doc.entries[g].inst :
                c = [id |-> s.id, port |-> s.port, host |-> g]
  BY DEF ConfigsIn
<1>2. CASE h \in DOMAIN doc.entries
  <2>1. RowOf(RowsIn(doc), h).inst = {s.id : s \in doc.entries[h].inst}
    BY <1>2 DEF RowOf, RowsIn
  <2>2. \A s \in doc.entries[h].inst : [id |-> s.id, port |-> s.port, host |-> h]
                                       \in At(ConfigsIn(doc), h)
    BY <1>1, <1>2 DEF At
  <2>3. \A c \in At(ConfigsIn(doc), h) : \E s \in doc.entries[h].inst : c.id = s.id
    BY <1>1 DEF At
  <2>4. \A s \in doc.entries[h].inst : \E c \in At(ConfigsIn(doc), h) : c.id = s.id
    BY <2>2
  <2>5. QED
    BY <2>1, <2>3, <2>4
<1>3. CASE h \notin DOMAIN doc.entries
  BY <1>1, <1>3 DEF RowOf, RowsIn, NoRow, At
<1>4. QED
  BY <1>2, <1>3

(* A host that has no instance yet gets one, and its row names it. *)
LEMMA MintPaired ==
    ASSUME CoreNow, PairedNow, NEW h \in Host, h \notin Intercepted,
           NEW i, i.host = h, i.id \notin LiveIds,
           serverConfigs' = serverConfigs \cup {i}, hostSettings' = Promoted(h, i.id)
    PROVE  PairedNow'
<1> SUFFICES ASSUME NEW g \in Host
             PROVE  RowOf(hostSettings', g).inst = {c.id : c \in At(serverConfigs', g)}
  BY DEF PairedNow, Paired
<1>1. CASE g = h
  <2>1. At(serverConfigs', h) = {i}
    BY DEF At, Intercepted
  <2>2. RowOf(hostSettings, h) \in Row
    BY RowOfType DEF RowFacts
  <2>3. RowOf(hostSettings', h).inst = {i.id}
    BY <2>2 DEF Promoted, Put, RowOf, Row
  <2>4. QED
    BY <1>1, <2>1, <2>3
<1>2. CASE g # h
  <2>1. At(serverConfigs', g) = At(serverConfigs, g)
    BY <1>2 DEF At
  <2>2. RowOf(hostSettings', g) = RowOf(hostSettings, g)
    BY <1>2 DEF Promoted, Put, RowOf
  <2>3. QED
    BY <2>1, <2>2 DEF PairedNow, Paired
<1>3. QED
  BY <1>1, <1>2

(* A row that is written keeps its instance. *)
LEMMA WritePaired ==
    ASSUME PairedNow, NEW h \in Host, NEW r, r.inst = RowOf(hostSettings, h).inst,
           hostSettings' = Put(hostSettings, h, r), UNCHANGED serverConfigs
    PROVE  PairedNow'
<1>1. \A g \in Host : RowOf(hostSettings', g).inst = RowOf(hostSettings, g).inst
  BY DEF Put, RowOf
<1>2. QED
  BY <1>1 DEF PairedNow, Paired

LEMMA DropPaired ==
    ASSUME CoreNow, PairedNow, NEW c \in serverConfigs
    PROVE  Paired(serverConfigs \ {c}, RowsWithout(c))
<1> SUFFICES ASSUME NEW h \in Host
             PROVE  RowOf(RowsWithout(c), h).inst = {d.id : d \in At(serverConfigs \ {c}, h)}
  BY DEF Paired
<1>1. /\ \A d \in serverConfigs : d.host = c.host => d = c
      /\ c.id \in RowOf(hostSettings, h).inst => c.host = h
  BY OnePerHost DEF CoreNow, PairedNow
<1>2. CASE h = c.host
  BY <1>1, <1>2 DEF RowOf, RowsWithout, NoRow, At
<1>3. CASE h # c.host
  <2>1. At(serverConfigs \ {c}, h) = At(serverConfigs, h)
    BY <1>3 DEF At
  <2>2. RowOf(RowsWithout(c), h) = RowOf(hostSettings, h)
    BY <1>1, <1>3 DEF RowOf, RowsWithout
  <2>3. QED
    BY <2>1, <2>2 DEF PairedNow, Paired
<1>4. QED
  BY <1>2, <1>3

LEMMA RenamePaired ==
    ASSUME CoreNow, PairedNow, NEW c \in serverConfigs, NEW id \in Id, id \notin LiveIds,
           Renamed(c, id)
    PROVE  PairedNow'
<1> DEFINE new == [c EXCEPT !.id = id]
<1> SUFFICES ASSUME NEW h \in Host
             PROVE  RowOf(hostSettings', h).inst = {d.id : d \in At(serverConfigs', h)}
  BY DEF PairedNow, Paired
<1>1. /\ \A d \in serverConfigs : d.host = c.host => d = c
      /\ c.host \in Host /\ RowOf(hostSettings, c.host).inst = {c.id}
      /\ c.id \in RowOf(hostSettings, h).inst => c.host = h
  BY OnePerHost DEF CoreNow, PairedNow
<1>2. new.id = id /\ new.host = c.host
  BY DEF CoreNow, Core, Typed, Config
<1>3. serverConfigs' = (serverConfigs \ {c}) \cup {new}
      /\ hostSettings' = [g \in DOMAIN hostSettings |-> RenamedRow(hostSettings[g], c.id, id)]
  BY DEF Renamed
<1> HIDE DEF new
<1>4. CASE h = c.host
  <2>1. At(serverConfigs', h) = {new}
    BY <1>1, <1>2, <1>3, <1>4 DEF At
  <2>2. h \in DOMAIN hostSettings /\ hostSettings[h] \in Row /\ c.id \in hostSettings[h].inst
    BY <1>1, <1>4 DEF RowOf, NoRow, CoreNow, Core, Typed, IsMap
  <2>3. RowOf(hostSettings', h).inst = {id}
    BY <1>3, <2>2 DEF RowOf, RenamedRow, Row
  <2>4. QED
    BY <1>2, <2>1, <2>3
<1>5. CASE h # c.host
  <2>1. At(serverConfigs', h) = At(serverConfigs, h)
    BY <1>2, <1>3, <1>5 DEF At
  <2>2. RowOf(hostSettings', h) = RowOf(hostSettings, h)
    BY <1>1, <1>3, <1>5 DEF RowOf, RenamedRow
  <2>3. QED
    BY <2>1, <2>2 DEF PairedNow, Paired
<1>6. QED
  BY <1>4, <1>5

(* The file is the memory: always, but for the settings an edit that was   *)
(* rejected has changed and a tier that a boot has forced on.              *)
Kept ==
    /\ ConfigsIn(disk) = serverConfigs
    /\ \A i \in LiveIds : StatusIn(disk)[i] = instanceStatus[i]
    /\ \A h \in Host : RowOf(RowsIn(disk), h) = RowOf(hostSettings, h)
    /\ disk.profiles = profiles
    /\ ~dirty => SettingsIn(disk) = instanceSettings /\ disk.standalone = standaloneOn

LEMMA SaveKept ==
    ASSUME CoreNow', PairedNow', Save
    PROVE  Kept'
<1>1. /\ disk'.entries = Folded(serverConfigs', instanceStatus', instanceSettings', hostSettings')
      /\ disk'.profiles = profiles' /\ disk'.standalone = standaloneOn'
  BY DEF Save, Document
<1>2. /\ Core(serverConfigs', instanceStatus', instanceSettings', hostSettings')
      /\ Paired(serverConfigs', hostSettings')
      /\ \A c, d \in serverConfigs' : c.host = d.host => c = d
  BY OnePerHost DEF CoreNow, PairedNow
<1>3. /\ ConfigsIn(disk') = serverConfigs'
      /\ SettingsIn(disk') = instanceSettings'
      /\ \A i \in Ids(serverConfigs') : StatusIn(disk')[i] = instanceStatus'[i]
      /\ \A h \in Host : RowOf(RowsIn(disk'), h) = RowOf(hostSettings', h)
  BY <1>1, <1>2, FoldKeeps
<1>4. QED
  BY <1>1, <1>3 DEF Kept, Ids, LiveIds

LEMMA BootKept ==
    ASSUME NEW doc, NEW forced \in BOOLEAN, GoodDoc(doc), Boot(doc, forced)
    PROVE  PairedNow' /\ Kept'
<1>1. doc.standalone \in BOOLEAN
  BY DEF GoodDoc, IsDoc
<1>2. PairedNow'
  BY BootPaired DEF PairedNow, Boot
<1>3. ~dirty' => disk'.standalone = standaloneOn'
  BY <1>1 DEF Boot
<1>4. QED
  BY <1>2, <1>3 DEF Boot, Kept

LEMMA OneNow ==
    ASSUME CoreNow, PairedNow
    PROVE  \A c \in serverConfigs : RowOf(hostSettings, c.host).inst = {c.id}
  BY OnePerHost DEF CoreNow, PairedNow

LEMMA PairedStep ==
    ASSUME Canonised, IInv, PairedNow, [Next]_vars
    PROVE  PairedNow'
<1> USE HostAssumption
<1>0. CoreNow /\ CoreNow' /\ GoodDoc(disk) /\ IInv'
  BY NextIInv DEF IInv
<1>1. CASE UNCHANGED <<serverConfigs, hostSettings>>
  BY <1>1 DEF PairedNow, Paired, At
<1>2. ASSUME NEW h \in Host, NEW base \in Id, AddInstance(h, base)
      PROVE  PairedNow'
  <2>1. PICK i \in NewInstances(h, base) : Push(i) /\ hostSettings' = Promoted(h, i.id)
    BY <1>2 DEF AddInstance
  <2>2. i.host = h /\ i.id \notin LiveIds
    BY <2>1 DEF NewInstances, FirstFree
  <2>3. QED
    BY <1>0, <1>2, <2>1, <2>2, MintPaired DEF AddInstance, Push
<1>3. ASSUME NEW h \in Host, EnableSsl(h) PROVE PairedNow'
  <2>1. ASSUME NEW c \in serverConfigs, c.host = h, hostSettings' = Promoted(h, c.id),
               UNCHANGED serverConfigs
        PROVE  PairedNow'
    <3> DEFINE r == [RowOf(hostSettings, h) EXCEPT !.ssl = TRUE, !.inst = {c.id}]
    <3>1. RowOf(hostSettings, h).inst = {c.id}
      BY <1>0, <2>1, OneNow
    <3>2. r.inst = {c.id}
      BY <1>0, RowOfType DEF RowFacts, Row
    <3>3. QED
      BY <2>1, <3>1, <3>2, WritePaired DEF Promoted
  <2>2. ASSUME h \notin Intercepted, NEW i \in NewInstances(Canon[h], SlugOf[h]),
               Push(i), hostSettings' = Promoted(h, i.id)
        PROVE  PairedNow'
    <3>1. i.host = h /\ i.id \notin LiveIds
      BY <2>2 DEF NewInstances, FirstFree, Canonised
    <3>2. QED
      BY <1>0, <2>2, <3>1, MintPaired DEF Push
  <2>3. QED
    BY <1>3, <2>1, <2>2 DEF EnableSsl
<1>4. ASSUME NEW h \in Host, DisableSsl(h) \/ \E pref \in BOOLEAN : SetPreference(h, pref)
      PROVE  PairedNow'
  <2>1. RowOf(hostSettings, h) \in Row
    BY <1>0, RowOfType DEF RowFacts
  <2>2. CASE DisableSsl(h)
    BY <2>1, <2>2, WritePaired DEF DisableSsl, Row
  <2>3. ASSUME NEW pref \in BOOLEAN, SetPreference(h, pref) PROVE PairedNow'
    BY <2>1, <2>3, WritePaired DEF SetPreference, Row
  <2>4. QED
    BY <1>4, <2>2, <2>3
<1>5. ASSUME NEW c \in serverConfigs, RemoveInstance(c) PROVE PairedNow'
  BY <1>0, <1>5, DropPaired DEF RemoveInstance, Dropped, PairedNow
<1>6. ASSUME NEW h \in Host, ForgetHost(h) PROVE PairedNow'
  <2>1. ASSUME NEW c \in serverConfigs, c.id \in hostSettings[h].inst, h \in DOMAIN hostSettings,
               Dropped(c), hostSettings' = Without(RowsWithout(c), h)
        PROVE  PairedNow'
    <3>1. c.host = h
      BY <1>0, <2>1, OnePerHost DEF CoreNow, PairedNow, RowOf
    <3>2. hostSettings' = RowsWithout(c)
      BY <2>1, <3>1 DEF Without, RowsWithout
    <3>3. QED
      BY <1>0, <2>1, <3>2, DropPaired DEF Dropped, PairedNow
  <2>2. ASSUME h \in DOMAIN hostSettings, hostSettings[h].inst \cap LiveIds = {},
               hostSettings' = Without(hostSettings, h), UNCHANGED serverConfigs
        PROVE  PairedNow'
    <3>1. hostSettings[h].inst = {}
      BY <1>0, <2>2 DEF CoreNow, Core, Pointing, Ids, LiveIds
    <3>2. \A g \in Host : RowOf(hostSettings', g).inst = RowOf(hostSettings, g).inst
      BY <2>2, <3>1 DEF RowOf, NoRow, Without
    <3>3. QED
      BY <2>2, <3>2 DEF PairedNow, Paired
  <2>3. QED
    BY <1>6, <2>1, <2>2 DEF ForgetHost
<1>7. ASSUME NEW c \in serverConfigs, NEW id \in Id, RenameInstance(c, id) PROVE PairedNow'
  BY <1>0, <1>7, RenamePaired DEF RenameInstance
<1>8. ASSUME NEW forced \in BOOLEAN,
             Restart(forced) \/ \E h \in Host, base \in Id : DieCreating(h, base, forced)
      PROVE  PairedNow'
  BY <1>8, BootsGoodDoc, BootKept
<1>9. QED
  BY <1>1, <1>2, <1>3, <1>4, <1>5, <1>6, <1>7, <1>8 DEF Next, Standalone, StandaloneOn, StandaloneOff,
     Toggle, EditSettings, EditRejected, SaveProfile, LoadProfile, DeleteProfile, OtherSave, vars

LEMMA KeptStep ==
    ASSUME Canonised, IInv, PairedNow, Kept, [Next]_vars
    PROVE  Kept'
<1>0. CoreNow' /\ PairedNow' /\ IInv
  BY NextIInv, PairedStep DEF IInv
<1>1. CASE Save
  BY <1>0, <1>1, SaveKept
<1>2. ASSUME NEW id \in DOMAIN instanceSettings, NEW value \in Setting, EditRejected(id, value)
      PROVE  Kept'
  BY <1>2 DEF EditRejected, Kept, LiveIds
<1>3. ASSUME NEW forced \in BOOLEAN,
             Restart(forced) \/ \E h \in Host, base \in Id : DieCreating(h, base, forced)
      PROVE  Kept'
  BY <1>3, BootsGoodDoc, BootKept
<1>4. CASE UNCHANGED vars
  BY <1>4 DEF vars, Kept, LiveIds
<1>5. QED
  BY <1>1, <1>2, <1>3, <1>4 DEF Next, Standalone, StandaloneOn, StandaloneOff, AddInstance,
     EnableSsl, DisableSsl, ForgetHost, SetPreference, RemoveInstance, RenameInstance, Toggle,
     EditSettings, SaveProfile, LoadProfile, DeleteProfile, OtherSave

LEMMA InitPaired == Init => PairedNow /\ Kept
<1> SUFFICES ASSUME Init PROVE PairedNow /\ Kept
  OBVIOUS
<1>1. disk.entries = EmptyMap /\ disk.profiles = EmptyMap /\ disk.standalone = FALSE
  BY DEF Init
<1>2. ConfigsIn(disk) = {} /\ SavedIn(disk) = {}
  BY <1>1 DEF ConfigsIn, SavedIn, EmptyMap
<1>3. SettingsIn(disk) = EmptyMap /\ RowsIn(disk) = EmptyMap
  BY <1>1, <1>2 DEF SettingsIn, RowsIn, EmptyMap
<1>4. \A h \in Host : RowOf(EmptyMap, h) = NoRow
  BY DEF RowOf, EmptyMap
<1>5. LiveIds = {} /\ \A h \in Host : At(serverConfigs, h) = {}
  BY DEF Init, LiveIds, At
<1>6. PairedNow
  BY <1>4, <1>5 DEF Init, PairedNow, Paired, NoRow
<1>7. Kept
  BY <1>1, <1>2, <1>3, <1>5 DEF Init, Kept
<1>8. QED
  BY <1>6, <1>7

LEMMA PairedAlways ==
    ASSUME Canonised
    PROVE  Spec => [](IInv /\ PairedNow /\ Kept)
<1>1. IInv /\ PairedNow /\ Kept /\ [Next]_vars => IInv' /\ PairedNow' /\ Kept'
  BY NextIInv, PairedStep, KeptStep
<1>2. QED
  BY InitIInv, InitPaired, <1>1, PTL DEF Spec

---------------------------------------------------------------------------
(* Hosts in any spelling. *)
Single(cfgs, h) == \A c, d \in At(cfgs, h) : c = d

LEMMA BootSingle ==
    ASSUME NEW doc, NEW forced, GoodDoc(doc), Boot(doc, forced), NEW h \in Host
    PROVE  Single(serverConfigs', h)
<1>1. serverConfigs' = ConfigsIn(doc)
  BY DEF Boot
<1>2. \A c \in At(serverConfigs', h) :
          h \in DOMAIN doc.entries /\ \E s \in doc.entries[h].inst :
             c = [id |-> s.id, port |-> s.port, host |-> h]
  BY <1>1 DEF At, ConfigsIn
<1>3. QED
  BY <1>2 DEF Single, GoodDoc

(* Nothing gives a host a second instance but POST /hosts/ssl for another  *)
(* spelling of it, which ensureInstanceForHost looks up as it is spelled   *)
(* and stores as URL parsing returns it: not a target added by hand, a     *)
(* rename, a boot, or a crash halfway through a creation, whatever the     *)
(* spellings.                                                              *)
THEOREM HostSecondInstance ==
    Spec => [][\A h \in Host :
                  Single(serverConfigs, h) /\ ~Single(serverConfigs', h)
                     => \E g \in Host \ {h} :
                           Canon[g] = h /\ g \notin Intercepted /\ EnableSsl(g)]_vars
<1>1. ASSUME IInv, Next, NEW h \in Host, Single(serverConfigs, h), ~Single(serverConfigs', h)
      PROVE  \E g \in Host \ {h} : Canon[g] = h /\ g \notin Intercepted /\ EnableSsl(g)
  <2>0. CoreNow
    BY <1>1 DEF IInv
  <2>1. \A cfgs \in SUBSET serverConfigs : Single(cfgs, h)
    BY <1>1 DEF Single, At
  <2>2. serverConfigs' \notin SUBSET serverConfigs
    BY <1>1, <2>1
  <2>3. ASSUME NEW i, serverConfigs' = serverConfigs \cup {i} PROVE i.host = h /\ h \in Intercepted
    BY <1>1, <2>3 DEF Single, At, Intercepted
  <2>4. \A g \in Host, base \in Id : ~AddInstance(g, base)
    BY <2>3 DEF AddInstance, NewInstances, Push
  <2>5. ASSUME NEW g \in Host, EnableSsl(g) PROVE g # h /\ Canon[g] = h /\ g \notin Intercepted
    <3>1. g \notin Intercepted /\ \E i \in NewInstances(Canon[g], SlugOf[g]) : Push(i)
      BY <2>2, <2>5 DEF EnableSsl
    <3>2. PICK i \in NewInstances(Canon[g], SlugOf[g]) : Push(i)
      BY <3>1
    <3>3. i.host = Canon[g] /\ serverConfigs' = serverConfigs \cup {i}
      BY <3>2 DEF NewInstances, Push
    <3>4. Canon[g] = h /\ h \in Intercepted
      BY <2>3, <3>3
    <3>5. QED
      BY <3>1, <3>4
  <2>6. \A c \in serverConfigs, id \in Id : ~RenameInstance(c, id)
    <3> SUFFICES ASSUME NEW c \in serverConfigs, NEW id \in Id, RenameInstance(c, id) PROVE FALSE
      OBVIOUS
    <3> DEFINE new == [c EXCEPT !.id = id]
    <3>1. new.host = c.host
      BY <2>0 DEF CoreNow, Core, Typed, Config
    <3>2. serverConfigs' = (serverConfigs \ {c}) \cup {new}
      BY DEF RenameInstance, Renamed
    <3> HIDE DEF new
    <3>3. QED
      BY <1>1, <3>1, <3>2 DEF Single, At
  <2>7. ASSUME NEW forced \in BOOLEAN,
               Restart(forced) \/ \E g \in Host, base \in Id : DieCreating(g, base, forced)
        PROVE  FALSE
    BY <1>1, <2>7, BootsGoodDoc, BootSingle
  <2>8. (\E c \in serverConfigs : RemoveInstance(c)) \/ (\E g \in Host : ForgetHost(g)) => FALSE
    BY <2>2 DEF RemoveInstance, ForgetHost, Dropped
  <2>9. QED
    BY <1>1, <2>2, <2>4, <2>5, <2>6, <2>7, <2>8 DEF Next, Standalone, StandaloneOn, StandaloneOff,
       DisableSsl, SetPreference, Toggle, EditSettings, EditRejected, SaveProfile, LoadProfile,
       DeleteProfile, OtherSave
<1>2. IInv /\ [Next]_vars
      => [\A h \in Host :
             Single(serverConfigs, h) /\ ~Single(serverConfigs', h)
                => \E g \in Host \ {h} :
                      Canon[g] = h /\ g \notin Intercepted /\ EnableSsl(g)]_vars
  BY <1>1
<1>3. QED
  BY HostInvariant, <1>2, PTL DEF Spec

---------------------------------------------------------------------------
(* A restart gives back what was there: the fold into one entry per host   *)
(* and the unfold of it lose nothing, for hosts spelled that way.          *)
THEOREM HostRestartKeeps ==
    ASSUME Canonised
    PROVE  Spec => []RestartKeeps
<1>1. Kept => RestartKeeps
  BY DEF Kept, RestartKeeps
<1>2. QED
  BY PairedAlways, <1>1, PTL

(* A host that keeps its row keeps its port, whatever the step. *)
PortsAt(cfgs, h) == {c.port : c \in At(cfgs, h)}

LEMMA PortOfAt ==
    ASSUME NEW cfgs, NEW rows, Unique(cfgs), Paired(cfgs, rows), NEW h \in Host
    PROVE  {c.port : c \in {c \in cfgs : c.id \in RowOf(rows, h).inst}} = PortsAt(cfgs, h)
<1>1. RowOf(rows, h).inst = {c.id : c \in At(cfgs, h)}
  BY DEF Paired
<1>2. \A c \in cfgs : c.id \in RowOf(rows, h).inst <=> c \in At(cfgs, h)
  BY <1>1 DEF Unique, At
<1>3. QED
  BY <1>2 DEF PortsAt, At

LEMMA CrashConfigs ==
    ASSUME Canonised, IInv, PairedNow, NEW h \in Host, NEW base \in Id, NEW forced \in BOOLEAN,
           DieCreating(h, base, forced)
    PROVE  h \notin Intercepted /\ \E i : i.host = h /\ serverConfigs' = serverConfigs \cup {i}
<1> DEFINE st(i) == Seeded(instanceStatus, i.id, {})
           se(i) == Seeded(instanceSettings, i.id, DefaultSetting)
           E(i) == Folded(serverConfigs \cup {i}, st(i), se(i), hostSettings)
           D(i) == [Document EXCEPT !.entries = E(i)]
<1>1. PICK i \in NewInstances(Canon[h], base) : Boot(D(i), forced)
  BY DEF DieCreating
<1>2. i.host = h /\ Core(serverConfigs \cup {i}, st(i), se(i), hostSettings)
  BY <1>1, PushCore DEF IInv, Canonised
<1>3. h \notin Intercepted
  BY DEF DieCreating
<1>4. \A c, d \in serverConfigs \cup {i} : c.host = d.host => c = d
  BY <1>2, <1>3, OnePerHost DEF IInv, CoreNow, PairedNow, Intercepted
<1>5. D(i).entries = E(i)
  BY DEF Document
<1> HIDE DEF D, st, se
<1>6. ConfigsIn(D(i)) = serverConfigs \cup {i}
  BY <1>2, <1>4, <1>5, FoldKeeps
<1>7. serverConfigs' = ConfigsIn(D(i))
  BY <1>1 DEF Boot
<1>8. QED
  BY <1>2, <1>3, <1>6, <1>7

LEMMA PortsStay ==
    ASSUME Canonised, IInv, PairedNow, Kept, [Next]_vars, NEW h \in Host,
           h \in DOMAIN hostSettings, h \in DOMAIN hostSettings', At(serverConfigs, h) # {}
    PROVE  PortsAt(serverConfigs', h) = PortsAt(serverConfigs, h)
<1>0. CoreNow /\ h \in Intercepted
  BY DEF IInv, At, Intercepted
<1>1. CASE UNCHANGED serverConfigs
  BY <1>1 DEF PortsAt, At
<1>2. ASSUME NEW g \in Host, g \notin Intercepted,
             \E i : i.host = g /\ serverConfigs' = serverConfigs \cup {i}
      PROVE  PortsAt(serverConfigs', h) = PortsAt(serverConfigs, h)
  BY <1>0, <1>2 DEF PortsAt, At
<1>3. ASSUME NEW g \in Host, (\E base \in Id : AddInstance(g, base)) \/ EnableSsl(g)
      PROVE  PortsAt(serverConfigs', h) = PortsAt(serverConfigs, h)
  BY <1>1, <1>2, <1>3 DEF AddInstance, EnableSsl, NewInstances, Push, Canonised
<1>4. ASSUME NEW c \in serverConfigs, Dropped(c), h # c.host
      PROVE  PortsAt(serverConfigs', h) = PortsAt(serverConfigs, h)
  BY <1>4 DEF Dropped, PortsAt, At
<1>5. ASSUME NEW c \in serverConfigs, RemoveInstance(c)
      PROVE  PortsAt(serverConfigs', h) = PortsAt(serverConfigs, h)
  BY <1>4, <1>5 DEF RemoveInstance, RowsWithout
<1>6. ASSUME NEW g \in Host, ForgetHost(g)
      PROVE  PortsAt(serverConfigs', h) = PortsAt(serverConfigs, h)
  BY <1>1, <1>4, <1>6 DEF ForgetHost, RowsWithout, Without
<1>7. ASSUME NEW c \in serverConfigs, NEW id \in Id, RenameInstance(c, id)
      PROVE  PortsAt(serverConfigs', h) = PortsAt(serverConfigs, h)
  <2> DEFINE new == [c EXCEPT !.id = id]
  <2>1. new.host = c.host /\ new.port = c.port
    BY <1>0 DEF CoreNow, Core, Typed, Config
  <2>2. serverConfigs' = (serverConfigs \ {c}) \cup {new}
    BY <1>7 DEF RenameInstance, Renamed
  <2> HIDE DEF new
  <2>3. QED
    BY <2>1, <2>2 DEF PortsAt, At
<1>8. ASSUME NEW forced \in BOOLEAN, Restart(forced)
      PROVE  PortsAt(serverConfigs', h) = PortsAt(serverConfigs, h)
  BY <1>1, <1>8 DEF Restart, Boot, Kept
<1>9. ASSUME NEW forced \in BOOLEAN, NEW g \in Host, NEW base \in Id, DieCreating(g, base, forced)
      PROVE  PortsAt(serverConfigs', h) = PortsAt(serverConfigs, h)
  BY <1>2, <1>9, CrashConfigs
<1>10. QED
  BY <1>1, <1>3, <1>5, <1>6, <1>7, <1>8, <1>9 DEF Next, Standalone, StandaloneOn, StandaloneOff,
     DisableSsl, SetPreference, Toggle, EditSettings, EditRejected, SaveProfile, LoadProfile,
     DeleteProfile, OtherSave, vars

(* While a host keeps its row nothing moves it to another port: not the    *)
(* switch, nor a rename, a restart or a crash halfway through a creation.  *)
THEOREM HostStablePort ==
    ASSUME Canonised
    PROVE  Spec => StablePort
<1>1. ASSUME IInv, PairedNow, Kept, [Next]_vars, NEW h \in Host, h \in DOMAIN hostSettings,
             h \in DOMAIN hostSettings', PortOf(h) # {}
      PROVE  PortOf(h)' = PortOf(h)
  <2>1. PortOf(h) = PortsAt(serverConfigs, h)
    BY <1>1, PortOfAt DEF IInv, CoreNow, Core, PairedNow, PortOf
  <2>2. At(serverConfigs, h) # {}
    BY <1>1, <2>1 DEF PortsAt
  <2>3. PortsAt(serverConfigs', h) = PortsAt(serverConfigs, h)
    BY <1>1, <2>2, PortsStay
  <2>4. IInv' /\ PairedNow'
    BY <1>1, NextIInv, PairedStep
  <2>5. PortOf(h)' = PortsAt(serverConfigs', h)
    BY <2>4, PortOfAt DEF IInv, CoreNow, Core, PairedNow, PortOf
  <2>6. QED
    BY <2>1, <2>3, <2>5
<1>2. IInv /\ PairedNow /\ Kept /\ [Next]_vars
      => [\A h \in Host :
             h \in DOMAIN hostSettings /\ h \in DOMAIN hostSettings' /\ PortOf(h) # {}
                => PortOf(h)' = PortOf(h)]_vars
  BY <1>1
<1>3. QED
  BY PairedAlways, <1>2, PTL DEF Spec, StablePort
===========================================================================
