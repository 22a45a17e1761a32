------------------------- MODULE HostRegistryProofs -------------------------
(***************************************************************************)
(* Theorems about the host registry, for any number of hosts, any cap and  *)
(* any bound on the touches, and about the copy of it that a dashboard     *)
(* keeps, for any number of frames in the socket.                          *)
(*                                                                         *)
(* The invariant is inductive as it stands: the counter dominates every    *)
(* record, so a touch takes a number nobody has.  That the oldest make     *)
(* room needs no more than its types: the number of uncommitted records    *)
(* below a record grows with the record's own number.                      *)
(***************************************************************************)
EXTENDS HostView, FiniteSetTheorems, TLAPS

USE RegistryAssumption

RegistryInv == TypeOK /\ DirtyIsScheduled /\ OrderIsTotal

(* A touch puts the host on top of the map and leaves the others alone. *)
LEMMA TouchedMap ==
    ASSUME RegistryInv, NEW h \in Host, seq < MaxSeq
    PROVE  /\ IsList(Touched(h))
           /\ DOMAIN Touched(h) = Known \cup {h}
           /\ Touched(h)[h].seq = seq + 1
           /\ \A k \in Known \ {h} : Touched(h)[k] = hosts[k]
<1>1. HitsOf(h) \in Nat
  BY DEF RegistryInv, TypeOK, IsList, Record, HitsOf, Known
<1>2. DOMAIN Touched(h) = Known \cup {h}
  BY DEF Touched, Merge, Known
<1>3. Touched(h)[h] = [seq |-> seq + 1, hits |-> HitsOf(h) + 1]
  BY DEF Touched, Merge
<1>4. \A k \in Known \ {h} : Touched(h)[k] = hosts[k]
  BY DEF Touched, Merge, Known
<1>5. [seq |-> seq + 1, hits |-> HitsOf(h) + 1] \in Record
  BY <1>1 DEF RegistryInv, TypeOK, Record
<1>6. Touched(h) \in [DOMAIN Touched(h) -> Record]
  <2>1. \A k \in DOMAIN Touched(h) : Touched(h)[k] \in Record
    BY <1>2, <1>3, <1>4, <1>5 DEF RegistryInv, TypeOK, IsList, Known
  <2>2. Touched(h) = [k \in DOMAIN Touched(h) |-> Touched(h)[k]]
    BY DEF Touched, Merge
  <2> QED
    BY <2>1, <2>2
<1> QED
  BY <1>2, <1>3, <1>4, <1>6 DEF RegistryInv, TypeOK, IsList, Known

(* Restricting a list to some hosts gives a list. *)
LEMMA OnlyList ==
    ASSUME NEW map, IsList(map), NEW S
    PROVE  /\ IsList(Only(map, S))
           /\ DOMAIN Only(map, S) = DOMAIN map \cap S
           /\ \A h \in DOMAIN map \cap S : Only(map, S)[h] = map[h]
BY DEF IsList, Only

(* The order is total on the map a touch leaves. *)
LEMMA TouchedOrder ==
    ASSUME RegistryInv, NEW h \in Host, seq < MaxSeq
    PROVE  /\ \A j, k \in DOMAIN Touched(h) : Touched(h)[j].seq = Touched(h)[k].seq => j = k
           /\ \A k \in DOMAIN Touched(h) : Touched(h)[k].seq <= seq + 1
<1>1. \A k \in Known : hosts[k].seq \in Nat /\ hosts[k].seq <= seq
  BY DEF RegistryInv, OrderIsTotal, TypeOK, IsList, Record, Known
<1>2. seq \in Nat
  BY DEF RegistryInv, TypeOK
<1>3. \A j, k \in Known : hosts[j].seq = hosts[k].seq => j = k
  BY DEF RegistryInv, OrderIsTotal
<1> DEFINE map == Touched(h)
<1>4. /\ DOMAIN map = Known \cup {h}
      /\ map[h].seq = seq + 1
      /\ \A k \in Known \ {h} : map[k] = hosts[k]
  BY TouchedMap
<1> HIDE DEF map
<1>5. \A k \in Known \ {h} : map[k].seq = hosts[k].seq /\ map[k].seq <= seq
  BY <1>1, <1>4
<1>6. \A k \in Known \ {h} : map[k].seq \in Nat /\ map[k].seq # seq + 1
  BY <1>1, <1>2, <1>5
<1>7. ASSUME NEW j \in DOMAIN map, NEW k \in DOMAIN map, map[j].seq = map[k].seq
      PROVE  j = k
  <2>1. CASE j = h \/ k = h
    BY <1>4, <1>6, <1>7, <2>1
  <2>2. CASE j # h /\ k # h
    BY <1>3, <1>4, <1>5, <1>7, <2>2
  <2> QED
    BY <2>1, <2>2
<1>8. \A k \in DOMAIN map : map[k].seq <= seq + 1
  BY <1>2, <1>4, <1>5, <1>6
<1> QED
  BY <1>7, <1>8 DEF map

(* A host that is seen stays in the map with the hosts that make no room,  *)
(* and they keep what the touch left them.                                 *)
LEMMA SeenMap ==
    ASSUME RegistryInv, NEW h \in Host, Seen(h)
    PROVE  /\ IsList(hosts')
           /\ DOMAIN hosts' = (Known \cup {h}) \cap (Host \ Evicted(Touched(h)))
           /\ \A k \in DOMAIN hosts' : hosts'[k] = Touched(h)[k]
<1> DEFINE gone == Evicted(Touched(h))
<1>1. seq < MaxSeq /\ hosts' = Only(Touched(h), Host \ gone)
  BY DEF Seen
<1>2. IsList(Touched(h)) /\ DOMAIN Touched(h) = Known \cup {h}
  BY <1>1, TouchedMap
<1> HIDE DEF gone
<1> DEFINE map  == Touched(h)
           rest == Only(map, Host \ gone)
<1>3. hosts' = rest
  BY <1>1
<1>4. /\ IsList(rest)
      /\ DOMAIN rest = DOMAIN map \cap (Host \ gone)
      /\ \A k \in DOMAIN map \cap (Host \ gone) : rest[k] = map[k]
  <2>1. IsList(map)
    BY <1>2
  <2> HIDE DEF map
  <2> QED
    BY <2>1, OnlyList
<1>5. DOMAIN map = Known \cup {h}
  BY <1>2
<1> HIDE DEF map, rest
<1>6. IsList(hosts')
  BY <1>3, <1>4
<1>7. DOMAIN hosts' = (Known \cup {h}) \cap (Host \ gone)
  BY <1>3, <1>4, <1>5
<1>8. \A k \in DOMAIN hosts' : hosts'[k] = map[k]
  BY <1>3, <1>4, <1>5, <1>7
<1> QED
  BY <1>6, <1>7, <1>8 DEF map, gone

LEMMA SeenInv == ASSUME RegistryInv, NEW h \in Host, Seen(h) PROVE RegistryInv'
<1> DEFINE gone == Evicted(Touched(h))
<1>0. seq < MaxSeq /\ seq' = seq + 1 /\ hosts' = Only(Touched(h), Host \ gone)
  BY DEF Seen
<1>1. IsList(Touched(h)) /\ DOMAIN Touched(h) = Known \cup {h}
  BY <1>0, TouchedMap
<1>2. /\ IsList(hosts')
      /\ DOMAIN hosts' = (Known \cup {h}) \cap (Host \ gone)
      /\ \A k \in DOMAIN hosts' : hosts'[k] = Touched(h)[k]
  BY SeenMap
<1> HIDE DEF gone
<1>3. DOMAIN hosts' \subseteq DOMAIN Touched(h)
  BY <1>1, <1>2
<1>4. TypeOK'
  BY <1>0, <1>2 DEF Seen, Marked, RegistryInv, TypeOK
<1>5. DirtyIsScheduled'
  BY <1>2 DEF Seen, Marked, RegistryInv, TypeOK, DirtyIsScheduled, Known, gone
<1>6. OrderIsTotal'
  <2>1. /\ \A j, k \in DOMAIN Touched(h) : Touched(h)[j].seq = Touched(h)[k].seq => j = k
        /\ \A k \in DOMAIN Touched(h) : Touched(h)[k].seq <= seq + 1
    BY <1>0, TouchedOrder
  <2>2. \A j, k \in DOMAIN hosts' : hosts'[j].seq = hosts'[k].seq => j = k
    BY <1>2, <1>3, <2>1
  <2>3. \A k \in DOMAIN hosts' : hosts'[k].seq <= seq'
    BY <1>0, <1>2, <1>3, <2>1
  <2> QED
    BY <2>2, <2>3 DEF OrderIsTotal, Known
<1> QED
  BY <1>4, <1>5, <1>6 DEF RegistryInv

LEMMA NoteInv == ASSUME RegistryInv, NEW h \in Host, NoteRequest(h) PROVE RegistryInv'
<1>0. seq < MaxSeq /\ seq' = seq + 1 /\ hosts' = Touched(h)
  BY DEF NoteRequest
<1>1. IsList(Touched(h)) /\ DOMAIN Touched(h) = Known \cup {h}
  BY <1>0, TouchedMap
<1>2. TypeOK'
  BY <1>0, <1>1 DEF NoteRequest, Marked, RegistryInv, TypeOK
<1>3. DirtyIsScheduled'
  BY <1>0, <1>1 DEF NoteRequest, Marked, RegistryInv, DirtyIsScheduled, Known
<1>4. OrderIsTotal'
  BY <1>0, TouchedOrder DEF OrderIsTotal, Known
<1> QED
  BY <1>2, <1>3, <1>4 DEF RegistryInv

LEMMA ClearInv == ASSUME RegistryInv, NEW h \in Known, ClearCounters(h) PROVE RegistryInv'
<1>1. hosts' = [hosts EXCEPT ![h].hits = 0] /\ seq' = seq
  BY DEF ClearCounters
<1>2. /\ IsList(hosts')
      /\ DOMAIN hosts' = Known
      /\ \A k \in Known : hosts'[k].seq = hosts[k].seq
  BY <1>1 DEF RegistryInv, TypeOK, IsList, Record, Known
<1>3. h \in Host
  BY DEF RegistryInv, TypeOK, IsList, Known
<1>4. TypeOK'
  BY <1>2, <1>3 DEF ClearCounters, Marked, RegistryInv, TypeOK
<1>5. DirtyIsScheduled'
  BY <1>2 DEF ClearCounters, Marked, RegistryInv, DirtyIsScheduled, Known
<1>6. OrderIsTotal'
  BY <1>1, <1>2 DEF RegistryInv, OrderIsTotal, Known
<1> QED
  BY <1>4, <1>5, <1>6 DEF RegistryInv

LEMMA ForgetInv == ASSUME RegistryInv, NEW h \in Host, Forget(h) PROVE RegistryInv'
<1>1. hosts' = Only(hosts, Host \ {h}) /\ seq' = seq
  BY DEF Forget
<1>2. /\ IsList(hosts')
      /\ DOMAIN hosts' = Known \cap (Host \ {h})
      /\ \A k \in DOMAIN hosts' : hosts'[k] = hosts[k]
  BY ZenonT(60), <1>1, OnlyList DEF RegistryInv, TypeOK, Known
<1>3. TypeOK'
  BY <1>2 DEF Forget, RegistryInv, TypeOK
<1>4. DirtyIsScheduled'
  BY SMTT(30), <1>2 DEF Forget, RegistryInv, TypeOK, DirtyIsScheduled, Known
<1>5. OrderIsTotal'
  BY <1>1, <1>2 DEF RegistryInv, OrderIsTotal, Known
<1> QED
  BY <1>3, <1>4, <1>5 DEF RegistryInv

LEMMA RestartInv == ASSUME RegistryInv, Restart PROVE RegistryInv'
<1> DEFINE rows == {h \in Host : opinion[h] # "none"}
           n    == Cardinality(rows)
<1>1. n \in Nat /\ n <= MaxSeq
  BY FS_Subset, FS_CardinalityType DEF Restart, Seeded
<1>2. PICK place \in [rows -> 1..n] :
        /\ \A h, k \in rows : place[h] = place[k] => h = k
        /\ hosts' = [h \in rows |-> [seq |-> place[h], hits |-> 0]]
  BY DEF Restart, Seeded
<1>3. /\ seq' = n
      /\ dirty' = rows
      /\ armed' = (rows # {})
      /\ serving' = {}
      /\ opinion' = opinion
  BY DEF Restart, Seeded
<1>4. \A h \in rows : place[h] \in 1..n /\ place[h] \in 1..MaxSeq
  BY <1>1, <1>2
<1>0. rows \subseteq Host
  OBVIOUS
<1> HIDE DEF n, rows
<1>5. DOMAIN hosts' = rows /\ \A h \in rows : hosts'[h] = [seq |-> place[h], hits |-> 0]
  BY <1>2
<1>6. IsList(hosts')
  <2>1. ASSUME NEW h \in rows PROVE hosts'[h] \in Record
    <3>1. place[h] \in 1..MaxSeq
      BY <1>4
    <3>2. hosts'[h] = [seq |-> place[h], hits |-> 0]
      BY <1>5
    <3> QED
      BY <3>1, <3>2 DEF Record
  <2>2. hosts' \in [rows -> Record]
    BY <1>2, <2>1
  <2> QED
    BY <1>0, <1>5, <2>2 DEF IsList
<1>7. TypeOK'
  BY <1>0, <1>1, <1>3, <1>6 DEF RegistryInv, TypeOK
<1>8. DirtyIsScheduled'
  BY <1>3, <1>5 DEF DirtyIsScheduled, Known
<1>9. OrderIsTotal'
  <2>1. ASSUME NEW h \in rows PROVE hosts'[h].seq = place[h]
    <3>1. hosts'[h] = [seq |-> place[h], hits |-> 0]
      BY <1>5
    <3> QED
      BY <3>1
  <2> QED
    BY <1>1, <1>2, <1>3, <1>4, <1>5, <2>1 DEF OrderIsTotal, Known
<1> QED
  BY <1>7, <1>8, <1>9 DEF RegistryInv

LEMMA NextInv == RegistryInv /\ [Next]_vars => RegistryInv'
<1> SUFFICES ASSUME RegistryInv, [Next]_vars PROVE RegistryInv'
  OBVIOUS
<1>1. ASSUME NEW h \in Host, Seen(h) PROVE RegistryInv'
  BY <1>1, SeenInv
<1>2. ASSUME NEW h \in Host, NoteRequest(h) PROVE RegistryInv'
  BY <1>2, NoteInv
<1>3. ASSUME NEW h \in Host, Dial(h) \/ Close(h) PROVE RegistryInv'
  BY <1>3 DEF Close, Dial, RegistryInv, TypeOK, DirtyIsScheduled, OrderIsTotal, Known
<1>4. ASSUME NEW h \in Host, Forget(h) PROVE RegistryInv'
  BY <1>4, ForgetInv
<1>5. ASSUME NEW h \in Known, ClearCounters(h) PROVE RegistryInv'
  BY <1>5, ClearInv
<1>6. ASSUME NEW h \in Host, NEW o \in Opinion, SetOpinion(h, o) PROVE RegistryInv'
  BY <1>6 DEF SetOpinion, RegistryInv, TypeOK, DirtyIsScheduled, OrderIsTotal, Known
<1>7. CASE Flush
  BY <1>7 DEF Flush, RegistryInv, TypeOK, DirtyIsScheduled, OrderIsTotal, Known
<1>8. CASE Restart
  BY <1>8, RestartInv
<1>9. CASE UNCHANGED vars
  BY <1>9 DEF vars, RegistryInv, TypeOK, DirtyIsScheduled, OrderIsTotal, Known
<1> QED
  BY <1>1, <1>2, <1>3, <1>4, <1>5, <1>6, <1>7, <1>8, <1>9 DEF Next

LEMMA InitInv == Init => RegistryInv
<1> SUFFICES ASSUME Init PROVE RegistryInv
  OBVIOUS
<1>1. DOMAIN hosts = {} /\ hosts \in [{} -> Record]
  BY DEF Init
<1>2. IsList(hosts)
  BY <1>1 DEF IsList
<1>3. TypeOK
  <2>1. opinion \in [Host -> Opinion]
    BY DEF Init, RegistryAssumption
  <2>2. seq \in 0..MaxSeq
    BY DEF Init, RegistryAssumption
  <2> QED
    BY <1>2, <2>1, <2>2 DEF Init, TypeOK
<1>4. DirtyIsScheduled
  BY DEF Init, DirtyIsScheduled
<1>5. OrderIsTotal
  BY <1>1 DEF OrderIsTotal, Known
<1> QED
  BY <1>3, <1>4, <1>5 DEF RegistryInv

(* Types, scheduling and order hold together for every instance. *)
THEOREM RegistryInvariant == Spec => []RegistryInv
BY InitInv, NextInv, PTL DEF Spec

(* A touched host is always on its way to be told. *)
THEOREM RegistryDirtyIsScheduled == Spec => []DirtyIsScheduled
<1>1. RegistryInv => DirtyIsScheduled
  BY DEF RegistryInv
<1> QED
  BY RegistryInvariant, <1>1, PTL

(* Records are never tied, however touches, evictions and restarts mix. *)
THEOREM RegistryOrderIsTotal == Spec => []OrderIsTotal
<1>1. RegistryInv => OrderIsTotal
  BY DEF RegistryInv
<1> QED
  BY RegistryInvariant, <1>1, PTL

(* The more recent an uncommitted record, the later it is evicted. *)
LEMMA EvictedFirst ==
    ASSUME NEW map, IsList(map), NEW x \in Evicted(map),
           NEW k \in Evictable(map), k \notin Evicted(map)
    PROVE  map[x].seq < map[k].seq
<1> DEFINE Below(h) == {j \in Evictable(map) : map[j].seq < map[h].seq}
<1>1. IsFiniteSet(Evictable(map)) /\ IsFiniteSet(DOMAIN map)
  BY FS_Subset DEF Evictable, IsList
<1>2. \A h : IsFiniteSet(Below(h)) /\ Cardinality(Below(h)) \in Nat
  BY <1>1, FS_Subset, FS_CardinalityType
<1>3. Cardinality(DOMAIN map) \in Nat
  BY <1>1, FS_CardinalityType
<1>4. Cardinality(Below(x)) + MaxHosts < Cardinality(DOMAIN map)
  BY DEF Evicted
<1>5. ~(Cardinality(Below(k)) + MaxHosts < Cardinality(DOMAIN map))
  BY DEF Evicted
<1>6. \A h \in Evictable(map) : map[h].seq \in Nat
  BY DEF Evictable, IsList, Record
<1>7. x \in Evictable(map)
  BY DEF Evicted
<1>8. SUFFICES ASSUME ~(map[x].seq < map[k].seq) PROVE FALSE
  OBVIOUS
<1>9. Below(k) \subseteq Below(x)
  BY <1>6, <1>7, <1>8
<1>10. Cardinality(Below(k)) <= Cardinality(Below(x))
  BY <1>2, <1>9, FS_Subset
<1> HIDE DEF Below
<1> QED
  BY <1>2, <1>3, <1>4, <1>5, <1>10

(* Only the least recently seen uncommitted hosts make room. *)
THEOREM RegistryOldestMakesRoom == Spec => OldestMakesRoom
<1> DEFINE Room(x) ==
      \/ Forget(x) \/ Restart
      \/ /\ opinion[x] # "major"
         /\ \A k \in Known \cap DOMAIN hosts' :
               opinion[k] # "major" => hosts'[k].seq > hosts[x].seq
<1>1. ASSUME RegistryInv, [Next]_vars, NEW x \in Known \ DOMAIN hosts'
      PROVE  Room(x)
  <2>0. hosts \in [Known -> Record] /\ Known \subseteq Host /\ x \in Host
    BY <1>1 DEF RegistryInv, TypeOK, IsList, Known
  <2>1. ASSUME NEW h \in Host, Seen(h) PROVE Room(x)
    <3> DEFINE map == Touched(h)
    <3>1. /\ IsList(map)
          /\ DOMAIN map = Known \cup {h}
          /\ map[h].seq = seq + 1
          /\ \A k \in Known \ {h} : map[k] = hosts[k]
      BY <1>1, <2>1, TouchedMap DEF Seen
    <3>2. hosts' = Only(map, Host \ Evicted(map))
      BY <2>1 DEF Seen
    <3>3. /\ DOMAIN hosts' = (Known \cup {h}) \cap (Host \ Evicted(map))
          /\ \A k \in DOMAIN hosts' : hosts'[k] = map[k]
      BY <2>1, <1>1, SeenMap
    <3>4. x \in Evicted(map)
      BY <1>1, <2>0, <3>3
    <3>5. opinion[x] # "major"
      BY <3>4 DEF Evicted, Evictable
    <3>6. ASSUME NEW k \in Known \cap DOMAIN hosts', opinion[k] # "major"
          PROVE  hosts'[k].seq > hosts[x].seq
      <4>1. k \in Evictable(map) /\ k \notin Evicted(map)
        BY <3>1, <3>3, <3>6 DEF Evictable
      <4>2. map[x].seq < map[k].seq
        BY <3>1, <3>4, <4>1, EvictedFirst
      <4>3. hosts'[k] = map[k]
        BY <3>3
      <4>4. /\ hosts[x].seq \in Nat /\ hosts[x].seq <= seq /\ seq \in Nat
            /\ map[k].seq \in Nat /\ map[x].seq \in Nat
        <5>1. k \in DOMAIN map /\ x \in DOMAIN map
          BY <3>1, <3>3
        <5> QED
          BY <1>1, <2>0, <3>1, <5>1
             DEF RegistryInv, TypeOK, OrderIsTotal, IsList, Record, Known
      <4>5. hosts[x].seq <= map[x].seq
        BY <1>1, <3>1, <4>4
      <4> QED
        BY <4>2, <4>3, <4>4, <4>5
    <3> QED
      BY <3>5, <3>6
  <2>2. ASSUME NEW h \in Host, NoteRequest(h) PROVE Room(x)
    <3>1. DOMAIN hosts' = Known \cup {h}
      BY <1>1, <2>2, TouchedMap DEF NoteRequest
    <3> QED
      BY <1>1, <3>1
  <2>3. ASSUME NEW h \in Host, Forget(h) PROVE Room(x)
    <3>1. DOMAIN hosts' = Known \cap (Host \ {h})
      BY <2>3 DEF Forget, Only, Known
    <3>2. x = h
      BY <1>1, <2>0, <3>1
    <3> QED
      BY <2>3, <3>2
  <2>4. ASSUME NEW h \in Known, ClearCounters(h) PROVE Room(x)
    <3>1. DOMAIN hosts' = Known
      BY <2>4 DEF ClearCounters, Known
    <3> QED
      BY <1>1, <3>1
  <2>5. CASE hosts' = hosts
    BY <1>1, <2>5 DEF Known
  <2> HIDE DEF Room
  <2>6. CASE Restart
    BY <2>6 DEF Room
  <2> QED
    BY <1>1, <2>1, <2>2, <2>3, <2>4, <2>5, <2>6
       DEF Next, Close, Dial, SetOpinion, Flush, vars
<1>2. RegistryInv /\ [Next]_vars =>
        [\A h \in Known \ DOMAIN hosts' :
            \/ Forget(h) \/ Restart
            \/ /\ opinion[h] # "major"
               /\ \A k \in Known \cap DOMAIN hosts' :
                     opinion[k] # "major" => hosts'[k].seq > hosts[h].seq]_vars
  BY <1>1
<1> QED
  BY RegistryInvariant, <1>2, PTL DEF Spec, OldestMakesRoom

---------------------------------------------------------------------------
(* The dashboard's copy.  What a host's record is now is on its way in     *)
(* exactly one place: the host is dirty, or the last frame that carries it *)
(* says so, or else the view does, unless an answer is about to say so.    *)
Lists == UNION {[D -> Record] : D \in SUBSET Host}
Kinds == {"hosts", "forgot", "cleared", "clearedAll"}

Told(h) == \E k \in 1..Len(frames) : h \in DOMAIN frames[k]

LastSays(h) ==
    \A k \in 1..Len(frames) :
        h \in DOMAIN frames[k] /\ (\A j \in (k + 1)..Len(frames) : h \notin DOMAIN frames[j])
           => frames[k][h] = hosts[h]

Shown(h) == h \in DOMAIN view /\ view[h] = hosts[h]

(* What an answer on its way will do to a host that is not told.           *)
Harmless(a, h) ==
    /\ a.kind = "hosts" => h \in DOMAIN a.list /\ a.list[h] = hosts[h]
    /\ a.kind # "hosts" => Shown(h)
    /\ a.kind \in {"forgot", "cleared"} => a.host # h

StreamInv ==
    /\ frames \in Seq(Lists)
    /\ ~online => frames = <<>>
    /\ \A h \in Known \ dirty : LastSays(h)

ScreenInv ==
    /\ \A a \in answer : a.kind \in Kinds
    /\ ~skewed => \A h \in Known \ dirty : ~Told(h) =>
                     /\ \A a \in answer : Harmless(a, h)
                     /\ answer = {} => Shown(h)

ViewInv == RegistryInv /\ StreamInv /\ ScreenInv

(* What a step of the registry other than a flush or a boot leaves of the  *)
(* hosts that are settled.                                                 *)
Settles == \A h \in Known' \ dirty' : h \in Known \ dirty /\ hosts'[h] = hosts[h]

LEMMA TouchSettles ==
    ASSUME RegistryInv, NEW h \in Host, Seen(h) \/ NoteRequest(h) PROVE Settles
<1>1. /\ DOMAIN Touched(h) = Known \cup {h}
      /\ \A k \in Known \ {h} : Touched(h)[k] = hosts[k]
  BY DEF Touched, Merge, Known
<1>2. CASE Seen(h)
  <2>1. /\ Known' = (Known \cup {h}) \cap (Host \ Evicted(Touched(h)))
        /\ \A k \in Known' : hosts'[k] = Touched(h)[k]
    BY <1>1, <1>2 DEF Seen, Only, Known
  <2>2. dirty' = (dirty \cup {h}) \ Evicted(Touched(h))
    BY <1>2 DEF Seen, Marked
  <2> QED BY <1>1, <2>1, <2>2 DEF Settles
<1>3. CASE NoteRequest(h)
  BY <1>1, <1>3 DEF NoteRequest, Marked, Known, Settles
<1> QED BY <1>2, <1>3

LEMMA ClearSettles == ASSUME RegistryInv, NEW h \in Known, ClearCounters(h) PROVE Settles
BY DEF ClearCounters, Marked, Known, Settles, RegistryInv, TypeOK, IsList

LEMMA ForgetSettles == ASSUME NEW h \in Host, RegistryInv, Forget(h)
                       PROVE Settles /\ h \notin Known'
BY DEF Forget, Only, Known, Settles, RegistryInv, TypeOK, IsList

LEMMA QuietSettles == ASSUME UNCHANGED <<hosts, dirty>> PROVE Settles
BY DEF Settles, Known

(* While the stream carries nothing new, settled hosts stay as they are.   *)
LEMMA SettledStream ==
    ASSUME StreamInv, Settles, UNCHANGED <<online, frames>> PROVE StreamInv'
BY DEF StreamInv, Settles, LastSays

LEMMA SettledScreen ==
    ASSUME ScreenInv, Settles, UNCHANGED client PROVE ScreenInv'
BY DEF ScreenInv, Settles, Told, Harmless, Shown, client

LEMMA ElsewhereStep ==
    ASSUME ViewInv, Elsewhere PROVE StreamInv' /\ ScreenInv' /\ [Next]_vars
<1>1. UNCHANGED client
  BY DEF Elsewhere
<1>2. Settles /\ [Next]_vars
  <2>1. CASE \E h \in Host : Seen(h) \/ NoteRequest(h)
    BY <2>1, TouchSettles DEF ViewInv, Next
  <2>2. CASE \E h \in Host : Dial(h) \/ Close(h) \/ \E o \in Opinion : SetOpinion(h, o)
    BY <2>2, QuietSettles DEF Dial, Close, SetOpinion, Next
  <2>3. CASE \E h \in Host : h \in Known /\ ClearCounters(h)
    BY <2>3, ClearSettles DEF ViewInv, Next
  <2> QED BY <2>1, <2>2, <2>3 DEF Elsewhere
<1> QED BY <1>1, <1>2, SettledStream, SettledScreen DEF ViewInv, client

LEMMA BroadcastStep ==
    ASSUME ViewInv, Broadcast PROVE StreamInv' /\ ScreenInv' /\ [Next]_vars
<1>1. /\ Flush /\ UNCHANGED <<answer, view, hosts>> /\ dirty' = {} /\ Known' = Known
  BY DEF Broadcast, Flush, Known
<1>2. [Next]_vars
  BY <1>1 DEF Next
<1>3. CASE dirty = {}
  BY <1>1, <1>2, <1>3, SettledStream, SettledScreen, QuietSettles DEF Broadcast, ViewInv, client
<1>4. CASE skewed' /\ UNCHANGED <<online, frames>> /\ ~online
  BY <1>1, <1>2, <1>4 DEF ViewInv, StreamInv, ScreenInv, LastSays
<1>5. CASE skewed' /\ Dropped
  BY <1>1, <1>2, <1>5 DEF ViewInv, StreamInv, ScreenInv, LastSays, Dropped
<1>6. CASE frames' = Append(frames, Only(hosts, dirty)) /\ UNCHANGED <<online, skewed>> /\ online
  <2> DEFINE new == Only(hosts, dirty)
  <2>1. /\ new \in Lists /\ DOMAIN new = Known \cap dirty
        /\ \A h \in Known \cap dirty : new[h] = hosts[h]
    <3>1. /\ IsList(new) /\ DOMAIN new = Known \cap dirty
          /\ \A h \in Known \cap dirty : new[h] = hosts[h]
      BY OnlyList DEF ViewInv, RegistryInv, TypeOK, Known
    <3> HIDE DEF new
    <3> QED BY <3>1 DEF IsList, Lists
  <2> HIDE DEF new
  <2>2. /\ frames' \in Seq(Lists) /\ Len(frames') = Len(frames) + 1 /\ Len(frames) \in Nat
        /\ frames'[Len(frames) + 1] = new
        /\ \A k \in 1..Len(frames) : frames'[k] = frames[k]
    BY <1>6, <2>1 DEF ViewInv, StreamInv, new
  <2>3. ASSUME NEW h \in Known PROVE LastSays(h)'
    <3>1. CASE h \in dirty
      BY <1>1, <2>1, <2>2, <3>1 DEF LastSays
    <3>2. CASE h \notin dirty
      <4>1. h \notin DOMAIN new /\ LastSays(h)
        BY <2>1, <3>2 DEF ViewInv, StreamInv
      <4> QED BY <1>1, <2>2, <4>1 DEF LastSays
    <3> QED BY <3>1, <3>2
  <2>4. StreamInv'
    BY <1>1, <1>6, <2>2, <2>3 DEF StreamInv
  <2>5. \A h \in Known : ~Told(h)' => h \notin dirty /\ ~Told(h)
    <3>1. \A h \in Known : h \in dirty => Told(h)'
      BY <2>1, <2>2 DEF Told
    <3>2. \A h : Told(h) => Told(h)'
      BY <2>2 DEF Told
    <3> QED BY <3>1, <3>2
  <2>6. ScreenInv'
    BY <1>1, <1>6, <2>5 DEF ViewInv, ScreenInv, Harmless, Shown
  <2> QED BY <1>2, <2>4, <2>6
<1> QED BY <1>3, <1>4, <1>5, <1>6 DEF Broadcast, WriteToClient

(* A boot empties the stream, and a fetch answers with the registry.       *)
LEMMA CrashStep ==
    ASSUME ViewInv, Crash PROVE StreamInv' /\ ScreenInv' /\ [Next]_vars
<1>1. frames' = <<>> /\ online' = FALSE /\ skewed' /\ answer' = {} /\ [Next]_vars
  BY DEF Crash, Next
<1> QED BY <1>1 DEF StreamInv, ScreenInv, LastSays

LEMMA FetchStep ==
    ASSUME ViewInv, FetchHosts PROVE StreamInv' /\ ScreenInv' /\ [Next]_vars
<1> DEFINE a == [kind |-> "hosts", list |-> hosts]
<1>1. /\ answer' = {a} /\ UNCHANGED <<online, frames, view>> /\ UNCHANGED vars
      /\ a.kind = "hosts" /\ a.list = hosts
  BY DEF FetchHosts, Serve
<1> HIDE DEF a
<1>2. UNCHANGED <<hosts, dirty>> /\ [Next]_vars
  BY <1>1 DEF vars
<1>3. StreamInv'
  BY <1>1, <1>2, SettledStream, QuietSettles DEF ViewInv
<1>4. ScreenInv'
  BY <1>1, <1>2 DEF ScreenInv, Harmless, Kinds, Known
<1> QED BY <1>2, <1>3, <1>4

(* The host that is forgotten or cleared is no longer settled when the     *)
(* answer sets out, so the answer harms nobody.                            *)
LEMMA ForgetHostStep ==
    ASSUME ViewInv, NEW h \in Host, ForgetHost(h) PROVE StreamInv' /\ ScreenInv' /\ [Next]_vars
<1> DEFINE a == [kind |-> "forgot", host |-> h]
<1>1. /\ answer = {} /\ answer' = {a} /\ UNCHANGED <<online, frames, view, skewed>>
      /\ a.kind = "forgot" /\ a.host = h /\ Forget(h)
  BY DEF ForgetHost, Serve
<1> HIDE DEF a
<1>2. Settles /\ h \notin Known' /\ [Next]_vars
  BY <1>1, ForgetSettles DEF ViewInv, Next
<1>3. StreamInv'
  BY <1>1, <1>2, SettledStream DEF ViewInv
<1>4. ScreenInv'
  BY <1>1, <1>2 DEF ViewInv, ScreenInv, Settles, Harmless, Shown, Told, Kinds
<1> QED BY <1>2, <1>3, <1>4

LEMMA ClearHostStep ==
    ASSUME ViewInv, NEW h \in Host, ClearHost(h) PROVE StreamInv' /\ ScreenInv' /\ [Next]_vars
<1> DEFINE a == [kind |-> "cleared", host |-> h]
<1>1. /\ answer = {} /\ answer' = {a} /\ UNCHANGED <<online, frames, view, skewed>>
      /\ a.kind = "cleared" /\ a.host = h /\ h \in Known /\ ClearCounters(h)
  BY DEF ClearHost, Serve
<1> HIDE DEF a
<1>2. Settles /\ h \in dirty' /\ [Next]_vars
  BY <1>1, ClearSettles DEF ViewInv, Next, ClearCounters, Marked
<1>3. StreamInv'
  BY <1>1, <1>2, SettledStream DEF ViewInv
<1>4. ScreenInv'
  BY <1>1, <1>2 DEF ViewInv, ScreenInv, Settles, Harmless, Shown, Told, Kinds
<1> QED BY <1>2, <1>3, <1>4

LEMMA ClearAllStep ==
    ASSUME ViewInv, ClearAll PROVE StreamInv' /\ ScreenInv' /\ [Next]_vars
<1> DEFINE a == [kind |-> "clearedAll"]
<1>1. /\ answer = {} /\ answer' = {a} /\ UNCHANGED <<online, frames, view, skewed>>
      /\ UNCHANGED vars /\ a.kind = "clearedAll"
  BY DEF ClearAll, Serve
<1> HIDE DEF a
<1>2. UNCHANGED <<hosts, dirty>> /\ Settles /\ [Next]_vars
  BY <1>1, QuietSettles DEF vars
<1>3. StreamInv'
  BY <1>1, <1>2, SettledStream DEF ViewInv
<1>4. ScreenInv'
  BY <1>1, <1>2 DEF ViewInv, ScreenInv, Settles, Harmless, Shown, Told, Kinds
<1> QED BY <1>2, <1>3, <1>4

(* An answer that arrives leaves every settled host as the view should     *)
(* show it, except when everything is cleared, which skews the view.       *)
LEMMA ReceiveStep ==
    ASSUME ViewInv, NEW a \in answer, Receive(a) PROVE StreamInv' /\ ScreenInv' /\ [Next]_vars
<1>1. /\ answer' = {} /\ UNCHANGED <<online, frames>> /\ UNCHANGED vars
      /\ a.kind \in Kinds /\ skewed' = (skewed \/ a.kind = "clearedAll")
  BY DEF Receive, ViewInv, ScreenInv
<1>2. UNCHANGED <<hosts, dirty>> /\ Known' = Known /\ [Next]_vars
  BY <1>1 DEF vars, Known
<1>3. StreamInv'
  BY <1>1, <1>2, SettledStream, QuietSettles DEF ViewInv
<1>4. ASSUME ~skewed', NEW h \in Known \ dirty, ~Told(h) PROVE Shown(h)'
  <2>1. Harmless(a, h) /\ h \in Host
    BY <1>1, <1>4 DEF ViewInv, ScreenInv, RegistryInv, TypeOK, IsList, Known
  <2>2. CASE a.kind = "hosts"
    BY <1>2, <2>1, <2>2 DEF Receive, Harmless, Shown
  <2>3. CASE a.kind = "forgot"
    <3>1. view' = Without(a.host) /\ Shown(h) /\ a.host # h
      BY <2>1, <2>3 DEF Receive, Harmless
    <3> QED BY <1>2, <2>1, <3>1 DEF Without, Only, Shown
  <2>4. CASE a.kind = "cleared"
    <3>1. view' = Zeroed({a.host}) /\ Shown(h) /\ a.host # h
      BY <2>1, <2>4 DEF Receive, Harmless
    <3> QED BY <1>2, <2>1, <3>1 DEF Zeroed, Shown
  <2> QED BY <1>1, <1>4, <2>2, <2>3, <2>4 DEF Kinds
<1>5. ScreenInv'
  BY <1>1, <1>2, <1>4 DEF ScreenInv, Told
<1> QED BY <1>2, <1>3, <1>5

(* The frame at the head is the last one about a host only if no other     *)
(* frame names it, and then it says what the registry has.                 *)
LEMMA FrameStep ==
    ASSUME ViewInv, ReceiveFrame PROVE StreamInv' /\ ScreenInv' /\ [Next]_vars
<1>1. /\ frames # <<>> /\ frames \in Seq(Lists)
      /\ frames' = Tail(frames) /\ view' = Merge(view, frames[1])
      /\ skewed' = (skewed \/ answer # {}) /\ UNCHANGED <<online, answer>> /\ UNCHANGED vars
  BY DEF ReceiveFrame, ViewInv, StreamInv
<1>2. UNCHANGED <<hosts, dirty>> /\ Known' = Known /\ [Next]_vars
  BY <1>1 DEF vars, Known
<1>3. /\ frames' \in Seq(Lists) /\ Len(frames) \in Nat /\ Len(frames) >= 1
      /\ Len(frames') = Len(frames) - 1
      /\ \A k \in 1..Len(frames') : frames'[k] = frames[k + 1]
  BY <1>1
<1>4. ASSUME NEW h \in Known, LastSays(h) PROVE LastSays(h)'
  <2> SUFFICES ASSUME NEW k \in 1..Len(frames'), h \in DOMAIN frames'[k],
                      \A j \in (k + 1)..Len(frames') : h \notin DOMAIN frames'[j]
               PROVE  frames'[k][h] = hosts[h]
    BY <1>2 DEF LastSays
  <2>1. k + 1 \in 1..Len(frames) /\ frames'[k] = frames[k + 1]
    BY <1>3
  <2>2. \A j \in (k + 2)..Len(frames) : h \notin DOMAIN frames[j]
    <3> TAKE j \in (k + 2)..Len(frames)
    <3>1. j - 1 \in (k + 1)..Len(frames') /\ j - 1 \in 1..Len(frames') /\ (j - 1) + 1 = j
      BY <1>3
    <3> QED BY <1>3, <3>1
  <2> QED BY <1>4, <2>1, <2>2 DEF LastSays
<1>5. StreamInv'
  BY <1>1, <1>2, <1>3, <1>4 DEF ViewInv, StreamInv
<1>6. ASSUME NEW h \in Known \ dirty, ~skewed', ~Told(h)' PROVE Shown(h)'
  <2>1. \A j \in 2..Len(frames) : h \notin DOMAIN frames[j]
    <3> TAKE j \in 2..Len(frames)
    <3>1. j - 1 \in 1..Len(frames') /\ (j - 1) + 1 = j
      BY <1>3
    <3> QED BY <1>3, <1>6, <3>1 DEF Told
  <2>2. CASE h \in DOMAIN frames[1]
    <3>1. frames[1][h] = hosts[h]
      BY <1>3, <2>1, <2>2 DEF ViewInv, StreamInv, LastSays
    <3> QED BY <1>1, <1>2, <2>2, <3>1 DEF Merge, Shown
  <2>3. CASE h \notin DOMAIN frames[1]
    <3>1. ~Told(h)
      BY <1>3, <2>1, <2>3 DEF Told
    <3>2. Shown(h)
      BY <1>1, <1>6, <3>1 DEF ViewInv, ScreenInv
    <3> QED BY <1>1, <1>2, <2>3, <3>2 DEF Merge, Shown
  <2> QED BY <2>2, <2>3
<1>7. ScreenInv'
  BY <1>1, <1>2, <1>6 DEF ViewInv, ScreenInv
<1> QED BY <1>2, <1>5, <1>7

LEMMA DropStep ==
    ASSUME ViewInv, Disconnect \/ Reconnect PROVE StreamInv' /\ ScreenInv' /\ [Next]_vars
<1>1. UNCHANGED vars /\ UNCHANGED <<answer, view>> /\ UNCHANGED <<hosts, dirty>>
  BY DEF Disconnect, Reconnect, vars
<1>2. CASE Disconnect
  <2>1. frames' = <<>> /\ skewed' = (skewed \/ frames # <<>>)
    BY <1>2 DEF Disconnect, Dropped
  <2>2. StreamInv'
    BY <2>1 DEF StreamInv, LastSays
  <2>3. ~skewed' => frames' = frames /\ ~skewed
    BY <2>1
  <2>4. ScreenInv'
    BY <1>1, <2>3 DEF ViewInv, ScreenInv, Known, Told, Harmless, Shown
  <2> QED BY <1>1, <2>2, <2>4
<1>3. CASE Reconnect
  BY <1>1, <1>3 DEF Reconnect, ViewInv, StreamInv, ScreenInv, LastSays, Known, Told, Harmless, Shown
<1> QED BY <1>2, <1>3

LEMMA ViewInvStep == ViewInv /\ [ViewNext]_viewVars => ViewInv'
<1> SUFFICES ASSUME ViewInv, [ViewNext]_viewVars PROVE ViewInv'
  OBVIOUS
<1>1. CASE UNCHANGED viewVars
  BY <1>1, SettledStream, SettledScreen, QuietSettles, NextInv DEF viewVars, client, vars, ViewInv
<1>2. CASE ViewNext
  <2>1. StreamInv' /\ ScreenInv' /\ [Next]_vars
    BY <1>2, ElsewhereStep, BroadcastStep, CrashStep, FetchStep, ForgetHostStep, ClearHostStep,
       ClearAllStep, ReceiveStep, FrameStep, DropStep DEF ViewNext
  <2> QED BY <2>1, NextInv DEF ViewInv
<1> QED BY <1>1, <1>2

LEMMA ViewInvInit == ViewInit => ViewInv
<1> SUFFICES ASSUME ViewInit PROVE ViewInv
  OBVIOUS
<1>1. RegistryInv /\ Known = {}
  BY InitInv DEF ViewInit, Init, Known
<1> QED BY <1>1 DEF ViewInit, ViewInv, StreamInv, ScreenInv

(* The registry keeps its invariant with a dashboard attached: what the    *)
(* dashboard's calls do to it is what the registry's own steps do.         *)
THEOREM ViewRegistryInvariant == ViewSpec => []RegistryInv
<1>1. ViewInv => RegistryInv
  BY DEF ViewInv
<1> QED BY ViewInvInit, ViewInvStep, <1>1, PTL DEF ViewSpec

(* Once the stream is quiet the dashboard shows every host as the registry *)
(* has it (sendToUI's coalescing, mergeHosts and the answers together),    *)
(* whatever the number of hosts and of frames the socket holds: nothing is *)
(* dirty without a timer, so what was said last has arrived.               *)
THEOREM ViewShowsTheRegistry == ViewSpec => []ViewCatchesUp
<1>1. ViewInv => ViewCatchesUp
  <2> SUFFICES ASSUME ViewInv, ~armed, frames = <<>>, answer = {}, ~skewed, NEW h \in Known
               PROVE  Shown(h)
    BY DEF ViewCatchesUp, Shown
  <2>1. dirty = {} /\ ~Told(h)
    BY DEF ViewInv, RegistryInv, DirtyIsScheduled, Told
  <2> QED BY <2>1 DEF ViewInv, ScreenInv
<1> QED BY ViewInvInit, ViewInvStep, <1>1, PTL DEF ViewSpec
=============================================================================
