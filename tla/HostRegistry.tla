---------------------------- MODULE HostRegistry ----------------------------
(***************************************************************************)
(* The registry of every host the devices reach for and its batched        *)
(* broadcast (utils/host-registry.js, and the routes and callbacks that    *)
(* touch it).  Records are touched, the names of the touched ones are      *)
(* collected, and a timer sends them in one frame.                         *)
(***************************************************************************)
EXTENDS Naturals, FiniteSets

CONSTANTS
    Host,
    Opinion,   \* what a row of hostSettings can say, see below
    MaxHosts,  \* MAX_HOSTS
    MaxSeq     \* bound on the touches of a behaviour (_seq)

(* "major": SSL on or focused.  "minor": ignored, or a path is blocked.    *)
ASSUME RegistryAssumption ==
    /\ IsFiniteSet(Host)
    /\ "none" \in Opinion /\ Opinion \subseteq {"none", "minor", "major"}
    /\ MaxHosts \in Nat \ {0}
    /\ MaxSeq \in Nat

VARIABLES
    hosts,    \* _hosts: a map from the known hosts to their records
    seq,      \* _seq
    opinion,  \* hostSettings
    serving,  \* hosts with a decrypted connection still open
    dirty,    \* _dirty
    armed     \* _flushTimer is set

vars == <<hosts, seq, opinion, serving, dirty, armed>>

(* connections and requests are one counter *)
Record == [seq : 1..MaxSeq, hits : Nat]
IsList(map) == DOMAIN map \subseteq Host /\ map \in [DOMAIN map -> Record]

TypeOK ==
    /\ IsList(hosts)
    /\ seq \in 0..MaxSeq
    /\ opinion \in [Host -> Opinion]
    /\ serving \subseteq Host
    /\ dirty \subseteq Host
    /\ armed \in BOOLEAN

Known == DOMAIN hosts
Merge(f, g) == [h \in DOMAIN f \cup DOMAIN g |-> IF h \in DOMAIN g THEN g[h] ELSE f[h]]
Only(f, S) == [h \in DOMAIN f \cap S |-> f[h]]

(* Boot: the hosts somebody has an opinion about are seeded in the order   *)
(* of the file, whatever their number, and nothing else is known yet.      *)
Seeded ==
    LET rows == {h \in Host : opinion[h] # "none"}
    IN  /\ Cardinality(rows) <= MaxSeq
        /\ seq' = Cardinality(rows)
        /\ \E place \in [rows -> 1..Cardinality(rows)] :
              /\ \A h, k \in rows : place[h] = place[k] => h = k
              /\ hosts' = [h \in rows |-> [seq |-> place[h], hits |-> 0]]
        /\ dirty' = rows
        /\ armed' = (rows # {})
        /\ serving' = {}

Init ==
    /\ hosts = [h \in {} |-> 0]
    /\ seq = 0
    /\ opinion = [h \in Host |-> "none"]
    /\ serving = {}
    /\ dirty = {}
    /\ armed = FALSE

---------------------------------------------------------------------------
(* Touching records. *)

HitsOf(h) == IF h \in Known THEN hosts[h].hits ELSE 0
(* Mutant of Touched: the number is taken before it is advanced. *)
Touched_PostIncrement(h) ==
    Merge(hosts, [k \in {h} |-> [seq |-> seq, hits |-> HitsOf(h) + 1]])
Touched(h) == Merge(hosts, [k \in {h} |-> [seq |-> seq + 1, hits |-> HitsOf(h) + 1]])

Evictable(map) == {h \in DOMAIN map : opinion[h] # "major"}

(* Mutant of Evicted: the most recently seen go. *)
Evicted_Newest(map) ==
    {h \in Evictable(map) :
        Cardinality({k \in Evictable(map) : map[k].seq > map[h].seq}) + MaxHosts
            < Cardinality(DOMAIN map)}
(* _evict: the least recently seen of them, as many as there are too many *)
Evicted(map) ==
    {h \in Evictable(map) :
        Cardinality({k \in Evictable(map) : map[k].seq < map[h].seq}) + MaxHosts
            < Cardinality(DOMAIN map)}

(* Mutant of Marked: what has been evicted stays on the list. *)
Marked_Ghosts(h, gone) == dirty' = dirty \cup {h} /\ armed' = TRUE
(* _dirty.add, the _dirty.delete of an eviction, and _scheduleFlush *)
Marked(h, gone) == dirty' = (dirty \cup {h}) \ gone /\ armed' = TRUE

(* A CONNECT or a plain request reaches the proxy; when the host is        *)
(* decrypted the connection may stay open.                                 *)
Seen(h) ==
    /\ seq < MaxSeq
    /\ seq' = seq + 1
    /\ hosts' = Only(Touched(h), Host \ Evicted(Touched(h)))
    /\ Marked(h, Evicted(Touched(h)))
    /\ \/ UNCHANGED serving
       \/ opinion[h] = "major" /\ serving' = serving \cup {h}
    /\ UNCHANGED opinion

(* A device connects to the standalone listener of a host: nothing is seen *)
(* until its first request has been logged.                                *)
Dial(h) ==
    /\ opinion[h] = "major"
    /\ serving' = serving \cup {h}
    /\ UNCHANGED <<hosts, seq, opinion, dirty, armed>>

(* A request on a decrypted connection has been logged. *)
NoteRequest(h) ==
    /\ h \in serving
    /\ seq < MaxSeq
    /\ seq' = seq + 1
    /\ hosts' = Touched(h)
    /\ Marked(h, {})
    /\ UNCHANGED <<opinion, serving>>

Close(h) ==
    /\ h \in serving
    /\ serving' = serving \ {h}
    /\ UNCHANGED <<hosts, seq, opinion, dirty, armed>>

(* POST /hosts/ssl, /hosts/focus and /hosts/block: a record carries the    *)
(* settings when it is read, so nothing is touched.                        *)
SetOpinion(h, o) ==
    /\ o # opinion[h]
    /\ opinion' = [opinion EXCEPT ![h] = o]
    /\ UNCHANGED <<hosts, seq, serving, dirty, armed>>

(* Mutant of ClearCounters: nobody is told. *)
ClearCounters_Silent(h) ==
    /\ hosts' = [hosts EXCEPT ![h].hits = 0]
    /\ UNCHANGED <<seq, opinion, serving, dirty, armed>>
(* POST /log-clear for one host *)
ClearCounters(h) ==
    /\ hosts' = [hosts EXCEPT ![h].hits = 0]
    /\ Marked(h, {})
    /\ UNCHANGED <<seq, opinion, serving>>

(* DELETE /hosts/:host, which takes the row of settings too *)
Forget(h) ==
    /\ hosts' = Only(hosts, Host \ {h})
    /\ dirty' = dirty \ {h}
    /\ opinion' = [opinion EXCEPT ![h] = "none"]
    /\ UNCHANGED <<seq, serving, armed>>

(* Mutant of Flush: what has been sent stays on the list. *)
Flush_Kept ==
    /\ armed
    /\ armed' = FALSE
    /\ UNCHANGED <<hosts, seq, opinion, serving, dirty>>
(* The timer fires: it clears itself and the names it has collected, and   *)
(* sends their records as they are now.                                    *)
Flush ==
    /\ armed
    /\ armed' = FALSE
    /\ dirty' = {}
    /\ UNCHANGED <<hosts, seq, opinion, serving>>

Restart == Seeded /\ UNCHANGED opinion

Next ==
    \/ \E h \in Host :
          \/ Seen(h) \/ Dial(h) \/ NoteRequest(h) \/ Close(h) \/ Forget(h)
          \/ h \in Known /\ ClearCounters(h)
          \/ \E o \in Opinion : SetOpinion(h, o)
    \/ Flush
    \/ Restart

(* setTimeout: a timer that is set fires. *)
Spec == Init /\ [][Next]_vars /\ WF_vars(Flush)
---------------------------------------------------------------------------
(* Nothing waits to be told without a timer to tell it, and nothing that   *)
(* is gone waits at all.                                                   *)
DirtyIsScheduled ==
    /\ dirty # {} => armed
    /\ dirty \subseteq Known

(* Two records are never tied, so the rows of the tree have one order and  *)
(* eviction has one choice.                                                *)
OrderIsTotal ==
    /\ \A h, k \in Known : hosts[h].seq = hosts[k].seq => h = k
    /\ \A h \in Known : hosts[h].seq <= seq

(* What makes room is what nobody committed to and nobody has seen for     *)
(* longest: a host goes only by being forgotten, or by a restart, or when  *)
(* it is uncommitted and the uncommitted ones that stay are more recent.   *)
OldestMakesRoom ==
    [][\A h \in Known \ DOMAIN hosts' :
          \/ Forget(h) \/ Restart
          \/ /\ opinion[h] # "major"
             /\ \A k \in Known \cap DOMAIN hosts' :
                   opinion[k] # "major" => hosts'[k].seq > hosts[h].seq]_vars

(* Whatever is touched is told, or gone, in the end. *)
TouchedIsTold == \A h \in Host : h \in dirty ~> h \notin dirty
=============================================================================
