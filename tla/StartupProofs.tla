---------------------------- MODULE StartupProofs ----------------------------
(***************************************************************************)
(* Proofs about Startup, for any number of processes, ports and kills: of  *)
(* the files when no process is started while another one is booting, and  *)
(* of the ports whoever boots together and however late an answer is.      *)
(***************************************************************************)
EXTENDS Startup, TLAPS

Process == [at : {"off"} \cup Booting \cup Alive, port : Port, facts : SUBSET (0..MaxChanges),
            ca : {None} \cup 1..MaxCAs, file : {None} \cup File,
            todo : {None} \cup Document \cup 1..MaxCAs]

TypeInv ==
    /\ disk \in [File -> {Missing, Torn} \cup Document \cup 1..MaxCAs]
    /\ {disk["state"], disk["bak"]} \subseteq {Missing, Torn} \cup Document
    /\ {disk["key"], disk["crt"]} \subseteq {Missing, Torn} \cup 1..MaxCAs
    /\ proc \in [Proc -> Process]
    /\ ports \in [Port -> {None, Stranger} \cup ({"server", "tester"} \X Proc)]
    /\ changes \in 0..MaxChanges /\ cas \in 0..MaxCAs /\ deaths \in 0..MaxDeaths
    /\ cut \in BOOLEAN /\ old \in BOOLEAN

(* Who may be in the middle of a write, of which file, and what it will    *)
(* hold.                                                                   *)
WritesInv ==
    \A p \in Proc :
       /\ proc[p].at = "off" => proc[p] = Off
       /\ proc[p].file = "state" => \/ proc[p].at = "load" /\ proc[p].todo = Seed
                                    \/ /\ proc[p].at \in {"ca", "listening", "aside"}
                                       /\ proc[p].todo = Doc(2, proc[p].facts)
       /\ proc[p].file = "bak" => proc[p].at = "convert" /\ proc[p].todo = Doc(1, proc[p].facts)
       /\ proc[p].file = "key" => proc[p].at = "signed" /\ proc[p].todo = proc[p].ca
       /\ proc[p].file = "crt" => proc[p].at = "scan" /\ proc[p].todo = proc[p].ca
       /\ proc[p].at \in {"generated", "signed"} \/ proc[p].file = "crt"
          => proc[p].ca \in 1..MaxCAs

OneBoots ==
    Overlap \/ \A p, q \in Proc : proc[p].at \in Booting /\ proc[q].at \in Booting => p = q

BootInv == TypeInv /\ WritesInv /\ OneBoots

(* OriginalKept: nobody has got past the migration while state.json is the *)
(* original, and the copy is complete when the new document is written.    *)
OriginalInv ==
    /\ old /\ disk["state"] # Original => disk["bak"] = Original
    /\ old => disk["state"] # Missing
    /\ disk["state"] \in Document /\ disk["state"].version = 1 => disk["state"] = Original
    /\ \A p \in Proc :
          /\ disk["state"] = Original
             => proc[p].at \in {"off", "seed", "load", "backup", "convert"} /\ proc[p].file # "state"
          /\ proc[p].at \in {"backup", "convert"}
             => disk["state"] = Original /\ proc[p].facts = {0}
          /\ proc[p].at = "convert" /\ Idle(p) => disk["bak"] = Original

(* CAPaired: while an authority is made there is no certificate, and past  *)
(* it every process holds the authority whose two files are complete.      *)
AuthorityInv ==
    /\ disk["crt"] # Missing => disk["key"] # Missing
    /\ disk["crt"] \in 1..MaxCAs => disk["key"] = disk["crt"]
    /\ \A p \in Proc :
          /\ proc[p].at \in {"generated", "signed"}
             => disk["crt"] = Missing
          /\ proc[p].at = "signed" /\ Idle(p) => disk["key"] = proc[p].ca
          /\ proc[p].at = "scan" /\ ~Idle(p)
             => disk["key"] = proc[p].ca /\ disk["crt"] = Torn
          /\ proc[p].at \in {"scan", "close", "probe", "bind"} \cup Alive /\ Idle(p)
             => proc[p].ca \in 1..MaxCAs /\ disk["crt"] = proc[p].ca
          /\ proc[p].at \in {"listening", "aside"} => proc[p].ca \in 1..MaxCAs /\ disk["crt"] = proc[p].ca

(* ChangesKept: unless the history was cut, whoever has loaded the file or *)
(* writes it knows every change, and nobody else can be reached meanwhile. *)
Holds(p) == proc[p].at \in (Booting \ {"seed", "load"}) \cup {"listening", "aside"}

ChangesInv ==
    /\ disk["state"] = Missing
       => changes = 0 /\ \A p \in Proc : proc[p].at \in {"off", "seed"}
    /\ \A p \in Proc : proc[p].at = "load" /\ ~Idle(p)
                       => changes = 0 /\ \A q \in Proc : q # p => proc[q].at = "off"
    /\ ~cut => /\ disk["state"] = Torn => \E p \in Proc : proc[p].file = "state"
               /\ disk["state"] \in Document => 1..changes \subseteq disk["state"].facts
               /\ \A p \in Proc : Holds(p) => 1..changes \subseteq proc[p].facts
               /\ \A p, q \in Proc : Holds(p) /\ proc[q].at \in {"listening", "aside"} => p = q

(* NoneBelow: who holds which port, that a process which boots has not     *)
(* passed the port of a live one without an excuse, and that two which     *)
(* boot together have one.                                                 *)
PortsHeld ==
    \A p \in Proc, k \in Port :
       /\ ports[k] = <<"server", p>> <=> proc[p].at = "listening" /\ proc[p].port = k
       /\ ports[k] = <<"tester", p>> <=> proc[p].at = "close" /\ proc[p].port = k

NotPassed ==
    \A p, q \in Proc :
       proc[p].at \in Booting /\ proc[q].at = "listening" /\ <<p, q>> \notin excused
       => /\ proc[p].port <= proc[q].port
          /\ proc[p].at = "bind" => proc[p].port # proc[q].port

Met ==
    \A p, q \in Proc :
       p # q /\ proc[p].at \in Booting /\ proc[q].at \in Booting => <<p, q>> \in excused

PortsInv == PortsHeld /\ NotPassed /\ Met

---------------------------------------------------------------------------
LEMMA DocIsDocument ==
  ASSUME NEW v \in {1, 2}, NEW facts \in SUBSET (0..MaxChanges)
  PROVE  /\ Doc(v, facts) \in Document
         /\ Doc(v, facts).version = v /\ Doc(v, facts).facts = facts
  BY DEF Doc, Document

(* Documents, numbers and the three markers are told apart.                *)
LEMMA Distinct ==
  /\ \A d \in Document : d # Missing /\ d # Torn /\ d # None /\ DOMAIN d = {"version", "facts"}
  /\ \A n \in Nat : n # Missing /\ n # Torn /\ n # None
  /\ \A f \in File : f # None
  /\ Missing # Torn /\ Missing # None /\ Torn # None
  BY StartupDistinct DEF Document

(* What a step does to the processes and the files, field by field. *)
Now(p, at, port, facts, ca, file, todo) ==
    /\ proc' \in [Proc -> Process]
    /\ proc'[p].at = at /\ proc'[p].port = port /\ proc'[p].facts = facts
    /\ proc'[p].ca = ca /\ proc'[p].file = file /\ proc'[p].todo = todo
    /\ \A q \in Proc : q # p => proc'[q] = proc[q]

Wrote(file, val) ==
    /\ disk' \in [File -> {Missing, Torn} \cup Document \cup 1..MaxCAs]
    /\ disk'[file] = val
    /\ \A f \in File : f # file => disk'[f] = disk[f]

LEMMA BecomesEffect ==
  ASSUME TypeInv, NEW p \in Proc, NEW new \in Process, Becomes(p, new)
  PROVE  /\ Now(p, new.at, new.port, new.facts, new.ca, new.file, new.todo)
         /\ proc'[p] = new
  BY DEF TypeInv, Becomes, Now

LEMMA GoesToEffect ==
  ASSUME TypeInv, NEW p \in Proc, NEW at \in {"off"} \cup Booting \cup Alive, GoesTo(p, at)
  PROVE  Now(p, at, proc[p].port, proc[p].facts, proc[p].ca, proc[p].file, proc[p].todo)
<1>1. proc[p] \in Process
  BY DEF TypeInv
<1>2. [proc[p] EXCEPT !.at = at] \in Process
  BY <1>1 DEF Process
<1>3. QED
  BY <1>1, <1>2, BecomesEffect DEF GoesTo, Process, Now

LEMMA BeginsEffect ==
  ASSUME TypeInv, NEW p \in Proc, NEW new \in Process, NEW file \in File,
         NEW val \in Document \cup 1..MaxCAs, Begins(p, new, file, val)
  PROVE  Wrote(file, Torn) /\ Now(p, new.at, new.port, new.facts, new.ca, file, val)
<1>1. [new EXCEPT !.file = file, !.todo = val] \in Process
  BY DEF Process
<1>2. Now(p, new.at, new.port, new.facts, new.ca, file, val)
  BY <1>1, BecomesEffect DEF Begins, Process, Now
<1>3. disk' = [disk EXCEPT ![file] = Torn]
  BY DEF Begins
<1>4. QED
  BY <1>2, <1>3 DEF TypeInv, Wrote

LEMMA OffEffect ==
  ASSUME TypeInv, NEW p \in Proc, Becomes(p, Off)
  PROVE  Now(p, "off", 0, {}, None, None, None) /\ proc'[p] = Off
<1>1. Off \in Process
  BY StartupAssumption DEF Off, Process, Port
<1>2. QED
  BY <1>1, BecomesEffect DEF Off

LEMMA FinishEffect ==
  ASSUME TypeInv, WritesInv, NEW p \in Proc, Finish(p)
  PROVE  /\ Now(p, proc[p].at, proc[p].port, proc[p].facts, proc[p].ca, None, None)
         /\ proc[p].file \in File /\ Wrote(proc[p].file, proc[p].todo)
         /\ UNCHANGED <<ports, changes, cas, deaths, cut, old, excused>>
<1>1. proc[p] \in Process /\ proc[p].file \in File
  BY DEF TypeInv, Finish, Idle, Process
<1>2. [proc[p] EXCEPT !.file = None, !.todo = None] \in Process
  BY <1>1 DEF Process
<1>3. Now(p, proc[p].at, proc[p].port, proc[p].facts, proc[p].ca, None, None)
  BY ZenonT(60), <1>1, <1>2, BecomesEffect DEF Finish, Process, Now
<1>4. proc[p].todo \in Document \cup 1..MaxCAs
  BY <1>1, DocIsDocument DEF WritesInv, File, Seed, Process
<1>5. QED
  BY <1>1, <1>3, <1>4 DEF Finish, TypeInv, Wrote

LEMMA SeedEffect ==
  ASSUME TypeInv, NEW p \in Proc, SeedState(p)
  PROVE  /\ proc[p].at = "seed" /\ Idle(p)
         /\ \/ /\ disk["state"] = Missing /\ Wrote("state", Torn)
               /\ Now(p, "load", proc[p].port, proc[p].facts, proc[p].ca, "state", Seed)
            \/ /\ disk["state"] # Missing /\ disk' = disk
               /\ Now(p, "load", proc[p].port, proc[p].facts, proc[p].ca, None, proc[p].todo)
         /\ UNCHANGED <<ports, changes, cas, deaths, cut, old, excused>>
<1>1. proc[p] \in Process /\ Seed \in Document
  BY DocIsDocument DEF TypeInv, Seed
<1>2. [proc[p] EXCEPT !.at = "load"] \in Process
  BY <1>1 DEF Process, Booting
<1>3. CASE disk["state"] = Missing
  <2>1. Wrote("state", Torn)
        /\ Now(p, "load", proc[p].port, proc[p].facts, proc[p].ca, "state", Seed)
    BY <1>1, <1>2, <1>3, BeginsEffect DEF SeedState, Process, File
  <2>2. QED
    BY <1>3, <2>1 DEF SeedState
<1>4. CASE disk["state"] # Missing
  <2>1. Now(p, "load", proc[p].port, proc[p].facts, proc[p].ca, None, proc[p].todo)
    BY <1>4, GoesToEffect DEF SeedState, Booting, Idle
  <2>2. QED
    BY <1>4, <2>1 DEF SeedState
<1>5. QED
  BY <1>3, <1>4

LEMMA LoadEffect ==
  ASSUME TypeInv, NEW p \in Proc, LoadState(p)
  PROVE  /\ proc[p].at = "load" /\ Idle(p)
         /\ \/ /\ disk["state"] \in {Missing, Torn}
               /\ Now(p, "ca", proc[p].port, proc[p].facts, proc[p].ca, None, proc[p].todo)
            \/ \E at \in {"ca", "backup"} :
               /\ disk["state"] \in Document /\ (at = "ca" <=> disk["state"].version = 2)
               /\ Now(p, at, proc[p].port, disk["state"].facts, proc[p].ca, None, proc[p].todo)
         /\ cut' = (cut \/ \E q \in Proc : proc[q].at \in Serving)
         /\ UNCHANGED <<disk, ports, changes, cas, deaths, old, excused>>
<1>1. proc[p] \in Process /\ disk["state"] \in {Missing, Torn} \cup Document
  BY DEF TypeInv
<1>2. CASE disk["state"] \in {Missing, Torn}
  <2>1. [proc[p] EXCEPT !.at = "ca"] \in Process
    BY <1>1 DEF Process, Booting
  <2>2. Now(p, "ca", proc[p].port, proc[p].facts, proc[p].ca, None, proc[p].todo)
    BY <1>1, <1>2, <2>1, BecomesEffect DEF LoadState, Process, Idle
  <2>3. QED
    BY <1>2, <2>2 DEF LoadState
<1>3. CASE disk["state"] \notin {Missing, Torn}
  <2> DEFINE at == IF disk["state"].version = 2 THEN "ca" ELSE "backup"
             new == [proc[p] EXCEPT !.facts = disk["state"].facts, !.at = at]
  <2>1. disk["state"] \in Document /\ disk["state"].facts \subseteq 0..MaxChanges
    BY <1>1, <1>3 DEF Document
  <2>2. new \in Process
    BY <1>1, <2>1 DEF Process, Booting
  <2>3. Becomes(p, new)
    BY <1>3 DEF LoadState
  <2>4. Now(p, at, proc[p].port, disk["state"].facts, proc[p].ca, None, proc[p].todo)
    <3>1. /\ new.at = at /\ new.port = proc[p].port /\ new.facts = disk["state"].facts
          /\ new.ca = proc[p].ca /\ new.file = None /\ new.todo = proc[p].todo
      BY <1>1 DEF Process, LoadState, Idle
    <3> HIDE DEF new
    <3>2. QED
      BY <2>2, <2>3, <3>1, BecomesEffect
  <2>5. QED
    BY <2>1, <2>4 DEF LoadState
<1>4. QED
  BY <1>2, <1>3

LEMMA KeepEffect ==
  ASSUME TypeInv, NEW p \in Proc, KeepOriginal(p)
  PROVE  /\ proc[p].at = "backup" /\ Idle(p) /\ Wrote("bak", Torn)
         /\ Now(p, "convert", proc[p].port, proc[p].facts, proc[p].ca,
                "bak", Doc(1, proc[p].facts))
         /\ UNCHANGED <<ports, changes, cas, deaths, cut, old, excused>>
<1>1. proc[p] \in Process
  BY DEF TypeInv
<1>2. [proc[p] EXCEPT !.at = "convert"] \in Process /\ Doc(1, proc[p].facts) \in Document
  BY <1>1, DocIsDocument DEF Process, Booting
<1>3. QED
  BY <1>1, <1>2, BeginsEffect DEF KeepOriginal, Process, File

LEMMA MigratedEffect ==
  ASSUME TypeInv, NEW p \in Proc, WriteMigrated(p)
  PROVE  /\ proc[p].at = "convert" /\ Idle(p) /\ Wrote("state", Torn)
         /\ Now(p, "ca", proc[p].port, proc[p].facts, proc[p].ca,
                "state", Doc(2, proc[p].facts))
         /\ UNCHANGED <<ports, changes, cas, deaths, cut, old, excused>>
<1>1. proc[p] \in Process
  BY DEF TypeInv
<1>2. [proc[p] EXCEPT !.at = "ca"] \in Process /\ Doc(2, proc[p].facts) \in Document
  BY <1>1, DocIsDocument DEF Process, Booting
<1>3. QED
  BY <1>1, <1>2, BeginsEffect DEF WriteMigrated, Process, File

LEMMA FindEffect ==
  ASSUME TypeInv, NEW p \in Proc, FindCA(p)
  PROVE  /\ proc[p].at = "ca" /\ Idle(p)
         /\ \/ /\ Missing \in {disk["key"], disk["crt"]} /\ cas' \in 1..MaxCAs
               /\ Now(p, "generated", proc[p].port, proc[p].facts, cas', None, proc[p].todo)
            \/ /\ cas' = cas
               /\ Now(p, "off", 0, {}, None, None, None) /\ proc'[p] = Off
            \/ /\ {disk["key"], disk["crt"]} \subseteq 1..MaxCAs /\ cas' = cas
               /\ Now(p, "scan", proc[p].port, proc[p].facts, disk["crt"], None, proc[p].todo)
         /\ UNCHANGED <<disk, ports, changes, deaths, cut, old, excused>>
<1> USE StartupAssumption
<1>1. proc[p] \in Process /\ cas \in 0..MaxCAs
  BY DEF TypeInv
<1>2. CASE Missing \in {disk["key"], disk["crt"]}
  <2>1. cas' = cas + 1 /\ cas' \in 1..MaxCAs
    BY <1>1, <1>2 DEF FindCA
  <2> DEFINE new == [proc[p] EXCEPT !.at = "generated", !.ca = cas + 1]
  <2>2. new \in Process
    BY <1>1, <2>1 DEF Process, Booting
  <2>3. Becomes(p, new)
    BY <1>2 DEF FindCA
  <2>4. Now(p, "generated", proc[p].port, proc[p].facts, cas', None, proc[p].todo)
    <3>1. /\ new.at = "generated" /\ new.port = proc[p].port /\ new.facts = proc[p].facts
          /\ new.ca = cas' /\ new.file = None /\ new.todo = proc[p].todo
      BY <1>1, <2>1 DEF Process, FindCA, Idle
    <3> HIDE DEF new
    <3>2. QED
      BY <2>2, <2>3, <3>1, BecomesEffect
  <2>5. QED
    BY <1>2, <2>1, <2>4 DEF FindCA
<1>3. CASE Missing \notin {disk["key"], disk["crt"]} /\ Torn \in {disk["key"], disk["crt"]}
  BY <1>3, OffEffect DEF FindCA
<1>4. CASE Missing \notin {disk["key"], disk["crt"]} /\ Torn \notin {disk["key"], disk["crt"]}
  <2>1. {disk["key"], disk["crt"]} \subseteq 1..MaxCAs
    BY <1>4 DEF TypeInv
  <2> DEFINE new == [proc[p] EXCEPT !.at = "scan", !.ca = disk["crt"]]
  <2>2. new \in Process
    BY <1>1, <2>1 DEF Process, Booting
  <2>3. Becomes(p, new)
    BY <1>4 DEF FindCA
  <2>4. Now(p, "scan", proc[p].port, proc[p].facts, disk["crt"], None, proc[p].todo)
    <3>1. /\ new.at = "scan" /\ new.port = proc[p].port /\ new.facts = proc[p].facts
          /\ new.ca = disk["crt"] /\ new.file = None /\ new.todo = proc[p].todo
      BY <1>1 DEF Process, FindCA, Idle
    <3> HIDE DEF new
    <3>2. QED
      BY <2>2, <2>3, <3>1, BecomesEffect
  <2>5. QED
    BY <1>4, <2>1, <2>4 DEF FindCA
<1>5. QED
  BY <1>2, <1>3, <1>4

LEMMA KeyEffect ==
  ASSUME TypeInv, WritesInv, NEW p \in Proc, WriteKey(p)
  PROVE  /\ proc[p].at = "generated" /\ Idle(p) /\ Wrote("key", Torn)
         /\ Now(p, "signed", proc[p].port, proc[p].facts, proc[p].ca, "key", proc[p].ca)
         /\ UNCHANGED <<ports, changes, cas, deaths, cut, old, excused>>
<1>1. proc[p] \in Process /\ proc[p].ca \in 1..MaxCAs
  BY DEF TypeInv, WriteKey, WritesInv
<1>2. [proc[p] EXCEPT !.at = "signed"] \in Process
  BY <1>1 DEF Process, Booting
<1>3. QED
  BY <1>1, <1>2, BeginsEffect DEF WriteKey, Process, File

LEMMA CrtEffect ==
  ASSUME TypeInv, WritesInv, NEW p \in Proc, WriteCrt(p)
  PROVE  /\ proc[p].at = "signed" /\ Idle(p) /\ Wrote("crt", Torn)
         /\ Now(p, "scan", proc[p].port, proc[p].facts, proc[p].ca, "crt", proc[p].ca)
         /\ UNCHANGED <<ports, changes, cas, deaths, cut, old, excused>>
<1>1. proc[p] \in Process /\ proc[p].ca \in 1..MaxCAs
  BY DEF TypeInv, WriteCrt, WritesInv
<1>2. [proc[p] EXCEPT !.at = "scan"] \in Process
  BY <1>1 DEF Process, Booting
<1>3. QED
  BY <1>1, <1>2, BeginsEffect DEF WriteCrt, Process, File

LEMMA StartEffect ==
  ASSUME TypeInv, WritesInv, NEW p \in Proc, Start(p)
  PROVE  /\ proc[p] = Off /\ (Overlap \/ \A q \in Proc : proc[q].at \notin Booting)
         /\ Now(p, "seed", 0, {}, None, None, None)
         /\ UNCHANGED <<disk, ports, changes, cas, deaths, cut, old>>
<1>1. proc[p] = Off
  BY DEF Start, WritesInv
<1>2. QED
  BY <1>1, GoesToEffect DEF Start, Off, Booting

LEMMA SaveEffect ==
  ASSUME TypeInv, NEW p \in Proc, Save(p)
  PROVE  /\ proc[p].at \in {"listening", "aside"} /\ Idle(p) /\ Wrote("state", Torn)
         /\ changes' = changes + 1
         /\ \E facts \in SUBSET (0..MaxChanges) :
              /\ facts = proc[p].facts \cup {changes + 1}
              /\ Now(p, proc[p].at, proc[p].port, facts, proc[p].ca, "state", Doc(2, facts))
         /\ changes' \in 0..MaxChanges /\ UNCHANGED <<ports, cas, deaths, cut, old, excused>>
<1> USE StartupAssumption
<1> DEFINE facts == proc[p].facts \cup {changes + 1}
           new == [proc[p] EXCEPT !.facts = facts]
<1>1. proc[p] \in Process /\ changes \in 0..MaxChanges
  BY DEF TypeInv
<1>2. changes + 1 \in 0..MaxChanges
  BY <1>1 DEF Save
<1>3. facts \in SUBSET (0..MaxChanges)
  BY <1>1, <1>2 DEF Process
<1>4. new \in Process /\ Doc(2, facts) \in Document
  BY <1>1, <1>3, DocIsDocument DEF Process
<1>5. Begins(p, new, "state", Doc(2, facts))
  BY DEF Save
<1>6. /\ new.at = proc[p].at /\ new.port = proc[p].port /\ new.facts = facts
      /\ new.ca = proc[p].ca
  BY <1>1 DEF Save, Process
<1> HIDE DEF new
<1>7. Wrote("state", Torn)
      /\ Now(p, proc[p].at, proc[p].port, facts, proc[p].ca, "state", Doc(2, facts))
  BY <1>4, <1>5, <1>6, BeginsEffect DEF File
<1>8. QED
  BY <1>2, <1>3, <1>7 DEF Save, Serving, Alive

LEMMA DieEffect ==
  ASSUME TypeInv, NEW p \in Proc, Die(p)
  PROVE  /\ Now(p, "off", 0, {}, None, None, None) /\ proc'[p] = Off
         /\ proc[p].at # "off" /\ cut' = (cut \/ proc[p].file = "state")
         /\ deaths' \in 0..MaxDeaths /\ UNCHANGED <<disk, changes, cas, old, excused>>
  BY StartupAssumption, OffEffect DEF Die, TypeInv

(* The steps of the scan change nothing but a process and a port. *)
Scans(p) == TryPort(p) \/ CloseTester(p) \/ ProbeIsOurs(p) \/ ProbeIsNot(p) \/ Listen(p)

LEMMA ScanEffect ==
  ASSUME TypeInv, NEW p \in Proc, Scans(p)
  PROVE  /\ \/ Now(p, "off", 0, {}, None, None, None) /\ proc'[p] = Off
            \/ \E at \in {"scan", "close", "probe", "bind"} \cup Alive, port \in Port :
                  Now(p, at, port, proc[p].facts, proc[p].ca, proc[p].file, proc[p].todo)
         /\ proc[p].at \in {"scan", "close", "probe", "bind"}
         /\ proc[p].at = "scan" => Idle(p)
         /\ UNCHANGED <<disk, changes, cas, deaths, cut, old>>
<1> USE StartupAssumption
<1>1. proc[p] \in Process
  BY DEF TypeInv
<1>2. CASE TryPort(p)
  BY <1>1, <1>2, GoesToEffect DEF TryPort, Booting, Process
<1>3. CASE CloseTester(p)
  BY <1>1, <1>3, GoesToEffect DEF CloseTester, Booting, Process
<1>4. CASE ProbeIsOurs(p)
  BY <1>4, OffEffect DEF ProbeIsOurs
<1>5. CASE ProbeIsNot(p)
  <2>1. CASE proc[p].port < MaxScan
    <3> DEFINE new == [proc[p] EXCEPT !.at = "scan", !.port = @ + 1]
    <3>1. proc[p].port + 1 \in Port
      BY <1>1, <2>1 DEF Process, Port
    <3>2. new \in Process
      BY <1>1, <3>1 DEF Process, Booting
    <3>3. /\ new.at = "scan" /\ new.port = proc[p].port + 1 /\ new.facts = proc[p].facts
          /\ new.ca = proc[p].ca /\ new.file = proc[p].file /\ new.todo = proc[p].todo
      BY <1>1 DEF Process
    <3>4. Becomes(p, new)
      BY <1>5, <2>1 DEF ProbeIsNot
    <3> HIDE DEF new
    <3>5. Now(p, "scan", proc[p].port + 1, proc[p].facts, proc[p].ca, proc[p].file, proc[p].todo)
      BY <3>2, <3>3, <3>4, BecomesEffect
    <3>6. QED
      BY <1>5, <3>1, <3>5 DEF ProbeIsNot
  <2>2. CASE ~(proc[p].port < MaxScan)
    BY <1>1, <1>5, <2>2, GoesToEffect DEF ProbeIsNot, Alive, Process
  <2>3. QED
    BY <2>1, <2>2
<1>6. CASE Listen(p)
  BY <1>1, <1>6, GoesToEffect DEF Listen, Alive, Process
<1>7. QED
  BY <1>2, <1>3, <1>4, <1>5, <1>6 DEF Scans

LEMMA BootInit == Init => BootInv
<1> SUFFICES ASSUME Init PROVE BootInv
  OBVIOUS
<1> USE StartupAssumption, DocIsDocument, Distinct
<1>1. Off \in Process
  BY DEF Off, Process, Port
<1>2. TypeInv
  <2>1. /\ disk \in [File -> {Missing, Torn} \cup Document \cup 1..MaxCAs]
        /\ {disk["state"], disk["bak"]} \subseteq {Missing, Torn} \cup Document
        /\ {disk["key"], disk["crt"]} \subseteq {Missing, Torn} \cup 1..MaxCAs
    BY DEF Init, Original, Document, Doc, File
  <2>2. proc \in [Proc -> Process]
    BY <1>1 DEF Init
  <2>3. ports \in [Port -> {None, Stranger} \cup ({"server", "tester"} \X Proc)]
    BY DEF Init
  <2>4. changes \in 0..MaxChanges /\ cas \in 0..MaxCAs /\ deaths \in 0..MaxDeaths
    BY DEF Init
  <2>5. cut \in BOOLEAN /\ old \in BOOLEAN
    BY ZenonT(20) DEF Init
  <2>6. QED
    BY <2>1, <2>2, <2>3, <2>4, <2>5 DEF TypeInv
<1>3. WritesInv /\ OneBoots
  BY DEF Init, WritesInv, OneBoots, Off, Booting, File
<1>4. QED
  BY <1>2, <1>3 DEF BootInv

LEMMA IdleStages ==
  ASSUME BootInv, NEW p \in Proc,
         proc[p].at \in {"off", "seed", "backup", "generated", "close", "probe", "bind", "deaf"}
  PROVE  Idle(p)
  BY DEF BootInv, WritesInv, TypeInv, Process, File, Idle, Off

(* The typing of the ports is the only part that the scan disturbs. *)
LEMMA ScanPorts ==
  ASSUME TypeInv, NEW p \in Proc, Scans(p) \/ Die(p)
  PROVE  ports' \in [Port -> {None, Stranger} \cup ({"server", "tester"} \X Proc)]
<1> DEFINE Holder == {None, Stranger} \cup ({"server", "tester"} \X Proc)
<1>1. ports \in [Port -> Holder]
  BY DEF TypeInv
<1>2. None \in Holder /\ <<"server", p>> \in Holder /\ <<"tester", p>> \in Holder
  OBVIOUS
<1> SUFFICES ports' \in [Port -> Holder]
  OBVIOUS
<1> HIDE DEF Holder
<1>3. CASE Die(p)
  BY <1>1, <1>2, <1>3 DEF Die
<1>4. CASE Scans(p)
  BY <1>1, <1>2, <1>4 DEF Scans, TryPort, CloseTester, ProbeIsOurs, ProbeIsNot, Listen
<1>5. QED
  BY <1>3, <1>4

LEMMA BootStep ==
  ASSUME BootInv, [Next]_vars
  PROVE  BootInv'
<1> USE StartupAssumption, DocIsDocument, Distinct DEF BootInv
<1>1. ASSUME NEW p \in Proc, Finish(p) PROVE BootInv'
  <2>0. /\ proc[p] \in Process /\ proc[p].file \in File /\ Wrote(proc[p].file, proc[p].todo)
        /\ Now(p, proc[p].at, proc[p].port, proc[p].facts, proc[p].ca, None, None)
        /\ UNCHANGED <<ports, changes, cas, deaths, cut, old, excused>>
    BY <1>1, FinishEffect DEF TypeInv
  <2>1. TypeInv'
    <3>1. /\ proc[p].file \in {"state", "bak"} => proc[p].todo \in Document
          /\ proc[p].file \in {"key", "crt"} => proc[p].todo \in 1..MaxCAs
      BY <2>0 DEF WritesInv, Process, Seed, File
    <3>2. /\ {disk'["state"], disk'["bak"]} \subseteq {Missing, Torn} \cup Document
          /\ {disk'["key"], disk'["crt"]} \subseteq {Missing, Torn} \cup 1..MaxCAs
      BY <2>0, <3>1 DEF TypeInv, Wrote, File
    <3>3. QED
      BY <2>0, <3>2 DEF TypeInv, Now, Wrote
  <2>2. WritesInv' /\ OneBoots'
    <3>1. proc[p].at # "off"
      BY <2>0 DEF WritesInv, Off
    <3>2. QED
      BY <2>0, <3>1 DEF WritesInv, OneBoots, Now, File
  <2>3. QED
    BY <2>1, <2>2
<1>2. ASSUME NEW p \in Proc, SeedState(p) PROVE BootInv'
  <2>1. TypeInv'
    BY <1>2, SeedEffect DEF TypeInv, Now, Wrote, File
  <2>2. WritesInv' /\ OneBoots'
    BY <1>2, SeedEffect DEF WritesInv, OneBoots, Now, Idle, Booting, File
  <2>3. QED
    BY <2>1, <2>2
<1>3. ASSUME NEW p \in Proc, LoadState(p) PROVE BootInv'
  <2>1. TypeInv'
    <3>1. cut' \in BOOLEAN
      BY ZenonT(20), <1>3, LoadEffect DEF TypeInv
    <3>2. QED
      BY <1>3, <3>1, LoadEffect DEF TypeInv, Now
  <2>2. WritesInv' /\ OneBoots'
    BY <1>3, LoadEffect DEF WritesInv, OneBoots, Now, Idle, Booting, File
  <2>3. QED
    BY <2>1, <2>2
<1>4. ASSUME NEW p \in Proc, KeepOriginal(p) PROVE BootInv'
  <2>1. TypeInv'
    BY <1>4, KeepEffect DEF TypeInv, Now, Wrote, File
  <2>2. WritesInv' /\ OneBoots'
    BY <1>4, KeepEffect DEF WritesInv, OneBoots, Now, Idle, Booting, File
  <2>3. QED
    BY <2>1, <2>2
<1>5. ASSUME NEW p \in Proc, WriteMigrated(p) PROVE BootInv'
  <2>1. TypeInv'
    BY <1>5, MigratedEffect DEF TypeInv, Now, Wrote, File
  <2>2. WritesInv' /\ OneBoots'
    BY <1>5, MigratedEffect DEF WritesInv, OneBoots, Now, Idle, Booting, File
  <2>3. QED
    BY <2>1, <2>2
<1>6. ASSUME NEW p \in Proc, FindCA(p) PROVE BootInv'
  <2>1. TypeInv'
    BY <1>6, FindEffect DEF TypeInv, Now
  <2>2. WritesInv' /\ OneBoots'
    BY <1>6, FindEffect DEF WritesInv, OneBoots, Now, Idle, Booting, File
  <2>3. QED
    BY <2>1, <2>2
<1>7. ASSUME NEW p \in Proc, WriteKey(p) PROVE BootInv'
  <2>1. TypeInv'
    BY <1>7, KeyEffect DEF TypeInv, Now, Wrote, File
  <2>2. WritesInv' /\ OneBoots'
    BY <1>7, KeyEffect DEF WritesInv, OneBoots, Now, Idle, Booting, File
  <2>3. QED
    BY <2>1, <2>2
<1>8. ASSUME NEW p \in Proc, WriteCrt(p) PROVE BootInv'
  <2>1. TypeInv'
    BY <1>8, CrtEffect DEF TypeInv, Now, Wrote, File
  <2>2. WritesInv' /\ OneBoots'
    BY <1>8, CrtEffect DEF WritesInv, OneBoots, Now, Idle, Booting, File
  <2>3. QED
    BY <2>1, <2>2
<1>9. ASSUME NEW p \in Proc, Scans(p) PROVE BootInv'
  <2>1. TypeInv'
    BY <1>9, ScanEffect, ScanPorts DEF TypeInv, Now
  <2>2. WritesInv' /\ OneBoots'
    BY <1>9, ScanEffect DEF WritesInv, OneBoots, Now, Idle, Booting, Alive, File
  <2>3. QED
    BY <2>1, <2>2
<1>10. ASSUME NEW p \in Proc, Start(p) PROVE BootInv'
  <2>1. TypeInv'
    BY <1>10, StartEffect DEF TypeInv, Now
  <2>2. WritesInv' /\ OneBoots'
    BY <1>10, StartEffect DEF WritesInv, OneBoots, Now, Booting, File
  <2>3. QED
    BY <2>1, <2>2
<1>11. ASSUME NEW p \in Proc, Save(p) PROVE BootInv'
  <2>1. TypeInv'
    BY <1>11, SaveEffect DEF TypeInv, Now, Wrote, File
  <2>2. WritesInv' /\ OneBoots'
    BY <1>11, SaveEffect DEF WritesInv, OneBoots, Now, Idle, Booting, File
  <2>3. QED
    BY <2>1, <2>2
<1>12. ASSUME NEW p \in Proc, Die(p) PROVE BootInv'
  <2>1. TypeInv'
    <3>1. cut' \in BOOLEAN
      BY ZenonT(20), <1>12, DieEffect DEF TypeInv
    <3>2. QED
      BY <1>12, <3>1, DieEffect, ScanPorts DEF TypeInv, Now
  <2>2. WritesInv' /\ OneBoots'
    <3>1. proc'[p] = Off /\ \A q \in Proc : q # p => proc'[q] = proc[q]
      BY <1>12, DieEffect DEF Now
    <3>2. proc'[p].at = "off" /\ proc'[p].file = None
      BY <3>1 DEF Off
    <3>3. QED
      BY <3>1, <3>2 DEF WritesInv, OneBoots, Booting, File
  <2>3. QED
    BY <2>1, <2>2
<1>13. ASSUME NEW k \in Port, Other(k) PROVE BootInv'
  <2>1. ports' \in [Port -> {None, Stranger} \cup ({"server", "tester"} \X Proc)]
    BY <1>13 DEF Other, TypeInv
  <2>2. QED
    BY <1>13, <2>1 DEF Other, TypeInv, WritesInv, OneBoots, Idle
<1>14. CASE UNCHANGED vars
  BY <1>14 DEF vars, TypeInv, WritesInv, OneBoots, Idle
<1>15. QED
  BY <1>1, <1>2, <1>3, <1>4, <1>5, <1>6, <1>7, <1>8, <1>9, <1>10, <1>11, <1>12, <1>13, <1>14
     DEF Next, Step, Scans

---------------------------------------------------------------------------
LEMMA Documents ==
  /\ Original \in Document /\ Original.version = 1 /\ Original.facts = {0}
  /\ Seed \in Document /\ Seed.version = 2 /\ Seed.facts = {}
  /\ Original # Missing /\ Original # Torn /\ Missing # Torn
  /\ Missing \notin Document /\ Torn \notin Document
  /\ \A d \in Document : d.version \in {1, 2} /\ d.facts \subseteq 0..MaxChanges
<1>1. {0} \in SUBSET (0..MaxChanges) /\ {} \in SUBSET (0..MaxChanges)
  BY StartupAssumption
<1>2. \A d \in Document : d.version \in {1, 2} /\ d.facts \subseteq 0..MaxChanges
  BY DEF Document
<1>3. QED
  BY <1>1, <1>2, DocIsDocument, Distinct DEF Original, Seed

LEMMA OriginalInit == Init => OriginalInv
<1> SUFFICES ASSUME Init PROVE OriginalInv
  OBVIOUS
<1>1. Doc(2, {0}).version = 2
  BY DEF Doc
<1>2. disk["state"] \in {Missing, Original, Doc(2, {0})} /\ (old => disk["state"] = Original)
  BY DEF Init, File
<1>3. \A p \in Proc : proc[p].at = "off" /\ proc[p].file = None
  BY DEF Init, Off
<1>4. QED
  BY <1>1, <1>2, <1>3, Documents, Distinct DEF OriginalInv, File

LEMMA OriginalStep ==
  ASSUME ~Overlap, BootInv, OriginalInv, [Next]_vars
  PROVE  OriginalInv'
<1> USE Documents DEF BootInv
<1>1. ASSUME NEW p \in Proc, Finish(p) PROVE OriginalInv'
  <2>0. /\ proc[p] \in Process /\ proc[p].file \in File /\ Wrote(proc[p].file, proc[p].todo)
        /\ Now(p, proc[p].at, proc[p].port, proc[p].facts, proc[p].ca, None, None)
        /\ UNCHANGED old
    BY <1>1, FinishEffect DEF TypeInv
  <2>1. CASE proc[p].file = "state"
    <3>1. disk["state"] # Original
      BY <2>1 DEF OriginalInv
    <3>2. disk'["state"] \in Document /\ disk'["state"].version = 2
      BY <2>0, <2>1, DocIsDocument DEF WritesInv, Process, Wrote
    <3>3. proc[p].at \in {"load", "ca", "listening", "aside"} /\ \A q \in Proc : proc'[q].at = proc[q].at
      BY <2>0, <2>1 DEF Now, WritesInv
    <3>4. \A q \in Proc : proc[q].at \notin {"backup", "convert"}
      BY <3>1 DEF OriginalInv
    <3>5. disk'["bak"] = disk["bak"]
      BY <2>0, <2>1 DEF Wrote, File
    <3>6. QED
      BY <2>0, <3>1, <3>2, <3>3, <3>4, <3>5 DEF OriginalInv
  <2>2. CASE proc[p].file = "bak"
    <3>1. proc[p].at = "convert" /\ proc[p].todo = Original
      BY <2>2 DEF WritesInv, OriginalInv, Original
    <3>2. disk'["state"] = disk["state"] /\ disk'["bak"] = Original
      BY <2>0, <2>2, <3>1 DEF Wrote, File
    <3>3. \A q \in Proc : /\ proc'[q].at = proc[q].at /\ proc'[q].facts = proc[q].facts
                          /\ proc'[q].file \in {None, proc[q].file}
      BY <2>0 DEF Now
    <3>4. QED
      BY <2>0, <3>2, <3>3, Distinct DEF OriginalInv, File
  <2>3. CASE proc[p].file \in {"key", "crt"}
    BY <2>0, <2>3 DEF OriginalInv, WritesInv, Now, Wrote, File, Idle
  <2>4. QED
    BY <2>0, <2>1, <2>2, <2>3 DEF File
<1>2. ASSUME NEW p \in Proc, SeedState(p) PROVE OriginalInv'
  BY <1>2, SeedEffect DEF OriginalInv, Now, Wrote, File, Idle, Booting
<1>3. ASSUME NEW p \in Proc, LoadState(p) PROVE OriginalInv'
  BY <1>3, LoadEffect DEF OriginalInv, Now, Idle
<1>4. ASSUME NEW p \in Proc, KeepOriginal(p) PROVE OriginalInv'
  <2>1. \A q \in Proc : q # p => proc[q].at \notin Booting
    BY <1>4, KeepEffect DEF OneBoots, Booting
  <2>2. disk["state"] = Original /\ proc[p].facts = {0}
    BY <1>4, KeepEffect DEF OriginalInv
  <2>3. disk'["state"] = disk["state"] /\ UNCHANGED old
    BY <1>4, KeepEffect DEF Wrote, File
  <2>4. /\ proc'[p].at = "convert" /\ proc'[p].file = "bak" /\ proc'[p].facts = {0}
        /\ \A q \in Proc : q # p => proc'[q] = proc[q]
    BY <1>4, <2>2, KeepEffect DEF Now
  <2>5. QED
    BY <2>1, <2>2, <2>3, <2>4, Distinct DEF OriginalInv, Idle, File, Booting
<1>5. ASSUME NEW p \in Proc, WriteMigrated(p) PROVE OriginalInv'
  <2>1. \A q \in Proc : q # p => proc[q].at \notin Booting
    BY <1>5, MigratedEffect DEF OneBoots, Booting
  <2>2. QED
    BY <1>5, <2>1, MigratedEffect DEF OriginalInv, Now, Wrote, File, Idle, Booting
<1>6. ASSUME NEW p \in Proc, FindCA(p) PROVE OriginalInv'
  BY <1>6, FindEffect DEF OriginalInv, Now, Wrote, File, Idle, Booting, Off
<1>7. ASSUME NEW p \in Proc, WriteKey(p) PROVE OriginalInv'
  BY <1>7, KeyEffect DEF OriginalInv, Now, Wrote, File, Idle, Booting
<1>8. ASSUME NEW p \in Proc, WriteCrt(p) PROVE OriginalInv'
  BY <1>8, CrtEffect DEF OriginalInv, Now, Wrote, File, Idle, Booting
<1>9. ASSUME NEW p \in Proc, Scans(p) PROVE OriginalInv'
  BY <1>9, ScanEffect DEF OriginalInv, Now, Wrote, File, Idle, Booting, Off, Alive
<1>10. ASSUME NEW p \in Proc, Start(p) PROVE OriginalInv'
  BY <1>10, StartEffect DEF OriginalInv, Now, Wrote, File, Idle, Booting, Off
<1>11. ASSUME NEW p \in Proc, Save(p) PROVE OriginalInv'
  BY <1>11, SaveEffect DEF OriginalInv, Now, Wrote, File, Idle, Booting
<1>12. ASSUME NEW p \in Proc, Die(p) PROVE OriginalInv'
  <2>1. /\ proc'[p].at = "off" /\ proc'[p].file = None /\ UNCHANGED <<disk, old>>
        /\ \A q \in Proc : q # p => proc'[q] = proc[q]
    BY <1>12, DieEffect DEF Now
  <2>2. QED
    BY <2>1, Distinct DEF OriginalInv, Idle, File
<1>13. CASE UNCHANGED vars \/ \E k \in Port : Other(k)
  BY <1>13 DEF Other, vars, OriginalInv, Idle
<1>14. QED
  BY <1>1, <1>2, <1>3, <1>4, <1>5, <1>6, <1>7, <1>8, <1>9, <1>10, <1>11, <1>12, <1>13
     DEF Next, Step, Scans

(* The document a migration started from is never lost: with one process   *)
(* booting at a time, and any number of kills on the way.                  *)
THEOREM OriginalIsKept ==
  ASSUME ~Overlap
  PROVE  Spec => []OriginalKept
<1>1. BootInv /\ OriginalInv => OriginalKept
  BY DEF OriginalInv, OriginalKept
<1>2. BootInv /\ OriginalInv /\ [Next]_vars => BootInv' /\ OriginalInv'
  BY BootStep, OriginalStep
<1>3. QED
  BY BootInit, OriginalInit, <1>1, <1>2, PTL DEF Spec

---------------------------------------------------------------------------
LEMMA AuthorityInit == Init => AuthorityInv
  BY Distinct, StartupAssumption DEF Init, AuthorityInv, Off, Alive, File

LEMMA AuthorityStep ==
  ASSUME ~Overlap, BootInv, AuthorityInv, [Next]_vars
  PROVE  AuthorityInv'
<1>0. /\ \A n \in 1..MaxCAs : n # Missing /\ n # Torn /\ n # None
      /\ Missing # Torn
      /\ \A f \in File : f # None
      /\ {disk["key"], disk["crt"]} \subseteq {Missing, Torn} \cup 1..MaxCAs
      /\ {disk["key"], disk["crt"]}' \subseteq {Missing, Torn} \cup 1..MaxCAs
  BY BootStep, Distinct, StartupAssumption DEF BootInv, TypeInv
<1> USE <1>0 DEF BootInv
<1>1. ASSUME NEW p \in Proc, Finish(p) PROVE AuthorityInv'
  <2>0. /\ proc[p] \in Process /\ proc[p].file \in File /\ Wrote(proc[p].file, proc[p].todo)
        /\ Now(p, proc[p].at, proc[p].port, proc[p].facts, proc[p].ca, None, None)
    BY <1>1, FinishEffect DEF TypeInv
  <2>1. CASE proc[p].file \in {"state", "bak"}
    BY <2>0, <2>1 DEF AuthorityInv, WritesInv, Now, Wrote, File, Idle, Alive
  <2>2. CASE proc[p].file = "key"
    <3>1. /\ proc[p].at = "signed" /\ proc[p].todo = proc[p].ca /\ proc[p].ca \in 1..MaxCAs
          /\ disk["crt"] = Missing
      BY <2>2 DEF WritesInv, AuthorityInv
    <3>2. disk'["key"] = proc[p].ca /\ disk'["crt"] = Missing
      BY <2>0, <2>2, <3>1 DEF Wrote, File
    <3>3. \A q \in Proc : q # p => proc[q].at \notin Booting
      BY <3>1 DEF OneBoots, Booting
    <3>4. QED
      BY <2>0, <3>1, <3>2, <3>3 DEF AuthorityInv, Now, Idle, Alive, Booting
  <2>3. CASE proc[p].file = "crt"
    <3>1. /\ proc[p].at = "scan" /\ proc[p].todo = proc[p].ca /\ proc[p].ca \in 1..MaxCAs
          /\ disk["crt"] = Torn /\ disk["key"] = proc[p].ca
      BY <2>0, <2>3 DEF WritesInv, AuthorityInv, Idle
    <3>2. disk'["crt"] = proc[p].ca /\ disk'["key"] = proc[p].ca
      BY <2>0, <2>3, <3>1 DEF Wrote, File
    <3>3. \A q \in Proc : q # p => proc[q].at \notin Booting
      BY <3>1 DEF OneBoots, Booting
    <3>4. QED
      BY <2>0, <3>1, <3>2, <3>3 DEF AuthorityInv, Now, Idle, Alive, Booting
  <2>4. QED
    BY <2>0, <2>1, <2>2, <2>3 DEF File
<1>2. ASSUME NEW p \in Proc, SeedState(p) PROVE AuthorityInv'
  BY <1>2, SeedEffect DEF AuthorityInv, Now, Wrote, File, Idle, Alive
<1>3. ASSUME NEW p \in Proc, LoadState(p) PROVE AuthorityInv'
  BY <1>3, LoadEffect DEF AuthorityInv, Now, Idle, Alive
<1>4. ASSUME NEW p \in Proc, KeepOriginal(p) PROVE AuthorityInv'
  BY <1>4, KeepEffect DEF AuthorityInv, Now, Wrote, File, Idle, Alive
<1>5. ASSUME NEW p \in Proc, WriteMigrated(p) PROVE AuthorityInv'
  BY <1>5, MigratedEffect DEF AuthorityInv, Now, Wrote, File, Idle, Alive
<1>6. ASSUME NEW p \in Proc, FindCA(p) PROVE AuthorityInv'
  BY <1>6, FindEffect DEF AuthorityInv, Now, Idle, Alive
<1>7. ASSUME NEW p \in Proc, WriteKey(p) PROVE AuthorityInv'
  <2>1. \A q \in Proc : q # p => proc[q].at \notin Booting
    BY <1>7, KeyEffect DEF OneBoots, Booting
  <2>2. QED
    BY <1>7, <2>1, KeyEffect DEF AuthorityInv, Now, Wrote, File, Idle, Alive, Booting
<1>8. ASSUME NEW p \in Proc, WriteCrt(p) PROVE AuthorityInv'
  <2>1. \A q \in Proc : q # p => proc[q].at \notin Booting
    BY <1>8, CrtEffect DEF OneBoots, Booting
  <2>2. QED
    <3>1. disk["key"] = proc[p].ca /\ disk["crt"] = Missing /\ proc[p].ca \in 1..MaxCAs
      BY <1>8, CrtEffect DEF AuthorityInv, WritesInv
    <3>2. disk'["key"] = proc[p].ca /\ disk'["crt"] = Torn
      BY <1>8, <3>1, CrtEffect DEF Wrote, File
    <3>3. QED
      BY <1>8, <2>1, <3>1, <3>2, CrtEffect DEF AuthorityInv, Now, File, Idle, Alive, Booting
<1>9. ASSUME NEW p \in Proc, Scans(p) PROVE AuthorityInv'
  <2>1. Idle(p) /\ UNCHANGED disk
    BY <1>9, ScanEffect, IdleStages
  <2>2. CASE Now(p, "off", 0, {}, None, None, None)
    BY <2>1, <2>2 DEF AuthorityInv, Now, Idle, Alive
  <2>3. ASSUME NEW at \in {"scan", "close", "probe", "bind"} \cup Alive, NEW port \in Port,
               Now(p, at, port, proc[p].facts, proc[p].ca, proc[p].file, proc[p].todo)
        PROVE  AuthorityInv'
    <3>1. proc[p].ca \in 1..MaxCAs /\ disk["crt"] = proc[p].ca
      BY <1>9, <2>1, ScanEffect DEF AuthorityInv
    <3>2. QED
      BY <2>1, <2>3, <3>1 DEF AuthorityInv, Now, Idle, Alive
  <2>4. QED
    BY <1>9, <2>2, <2>3, ScanEffect
<1>10. ASSUME NEW p \in Proc, Start(p) PROVE AuthorityInv'
  BY <1>10, StartEffect DEF AuthorityInv, Now, Idle, Alive
<1>11. ASSUME NEW p \in Proc, Save(p) PROVE AuthorityInv'
  BY <1>11, SaveEffect DEF AuthorityInv, Now, Wrote, File, Idle, Alive
<1>12. ASSUME NEW p \in Proc, Die(p) PROVE AuthorityInv'
  <2>1. /\ proc'[p].at = "off" /\ proc'[p].file = None /\ UNCHANGED disk
        /\ \A q \in Proc : q # p => proc'[q] = proc[q]
    BY <1>12, DieEffect DEF Now
  <2>2. QED
    BY <2>1 DEF AuthorityInv, Idle, Alive
<1>13. CASE UNCHANGED vars \/ \E k \in Port : Other(k)
  BY <1>13 DEF Other, vars, AuthorityInv, Idle
<1>14. QED
  BY <1>1, <1>2, <1>3, <1>4, <1>5, <1>6, <1>7, <1>8, <1>9, <1>10, <1>11, <1>12, <1>13
     DEF Next, Step, Scans

(* The two files of the authority belong together, and so do the authority *)
(* each live copy signs with and the one another copy has given out.       *)
THEOREM AuthorityPaired ==
  ASSUME ~Overlap
  PROVE  Spec => []CAPaired
<1>1. BootInv /\ AuthorityInv => CAPaired
  <2> SUFFICES ASSUME BootInv, AuthorityInv PROVE CAPaired
    OBVIOUS
  <2>1. {disk["key"], disk["crt"]} \subseteq 1..MaxCAs => disk["key"] = disk["crt"]
    BY DEF AuthorityInv
  <2>2. ASSUME NEW p \in Proc, proc[p].at \in Alive PROVE proc[p].ca = disk["crt"]
    <3>1. proc[p].at \in {"listening", "aside"} \/ Idle(p)
      BY <2>2 DEF BootInv, WritesInv, TypeInv, Process, Alive, Idle, File
    <3>2. QED
      BY <2>2, <3>1 DEF AuthorityInv, Alive
  <2>3. QED
    BY <2>1, <2>2 DEF CAPaired, CACert, HostCert
<1>2. BootInv /\ AuthorityInv /\ [Next]_vars => BootInv' /\ AuthorityInv'
  BY BootStep, AuthorityStep
<1>3. QED
  BY BootInit, AuthorityInit, <1>1, <1>2, PTL DEF Spec

---------------------------------------------------------------------------
LEMMA ChangesInit == Init => ChangesInv
<1> SUFFICES ASSUME Init PROVE ChangesInv
  OBVIOUS
<1>1. changes = 0 /\ 1..changes = {} /\ \A p \in Proc : proc[p].at = "off"
  BY DEF Init, Off
<1>2. disk["state"] # Torn
  BY Documents, Distinct, DocIsDocument, StartupAssumption DEF Init, File
<1>3. QED
  BY <1>1, <1>2 DEF ChangesInv, Holds, Booting

LEMMA ChangesStep ==
  ASSUME ~Overlap, BootInv, ChangesInv, [Next]_vars
  PROVE  ChangesInv'
<1>0. /\ Missing # Torn /\ Missing \notin Document /\ Torn \notin Document
      /\ \A f \in File : f # None
      /\ changes \in Nat
  BY Distinct, Documents, StartupAssumption DEF BootInv, TypeInv
<1> USE <1>0 DEF BootInv
<1>1. ASSUME NEW p \in Proc, Finish(p) PROVE ChangesInv'
  <2>0. /\ proc[p] \in Process /\ proc[p].file \in File /\ Wrote(proc[p].file, proc[p].todo)
        /\ Now(p, proc[p].at, proc[p].port, proc[p].facts, proc[p].ca, None, None)
        /\ UNCHANGED <<changes, cut>>
    BY <1>1, FinishEffect DEF TypeInv
  <2>1. CASE proc[p].file = "state"
    <3>1. disk'["state"] = proc[p].todo /\ proc[p].todo \in Document
      BY <2>0, <2>1, Documents, DocIsDocument DEF WritesInv, Wrote, Process
    <3>2. ~cut => 1..changes \subseteq proc[p].todo.facts
      <4>1. CASE proc[p].at = "load"
        BY <2>0, <4>1 DEF ChangesInv, Idle
      <4>2. CASE proc[p].at # "load"
        BY <2>0, <2>1, <4>2, DocIsDocument DEF WritesInv, ChangesInv, Holds, Booting, Process
      <4>3. QED
        BY <4>1, <4>2
    <3>3. QED
      BY <2>0, <3>1, <3>2 DEF ChangesInv, Now, Holds, Idle
  <2>2. CASE proc[p].file # "state"
    <3>1. disk'["state"] = disk["state"]
      BY <2>0, <2>2 DEF Wrote, File
    <3>2. QED
      BY <2>0, <2>2, <3>1 DEF ChangesInv, Now, Holds, Idle
  <2>3. QED
    BY <2>1, <2>2
<1>2. ASSUME NEW p \in Proc, SeedState(p) PROVE ChangesInv'
  <2>1. \A q \in Proc : q # p => proc[q].at \notin Booting
    BY <1>2, SeedEffect DEF OneBoots, Booting
  <2>2. QED
    BY <1>2, <2>1, SeedEffect DEF ChangesInv, Now, Wrote, Holds, Booting, Idle, File
<1>3. ASSUME NEW p \in Proc, LoadState(p) PROVE ChangesInv'
  <2>1. \A q \in Proc : q # p => proc[q].at \notin Booting
    BY <1>3, LoadEffect DEF OneBoots, Booting
  <2>2. cut' = (cut \/ \E q \in Proc : proc[q].at \in Serving)
    BY <1>3, LoadEffect
  <2>3. ASSUME ~cut' PROVE disk["state"] \in Document /\ 1..changes \subseteq disk["state"].facts
    <3>1. disk["state"] # Missing /\ Idle(p)
      BY <1>3, LoadEffect DEF ChangesInv
    <3>2. \A q \in Proc : proc[q].file # "state"
      BY <2>1, <2>2, <2>3, <3>1 DEF WritesInv, Booting, Idle, File, Serving, Alive
    <3>3. QED
      BY <2>2, <2>3, <3>1, <3>2 DEF ChangesInv, TypeInv
  <2>4. ~cut' => /\ disk'["state"] \in Document
                 /\ 1..changes' \subseteq disk'["state"].facts
                 /\ \A q \in Proc : Holds(q)' => 1..changes' \subseteq proc'[q].facts
                 /\ \A q \in Proc : proc'[q].at \notin {"listening", "aside"}
    BY <1>3, <2>1, <2>2, <2>3, LoadEffect DEF Now, Holds, Serving, Alive
  <2>5. disk'["state"] # Missing /\ \A q \in Proc : proc'[q].at # "load"
    BY <1>3, <2>1, LoadEffect DEF ChangesInv, Now, Booting
  <2>6. QED
    BY <2>4, <2>5 DEF ChangesInv
<1>4. ASSUME NEW p \in Proc, KeepOriginal(p) PROVE ChangesInv'
  BY <1>4, KeepEffect DEF ChangesInv, Now, Wrote, Holds, Booting, Idle, File
<1>5. ASSUME NEW p \in Proc, WriteMigrated(p) PROVE ChangesInv'
  BY <1>5, MigratedEffect DEF ChangesInv, Now, Wrote, Holds, Booting, Idle, File
<1>6. ASSUME NEW p \in Proc, FindCA(p) PROVE ChangesInv'
  BY <1>6, FindEffect DEF ChangesInv, Now, Holds, Booting, Idle, File
<1>7. ASSUME NEW p \in Proc, WriteKey(p) PROVE ChangesInv'
  BY <1>7, KeyEffect DEF ChangesInv, Now, Wrote, Holds, Booting, Idle, File
<1>8. ASSUME NEW p \in Proc, WriteCrt(p) PROVE ChangesInv'
  BY <1>8, CrtEffect DEF ChangesInv, Now, Wrote, Holds, Booting, Idle, File
<1>9. ASSUME NEW p \in Proc, Scans(p) PROVE ChangesInv'
  <2>1. /\ \A q \in Proc : q # p => proc[q].at \notin Booting
        /\ Idle(p) /\ Holds(p) /\ UNCHANGED <<disk, changes, cut>>
    BY <1>9, ScanEffect, IdleStages DEF OneBoots, Booting, Holds
  <2>2. CASE Now(p, "off", 0, {}, None, None, None)
    BY <2>1, <2>2 DEF ChangesInv, Now, Holds, Booting, Idle, File
  <2>3. ASSUME NEW at \in {"scan", "close", "probe", "bind"} \cup Alive, NEW port \in Port,
               Now(p, at, port, proc[p].facts, proc[p].ca, proc[p].file, proc[p].todo)
        PROVE  ChangesInv'
    BY <2>1, <2>3 DEF ChangesInv, Now, Holds, Booting, Idle, Alive, File
  <2>4. QED
    BY <1>9, <2>2, <2>3, ScanEffect
<1>10. ASSUME NEW p \in Proc, Start(p) PROVE ChangesInv'
  BY <1>10, StartEffect DEF ChangesInv, Now, Holds, Booting, Idle, Off, File
<1>11. ASSUME NEW p \in Proc, Save(p) PROVE ChangesInv'
  <2>1. /\ proc[p].at \in {"listening", "aside"} /\ Idle(p) /\ Wrote("state", Torn) /\ UNCHANGED cut
        /\ changes' = changes + 1 /\ Holds(p)
    BY <1>11, SaveEffect DEF Holds
  <2>2. PICK facts \in SUBSET (0..MaxChanges) :
           /\ facts = proc[p].facts \cup {changes + 1}
           /\ Now(p, proc[p].at, proc[p].port, facts, proc[p].ca, "state", Doc(2, facts))
    BY <1>11, SaveEffect
  <2>3. disk'["state"] = Torn
    BY <2>1 DEF Wrote
  <2>4. \A q \in Proc : ~(proc[q].at = "load" /\ ~Idle(q))
    BY <2>1 DEF ChangesInv
  <2>5. ~cut => \A q \in Proc : Holds(q) => q = p
    BY <2>1 DEF ChangesInv
  <2>6. 1..changes \subseteq proc[p].facts => 1..changes' \subseteq facts
    BY <2>1, <2>2
  <2>7. QED
    BY <2>1, <2>2, <2>3, <2>4, <2>5, <2>6 DEF ChangesInv, Now, Holds, Idle
<1>12. ASSUME NEW p \in Proc, Die(p) PROVE ChangesInv'
  <2>1. /\ proc'[p].at = "off" /\ proc'[p].file = None /\ UNCHANGED <<disk, changes>>
        /\ \A q \in Proc : q # p => proc'[q] = proc[q]
        /\ ~cut' => ~cut /\ proc[p].file # "state"
    BY <1>12, DieEffect DEF Now
  <2>2. QED
    BY <2>1 DEF ChangesInv, Holds, Booting, Idle, File
<1>13. CASE UNCHANGED vars \/ \E k \in Port : Other(k)
  BY <1>13 DEF Other, vars, ChangesInv, Holds, Idle
<1>14. QED
  BY <1>1, <1>2, <1>3, <1>4, <1>5, <1>6, <1>7, <1>8, <1>9, <1>10, <1>11, <1>12, <1>13
     DEF Next, Step, Scans

(* No change made in a dashboard is forgotten by the file, or by the write *)
(* under way, as long as no kill has cut a write short and nobody has      *)
(* loaded the file while another copy was up.                              *)
THEOREM ChangesAreKept ==
  ASSUME ~Overlap
  PROVE  Spec => []ChangesKept
<1>1. BootInv /\ ChangesInv => ChangesKept
  <2> SUFFICES ASSUME BootInv, ChangesInv, ~cut, changes # 0 PROVE ChangesKept
    BY DEF ChangesKept
  <2>1. disk["state"] # Missing /\ disk["state"] \in {Missing, Torn} \cup Document
    BY DEF ChangesInv, BootInv, TypeInv
  <2>2. CASE disk["state"] = Torn
    <3>1. PICK p \in Proc : proc[p].file = "state"
      BY <2>2 DEF ChangesInv
    <3>2. /\ proc[p].at \in {"ca", "listening", "aside"} /\ proc[p].todo = Doc(2, proc[p].facts)
          /\ proc[p].facts \in SUBSET (0..MaxChanges)
      BY <3>1, Distinct DEF BootInv, WritesInv, TypeInv, Process, ChangesInv, Idle, File
    <3>3. 1..changes \subseteq proc[p].todo.facts /\ proc[p].todo \in Document
      BY <3>2, DocIsDocument DEF ChangesInv, Holds, Booting
    <3>4. QED
      BY <3>1, <3>3, Documents DEF ChangesKept
  <2>3. CASE disk["state"] \in Document
    BY <2>3, Documents DEF ChangesInv, ChangesKept
  <2>4. QED
    BY <2>1, <2>2, <2>3
<1>2. BootInv /\ ChangesInv /\ [Next]_vars => BootInv' /\ ChangesInv'
  BY BootStep, ChangesStep
<1>3. QED
  BY BootInit, ChangesInit, <1>1, <1>2, PTL DEF Spec

---------------------------------------------------------------------------
LEMMA PortsInit == Init => PortsInv
  BY StartupDistinct DEF Init, PortsInv, PortsHeld, NotPassed, Met, Off, Booting

LEMMA PortsStep ==
  ASSUME BootInv, PortsInv, [Next]_vars
  PROVE  PortsInv'
<1> USE StartupAssumption DEF BootInv, PortsInv
<1>0. /\ \A p, q \in Proc, s, t \in {"server", "tester"} : <<s, p>> = <<t, q>> => s = t /\ p = q
      /\ \A p \in Proc, s \in {"server", "tester"} : <<s, p>> # None /\ <<s, p>> # Stranger
      /\ \A p \in Proc : proc[p].port \in Port
      /\ \A k \in Port : k \in Nat
  BY StartupDistinct DEF TypeInv, Process, Stranger, Port
<1>1. ASSUME NEW p \in Proc, UNCHANGED ports, excused \subseteq excused',
             \A q \in Proc : q # p => proc'[q] = proc[q],
             \/ proc'[p].at = proc[p].at /\ proc'[p].port = proc[p].port
             \/ /\ proc[p].at \in Booting /\ proc'[p].at \in Booting
                /\ {proc[p].at, proc'[p].at} \cap {"close", "bind"} = {}
                /\ proc'[p].port = proc[p].port
             \/ /\ proc[p].at \notin {"close", "listening"}
                /\ proc'[p].at \in {"off", "aside", "deaf"}
      PROVE  PortsInv'
  <2>1. \A q \in Proc : /\ proc'[q].at = "listening" <=> proc[q].at = "listening"
                        /\ proc'[q].at = "close" <=> proc[q].at = "close"
                        /\ proc[q].at \in {"listening", "close"} => proc'[q].port = proc[q].port
    BY <1>1 DEF Booting
  <2>2. PortsHeld'
    BY <1>1, <2>1 DEF PortsHeld
  <2>3. NotPassed'
    <3>1. \A q \in Proc : proc'[q].at \in Booting
             => /\ proc[q].at \in Booting /\ proc'[q].port = proc[q].port
                /\ proc'[q].at = "bind" => proc[q].at = "bind"
      BY <1>1 DEF Booting
    <3>2. QED
      BY <1>1, <2>1, <3>1 DEF NotPassed
  <2>4. Met'
    BY <1>1 DEF Met, Booting
  <2>5. QED
    BY <2>2, <2>3, <2>4
<1>2. ASSUME NEW p \in Proc,
             \/ Finish(p) \/ SeedState(p) \/ LoadState(p) \/ KeepOriginal(p) \/ WriteMigrated(p)
             \/ FindCA(p) \/ WriteKey(p) \/ WriteCrt(p) \/ Save(p)
      PROVE  PortsInv'
  BY <1>1, <1>2, FinishEffect, SeedEffect, LoadEffect, KeepEffect, MigratedEffect, FindEffect, KeyEffect,
     CrtEffect, SaveEffect DEF Now, Booting
<1>3. ASSUME NEW p \in Proc, TryPort(p) PROVE PortsInv'
  <2>1. CASE ports[proc[p].port] = None
    <3>1. /\ ports' = [ports EXCEPT ![proc[p].port] = <<"tester", p>>]
          /\ proc[p].at = "scan" /\ proc'[p].at = "close" /\ proc'[p].port = proc[p].port
          /\ \A q \in Proc : q # p => proc'[q] = proc[q]
      BY <1>3, <2>1, GoesToEffect DEF TryPort, Now, Booting
    <3>2. \A q \in Proc, k \in Port : ports[k] = <<"server", q>> => k # proc[p].port
      BY <1>0, <2>1
    <3>3. PortsHeld'
      BY <1>0, <2>1, <3>1, <3>2 DEF PortsHeld, TypeInv
    <3>4. NotPassed' /\ Met'
      BY <1>3, <3>1 DEF TryPort, NotPassed, Met, Booting
    <3>5. QED
      BY <3>3, <3>4
  <2>2. CASE ports[proc[p].port] # None
    BY <1>1, <1>3, <2>2, GoesToEffect DEF TryPort, Now, Booting
  <2>3. QED
    BY <2>1, <2>2
<1>4. ASSUME NEW p \in Proc, CloseTester(p) PROVE PortsInv'
  <2>1. /\ ports' = [ports EXCEPT ![proc[p].port] = None]
        /\ proc[p].at = "close" /\ proc'[p].at = "bind" /\ proc'[p].port = proc[p].port
        /\ \A q \in Proc : q # p => proc'[q] = proc[q]
    BY <1>4, GoesToEffect DEF CloseTester, Now, Booting
  <2>2. ports[proc[p].port] = <<"tester", p>>
    BY <1>0, <2>1 DEF PortsHeld
  <2>3. \A q \in Proc : proc[q].at = "listening" => proc[q].port # proc[p].port
    BY <1>0, <2>2 DEF PortsHeld
  <2>4. PortsHeld'
    <3>1. ASSUME NEW q \in Proc, NEW k \in Port, NEW s \in {"server", "tester"}
          PROVE  ports'[k] = <<s, q>> <=> ports[k] = <<s, q>> /\ k # proc[p].port
      BY <1>0, <2>1 DEF TypeInv
    <3>2. \A q \in Proc, k \in Port :
             /\ ports'[k] = <<"server", q>> <=> ports[k] = <<"server", q>>
             /\ ports'[k] = <<"tester", q>> <=> ports[k] = <<"tester", q>> /\ q # p
      BY <1>0, <2>2, <3>1 DEF PortsHeld
    <3>3. QED
      BY <2>1, <3>2 DEF PortsHeld
  <2>5. NotPassed' /\ Met'
    BY <1>4, <2>1, <2>3 DEF CloseTester, NotPassed, Met, Booting
  <2>6. QED
    BY <2>4, <2>5
<1>5. ASSUME NEW p \in Proc, ProbeIsOurs(p) PROVE PortsInv'
  BY <1>1, <1>5, OffEffect DEF ProbeIsOurs, Now
<1>6. ASSUME NEW p \in Proc, ProbeIsNot(p) PROVE PortsInv'
  <2>1. /\ proc[p].at = "probe" /\ UNCHANGED ports /\ excused \subseteq excused'
        /\ proc[p] \in Process
    BY <1>6 DEF ProbeIsNot, TypeInv
  <2>2. ASSUME NEW q \in Proc, proc[q].at = "listening", <<p, q>> \notin excused'
        PROVE  proc[q].port > proc[p].port
    <3>1. proc[p].port <= proc[q].port
      BY <2>1, <2>2 DEF NotPassed, Booting
    <3>2. proc[q].port # proc[p].port
      <4>1. SUFFICES ASSUME proc[q].port = proc[p].port PROVE FALSE
        OBVIOUS
      <4>2. ports[proc[p].port] = <<"server", q>>
        BY <1>0, <2>2, <4>1 DEF PortsHeld
      <4>3. HeldByUs(proc[p].port)
        BY <4>2 DEF HeldByUs
      <4>4. <<p, q>> \in excused'
        BY <1>6, <4>2, <4>3 DEF ProbeIsNot
      <4>5. QED
        BY <2>2, <4>4
    <3>3. QED
      BY <1>0, <3>1, <3>2
  <2>3. CASE proc[p].port < MaxScan
    <3>1. /\ proc'[p].at = "scan" /\ proc'[p].port = proc[p].port + 1
          /\ \A q \in Proc : q # p => proc'[q] = proc[q]
      <4> DEFINE new == [proc[p] EXCEPT !.at = "scan", !.port = @ + 1]
      <4>1. new.at = "scan" /\ new.port = proc[p].port + 1
        BY <2>1 DEF Process
      <4>2. proc' = [proc EXCEPT ![p] = new]
        BY <1>6, <2>3 DEF ProbeIsNot, Becomes
      <4> HIDE DEF new
      <4>3. QED
        BY <4>1, <4>2 DEF TypeInv
    <3>2. PortsHeld'
      BY <2>1, <3>1 DEF PortsHeld
    <3>3. NotPassed'
      <4>1. ASSUME NEW x \in Proc, NEW q \in Proc,
                   proc'[x].at \in Booting, proc'[q].at = "listening", <<x, q>> \notin excused'
            PROVE  /\ proc'[x].port <= proc'[q].port
                   /\ proc'[x].at = "bind" => proc'[x].port # proc'[q].port
        <5>1. q # p /\ proc'[q] = proc[q]
          BY <3>1, <4>1
        <5>2. CASE x = p
          BY <1>0, <2>2, <3>1, <4>1, <5>1, <5>2
        <5>3. CASE x # p
          BY <2>1, <3>1, <4>1, <5>1, <5>3 DEF NotPassed
        <5>4. QED
          BY <5>2, <5>3
      <4>2. QED
        BY <4>1 DEF NotPassed
    <3>4. Met'
      BY <2>1, <3>1 DEF Met, Booting
    <3>5. QED
      BY <3>2, <3>3, <3>4
  <2>4. CASE ~(proc[p].port < MaxScan)
    BY <1>1, <1>6, <2>1, <2>4, GoesToEffect DEF ProbeIsNot, Alive, Now
  <2>5. QED
    BY <2>3, <2>4
<1>7. ASSUME NEW p \in Proc, Listen(p) PROVE PortsInv'
  <2>1. \A q \in Proc : q # p /\ proc[q].at \in Booting => <<q, p>> \in excused'
    BY <1>7 DEF Listen, Met, Booting
  <2>2. CASE ports[proc[p].port] = None
    <3>1. /\ ports' = [ports EXCEPT ![proc[p].port] = <<"server", p>>]
          /\ proc[p].at = "bind" /\ proc'[p].at = "listening" /\ proc'[p].port = proc[p].port
          /\ \A q \in Proc : q # p => proc'[q] = proc[q]
      BY <1>7, <2>2, GoesToEffect DEF Listen, Now, Alive
    <3>2. PortsHeld'
      BY <1>0, <2>2, <3>1 DEF PortsHeld, TypeInv
    <3>3. NotPassed' /\ Met'
      BY <1>7, <2>1, <3>1 DEF Listen, NotPassed, Met, Booting
    <3>4. QED
      BY <3>2, <3>3
  <2>3. CASE ports[proc[p].port] # None
    BY <1>1, <1>7, <2>3, GoesToEffect DEF Listen, Now, Alive
  <2>4. QED
    BY <2>2, <2>3
<1>8. ASSUME NEW p \in Proc, Start(p) PROVE PortsInv'
  <2>1. /\ proc[p].at = "off" /\ proc'[p].at = "seed" /\ proc'[p].port = 0 /\ UNCHANGED ports
        /\ \A q \in Proc : q # p => proc'[q] = proc[q]
    BY <1>8, StartEffect DEF Now, Off
  <2>2. PortsHeld'
    BY <2>1 DEF PortsHeld
  <2>3. \A q \in Proc : proc[q].port >= 0
    BY <1>0
  <2>4. /\ \A x, q \in Proc : x # p /\ q # p /\ <<x, q>> \in excused => <<x, q>> \in excused'
        /\ \A q \in Proc : proc[q].at \in Booting => <<p, q>> \in excused' /\ <<q, p>> \in excused'
    BY <1>8 DEF Start
  <2>5. NotPassed'
    BY <2>1, <2>3, <2>4 DEF NotPassed, Booting
  <2>6. Met'
    BY <2>1, <2>4 DEF Met, Booting
  <2>7. QED
    BY <2>2, <2>5, <2>6
<1>9. ASSUME NEW p \in Proc, Die(p) PROVE PortsInv'
  <2>1. /\ proc'[p].at = "off" /\ \A q \in Proc : q # p => proc'[q] = proc[q]
        /\ ports' = [k \in Port |-> IF ports[k] \in {<<"server", p>>, <<"tester", p>>}
                                    THEN None ELSE ports[k]]
    BY <1>9, DieEffect DEF Die, Now
  <2>2. PortsHeld'
    <3>1. ASSUME NEW q \in Proc, NEW k \in Port, NEW s \in {"server", "tester"}
          PROVE  ports'[k] = <<s, q>> <=> ports[k] = <<s, q>> /\ q # p
      BY ZenonT(60), <1>0, <2>1
    <3>2. QED
      BY <2>1, <3>1 DEF PortsHeld
  <2>3. NotPassed' /\ Met'
    BY <1>9, <2>1 DEF Die, NotPassed, Met, Booting
  <2>4. QED
    BY <2>2, <2>3
<1>10. ASSUME NEW k \in Port, Other(k) PROVE PortsInv'
  BY <1>10, StartupDistinct DEF Other, PortsInv, PortsHeld, NotPassed, Met, Stranger, TypeInv
<1>11. CASE UNCHANGED vars
  BY <1>11 DEF vars, PortsHeld, NotPassed, Met
<1>12. QED
  BY <1>2, <1>3, <1>4, <1>5, <1>6, <1>7, <1>8, <1>9, <1>10, <1>11 DEF Next, Step

LEMMA ComesUp ==
  ASSUME BootInv, [Next]_vars, NEW p \in Proc,
         proc[p].at # "listening", proc'[p].at = "listening"
  PROVE  proc[p].at = "bind" /\ proc'[p].port = proc[p].port
<1> USE DEF BootInv
<1>1. ASSUME NEW q \in Proc,
             \/ Finish(q) \/ SeedState(q) \/ LoadState(q) \/ KeepOriginal(q) \/ WriteMigrated(q)
             \/ FindCA(q) \/ WriteKey(q) \/ WriteCrt(q) \/ Start(q) \/ Save(q) \/ Die(q)
      PROVE  FALSE
  BY <1>1, FinishEffect, SeedEffect, LoadEffect, KeepEffect, MigratedEffect, FindEffect, KeyEffect,
     CrtEffect, StartEffect, SaveEffect, DieEffect DEF Now
<1>2. ASSUME NEW q \in Proc, TryPort(q) \/ CloseTester(q) \/ ProbeIsOurs(q) PROVE FALSE
  BY <1>2, GoesToEffect, OffEffect DEF TryPort, CloseTester, ProbeIsOurs, Now, Booting
<1>3. ASSUME NEW q \in Proc, ProbeIsNot(q) PROVE FALSE
  BY <1>3 DEF ProbeIsNot, GoesTo, Becomes, TypeInv, Process
<1>4. ASSUME NEW q \in Proc, Listen(q) PROVE proc[p].at = "bind" /\ proc'[p].port = proc[p].port
  BY <1>4, GoesToEffect DEF Listen, Now, Alive
<1>5. QED
  BY <1>1, <1>2, <1>3, <1>4 DEF Next, Step, Other, vars

(* A copy that comes up has a lower port than every live one, whoever else *)
(* is booting and however slow the answers are, except than one that was   *)
(* booting at the same time or did not answer it in time.                  *)
THEOREM NobodyIsPassed == Spec => NoneBelow
<1>1. BootInv /\ PortsInv /\ [Next]_vars => BootInv' /\ PortsInv'
  BY BootStep, PortsStep
<1>2. ASSUME BootInv, PortsInv, [Next]_vars, NEW p \in Proc, NEW q \in Proc,
             proc[p].at # "listening", proc'[p].at = "listening", proc[q].at = "listening",
             <<p, q>> \notin excused
      PROVE  proc'[p].port < proc[q].port
  <2>1. proc[p].at = "bind" /\ proc'[p].port = proc[p].port
    BY <1>2, ComesUp
  <2>2. proc[p].port \in Nat /\ proc[q].port \in Nat
    BY <1>2, StartupAssumption DEF BootInv, TypeInv, Process, Port
  <2>3. QED
    BY <1>2, <2>1, <2>2 DEF PortsInv, NotPassed, Booting
<1>3. BootInv /\ PortsInv /\ [Next]_vars
      => [\A p, q \in Proc :
             proc[p].at # "listening" /\ proc'[p].at = "listening" /\ proc[q].at = "listening"
                => proc'[p].port < proc[q].port \/ <<p, q>> \in excused]_vars
  BY <1>2
<1>4. QED
  BY BootInit, PortsInit, <1>1, <1>3, PTL DEF Spec, NoneBelow
=============================================================================
