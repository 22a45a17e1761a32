------------------------------- MODULE Startup -------------------------------
(***************************************************************************)
(* A boot of the server, up to the port it listens on, and what it leaves  *)
(* on disk (server.js, proxy-server.js, utils/state-store.js,              *)
(* utils/cert-manager.js).                                                 *)
(*                                                                         *)
(* Several processes may be started on one directory.  Each seeds, loads   *)
(* and perhaps migrates state.json, loads or generates the certificate     *)
(* authority, and then scans for a port: a port is bound by a tester, the  *)
(* tester is closed, and the port is bound again later.  A port that is    *)
(* taken is asked for /__admin/health, to tell a copy of this server from  *)
(* another program.  Files are overwritten in place, so a write is two     *)
(* steps, the file empty in between.                                       *)
(***************************************************************************)
EXTENDS Naturals, FiniteSets

CONSTANTS
    Proc,        \* processes that may be started
    MaxScan,     \* MAX_PORT_SCAN: ports after the preferred one, which is 0
    MaxChanges,  \* bound on changes made by operators
    MaxCAs,      \* bound on certificate authorities generated
    MaxDeaths,   \* bound on processes killed
    Overlap,     \* processes may be started while another one is booting
    Late,        \* a live copy may answer its probe too late
    Missing, Torn, None

ASSUME StartupAssumption ==
    /\ MaxScan \in Nat /\ MaxChanges \in Nat /\ MaxCAs \in Nat /\ MaxDeaths \in Nat
    /\ Overlap \in BOOLEAN /\ Late \in BOOLEAN

VARIABLES
    disk,    \* "state", "bak", "key", "crt" -> what the file holds
    proc,    \* the processes
    ports,   \* port -> what holds it: a process, its tester, another program, None
    changes, \* changes made so far
    cas,     \* authorities generated so far
    deaths,  \* processes killed so far
    cut,     \* a kill has cut short a write of state.json, or it has been loaded
             \* while another copy was serving, which may have saved it again since
    old,     \* state.json was of version 1 to begin with
    excused  \* <<p, q>>: p has been booting at the same time as q, or has not had
             \* q's answer in time

vars == <<disk, proc, ports, changes, cas, deaths, cut, old, excused>>

Port == 0..MaxScan
Doc(v, facts) == [version |-> v, facts |-> facts]
Original == Doc(1, {0})   \* a document from before version 2
Seed == Doc(2, {})        \* state.example.json
Stranger == <<"other", None>>

Document == [version : {1, 2}, facts : SUBSET (0..MaxChanges)]
File == {"state", "bak", "key", "crt"}

ASSUME StartupDistinct ==
    /\ Missing # Torn /\ Missing # None /\ Torn # None
    /\ {Missing, Torn, None} \cap (Nat \cup Document \cup File) = {}
    /\ None \notin ({"server", "tester"} \X Proc) \cup {Stranger}

Off == [at |-> "off", port |-> 0, facts |-> {}, ca |-> None, file |-> None, todo |-> None]
Booting == {"seed", "load", "backup", "convert", "ca", "generated", "signed", "scan",
            "close", "probe", "bind"}
Alive == {"listening", "aside", "deaf"}
Serving == Alive \ {"deaf"}   \* someone may reach the admin routes

TypeOK ==
    /\ \A p \in Proc : proc[p].at \in {"off"} \cup Booting \cup Alive
                       /\ proc[p].port \in Port /\ proc[p].facts \subseteq 0..MaxChanges
    /\ ports \in [Port -> {None, Stranger} \cup ({"server", "tester"} \X Proc)]
    /\ changes \in 0..MaxChanges /\ cas \in 0..MaxCAs /\ deaths \in 0..MaxDeaths
    /\ excused \subseteq Proc \X Proc

Init ==
    /\ disk \in [File -> {Missing, Original, Doc(2, {0})}]
    /\ disk["bak"] = Missing /\ disk["key"] = Missing /\ disk["crt"] = Missing
    /\ proc = [p \in Proc |-> Off]
    /\ ports = [k \in Port |-> None]
    /\ changes = 0 /\ cas = 0 /\ deaths = 0 /\ cut = FALSE
    /\ old = (disk["state"] = Original) /\ excused = {}

Becomes(p, new) == proc' = [proc EXCEPT ![p] = new]
GoesTo(p, at) == Becomes(p, [proc[p] EXCEPT !.at = at])

---------------------------------------------------------------------------
(* fs.writeFileSync and copyFileSync: the file is emptied, then filled.    *)
(* The process does nothing else meanwhile.                                *)

Idle(p) == proc[p].file = None

(* p, which becomes new, begins to write val to file. *)
Begins(p, new, file, val) ==
    /\ disk' = [disk EXCEPT ![file] = Torn]
    /\ Becomes(p, [new EXCEPT !.file = file, !.todo = val])

Finish(p) ==
    /\ ~Idle(p)
    /\ disk' = [disk EXCEPT ![proc[p].file] = proc[p].todo]
    /\ Becomes(p, [proc[p] EXCEPT !.file = None, !.todo = None])
    /\ UNCHANGED <<ports, changes, cas, deaths, cut, old, excused>>

---------------------------------------------------------------------------
(* loadState, ensureCA. *)

Start(p) ==
    /\ proc[p].at = "off"
    /\ Overlap \/ \A q \in Proc : proc[q].at \notin Booting
    /\ GoesTo(p, "seed")
    /\ LET others == {q \in Proc : proc[q].at \in Booting}
       IN  excused' = {pair \in excused : p \notin {pair[1], pair[2]}}
                          \cup ({p} \X others) \cup (others \X {p})
    /\ UNCHANGED <<disk, ports, changes, cas, deaths, cut, old>>

(* Mutant of SeedState: the example is copied over what is there. *)
SeedState_Always(p) ==
    /\ proc[p].at = "seed" /\ Idle(p)
    /\ Begins(p, [proc[p] EXCEPT !.at = "load"], "state", Seed)
    /\ UNCHANGED <<ports, changes, cas, deaths, cut, old, excused>>
SeedState(p) ==
    /\ proc[p].at = "seed" /\ Idle(p)
    /\ IF disk["state"] = Missing
       THEN Begins(p, [proc[p] EXCEPT !.at = "load"], "state", Seed)
       ELSE GoesTo(p, "load") /\ UNCHANGED disk
    /\ UNCHANGED <<ports, changes, cas, deaths, cut, old, excused>>

(* A file that does not parse is reported, and the server starts empty.    *)
LoadState(p) ==
    /\ proc[p].at = "load" /\ Idle(p)
    /\ LET doc == disk["state"]
       IN  Becomes(p, IF doc \in {Missing, Torn}
                      THEN [proc[p] EXCEPT !.at = "ca"]
                      ELSE [proc[p] EXCEPT !.facts = doc.facts,
                                           !.at = IF doc.version = 2 THEN "ca" ELSE "backup"])
    /\ cut' = (cut \/ \E q \in Proc : proc[q].at \in Serving)
    /\ UNCHANGED <<disk, ports, changes, cas, deaths, old, excused>>

(* Mutant of KeepOriginal: the new file is written first. *)
KeepOriginal_Late(p) ==
    /\ proc[p].at = "backup" /\ Idle(p)
    /\ Begins(p, [proc[p] EXCEPT !.at = "convert"], "state", Doc(2, proc[p].facts))
    /\ UNCHANGED <<ports, changes, cas, deaths, cut, old, excused>>
KeepOriginal(p) ==
    /\ proc[p].at = "backup" /\ Idle(p)
    /\ Begins(p, [proc[p] EXCEPT !.at = "convert"], "bak", Doc(1, proc[p].facts))
    /\ UNCHANGED <<ports, changes, cas, deaths, cut, old, excused>>

WriteMigrated(p) ==
    /\ proc[p].at = "convert" /\ Idle(p)
    /\ Begins(p, [proc[p] EXCEPT !.at = "ca"], "state", Doc(2, proc[p].facts))
    /\ UNCHANGED <<ports, changes, cas, deaths, cut, old, excused>>

(* ensureCA: both files are there and are loaded - a torn one throws, and  *)
(* the process exits - or a new authority is made, which takes a while.    *)
FindCA(p) ==
    /\ proc[p].at = "ca" /\ Idle(p)
    /\ LET key == disk["key"]
           crt == disk["crt"]
       IN  IF Missing \in {key, crt}
           THEN /\ cas < MaxCAs /\ cas' = cas + 1
                /\ Becomes(p, [proc[p] EXCEPT !.at = "generated", !.ca = cas + 1])
           ELSE /\ IF Torn \in {key, crt} THEN Becomes(p, Off)
                   ELSE Becomes(p, [proc[p] EXCEPT !.at = "scan", !.ca = crt])
                /\ UNCHANGED cas
    /\ UNCHANGED <<disk, ports, changes, deaths, cut, old, excused>>

(* Mutant of WriteKey: a key that is there already is never overwritten. *)
WriteKey_IfNone(p) ==
    /\ proc[p].at = "generated" /\ Idle(p)
    /\ IF disk["key"] = Missing
       THEN Begins(p, [proc[p] EXCEPT !.at = "signed"], "key", proc[p].ca)
       ELSE GoesTo(p, "signed") /\ UNCHANGED disk
    /\ UNCHANGED <<ports, changes, cas, deaths, cut, old, excused>>
WriteKey(p) ==
    /\ proc[p].at = "generated" /\ Idle(p)
    /\ Begins(p, [proc[p] EXCEPT !.at = "signed"], "key", proc[p].ca)
    /\ UNCHANGED <<ports, changes, cas, deaths, cut, old, excused>>

WriteCrt(p) ==
    /\ proc[p].at = "signed" /\ Idle(p)
    /\ Begins(p, [proc[p] EXCEPT !.at = "scan"], "crt", proc[p].ca)
    /\ UNCHANGED <<ports, changes, cas, deaths, cut, old, excused>>

(* What a device is given to install, by the process that answers it, and  *)
(* who has signed the certificate it is then shown for a host.  Both are   *)
(* the authority in memory, so a signed certificate may be cached.         *)
CACert(p) == proc[p].ca
HostCert(p) == [signedBy |-> proc[p].ca]

---------------------------------------------------------------------------
(* findAvailablePort and listen. *)

(* isPortFree: the tester holds the port until it is closed. *)
TryPort(p) ==
    /\ proc[p].at = "scan" /\ Idle(p)
    /\ LET k == proc[p].port
       IN  IF ports[k] = None
           THEN ports' = [ports EXCEPT ![k] = <<"tester", p>>] /\ GoesTo(p, "close")
           ELSE UNCHANGED ports /\ GoesTo(p, "probe")
    /\ UNCHANGED <<disk, changes, cas, deaths, cut, old, excused>>

CloseTester(p) ==
    /\ proc[p].at = "close"
    /\ ports' = [ports EXCEPT ![proc[p].port] = None]
    /\ GoesTo(p, "bind")
    /\ UNCHANGED <<disk, changes, cas, deaths, cut, old, excused>>

(* Mutant of HeldByUs: the health payload is not recognised. *)
HeldByUs_Blind(k) == FALSE
HeldByUs(k) == \E q \in Proc : ports[k] = <<"server", q>>

(* isOurServer: the health of a copy comes back in time, and p exits.      *)
ProbeIsOurs(p) ==
    /\ proc[p].at = "probe" /\ HeldByUs(proc[p].port)
    /\ Becomes(p, Off)
    /\ UNCHANGED <<disk, ports, changes, cas, deaths, cut, old, excused>>

(* Another program, a tester, nobody any more, or no answer in 500 ms: the *)
(* next port, until there is none.  That rejects startProxyServer, which   *)
(* is logged, and nothing is started that could be reached.                *)
ProbeIsNot(p) ==
    /\ proc[p].at = "probe" /\ (~HeldByUs(proc[p].port) \/ Late)
    /\ IF proc[p].port < MaxScan
       THEN Becomes(p, [proc[p] EXCEPT !.at = "scan", !.port = @ + 1])
       ELSE GoesTo(p, "deaf")
    /\ excused' = IF HeldByUs(proc[p].port)
                  THEN excused \cup {<<p, q>> : q \in {q \in Proc : ports[proc[p].port] = <<"server", q>>}}
                  ELSE excused
    /\ UNCHANGED <<disk, ports, changes, cas, deaths, cut, old>>

(* server.listen: a port that was taken meanwhile is an error that is      *)
(* logged.  startProxyServer has returned by then, so the standalone       *)
(* listeners are started all the same if they are wanted, and their apps   *)
(* carry the admin routes: the process has no proxy port and may be        *)
(* reached, as long as it lives, by whoever knows a port of those.         *)
Listen(p) ==
    /\ proc[p].at = "bind"
    /\ LET k == proc[p].port
       IN  IF ports[k] = None
           THEN ports' = [ports EXCEPT ![k] = <<"server", p>>] /\ GoesTo(p, "listening")
           ELSE UNCHANGED ports /\ GoesTo(p, "aside")
    /\ UNCHANGED <<disk, changes, cas, deaths, cut, old, excused>>

---------------------------------------------------------------------------

(* An operator changes something in a dashboard of p, and it is saved.     *)
Save(p) ==
    /\ proc[p].at \in Serving /\ Idle(p)
    /\ changes < MaxChanges /\ changes' = changes + 1
    /\ LET facts == proc[p].facts \cup {changes + 1}
       IN  Begins(p, [proc[p] EXCEPT !.facts = facts], "state", Doc(2, facts))
    /\ UNCHANGED <<ports, cas, deaths, cut, old, excused>>

(* The process is killed or stops, perhaps in the middle of a write. *)
Die(p) ==
    /\ proc[p].at # "off"
    /\ deaths < MaxDeaths /\ deaths' = deaths + 1
    /\ Becomes(p, Off)
    /\ ports' = [k \in Port |-> IF ports[k] \in {<<"server", p>>, <<"tester", p>>}
                                THEN None ELSE ports[k]]
    /\ cut' = (cut \/ proc[p].file = "state")
    /\ UNCHANGED <<disk, changes, cas, old, excused>>

(* Another program takes a port, or gives it back. *)
Other(k) ==
    /\ ports[k] \in {None, Stranger}
    /\ ports' = [ports EXCEPT ![k] = IF @ = None THEN Stranger ELSE None]
    /\ UNCHANGED <<disk, proc, changes, cas, deaths, cut, old, excused>>

Step(p) ==
    \/ Finish(p) \/ SeedState(p) \/ LoadState(p) \/ KeepOriginal(p) \/ WriteMigrated(p)
    \/ FindCA(p) \/ WriteKey(p) \/ WriteCrt(p)
    \/ TryPort(p) \/ CloseTester(p) \/ ProbeIsOurs(p) \/ ProbeIsNot(p) \/ Listen(p)

Next ==
    \/ \E p \in Proc : Step(p) \/ Start(p) \/ Save(p) \/ Die(p)
    \/ \E k \in Port : Other(k)

Spec == Init /\ [][Next]_vars

---------------------------------------------------------------------------
(* At most one copy of the server is up, on whatever port: two would write *)
(* over each other's state.json (proxy-server.js, isOurServer).            *)
OneServer == Cardinality({p \in Proc : proc[p].at = "listening"}) <= 1

(* A copy does not come up above a live one, whose port it has passed,     *)
(* unless one of the two races of the scan was lost: the two were booting  *)
(* at the same time, so that a tester or nobody had the port when it was   *)
(* asked for, or the live one's answer took too long.                      *)
NoneBelow ==
    [][\A p, q \in Proc :
          proc[p].at # "listening" /\ proc'[p].at = "listening" /\ proc[q].at = "listening"
             => proc'[p].port < proc[q].port \/ <<p, q>> \in excused]_vars

(* The document a migration started from can be recovered by hand: until   *)
(* its copy is complete state.json itself is left alone, however often the *)
(* process is killed on the way and the migration begun again.             *)
OriginalKept == old => Original \in {disk["bak"], disk["state"]}

(* The key on disk is the key of the certificate on disk, and what a       *)
(* device installed from one copy vouches for what it is shown by another, *)
(* up at the same time or after any number of kills and restarts.          *)
CAPaired ==
    /\ {disk["key"], disk["crt"]} \subseteq 1..MaxCAs => disk["key"] = disk["crt"]
    /\ \A p \in {q \in Proc : proc[q].at \in Alive} :
          CACert(p) = disk["crt"] /\ HostCert(p).signedBy = disk["crt"]

(* Every change made in a dashboard is in the file, or in the write that   *)
(* is under way, after any number of boots, migrations, kills and copies   *)
(* that gave up - unless a kill cut a write short, or a server was started *)
(* while another could be reached: it loads the file before it looks at    *)
(* the ports, and takes over from a copy that has saved since and stopped, *)
(* or runs beside one that lost its port and saves from its listeners.     *)
ChangesKept ==
    cut \/ changes = 0
    \/ \E doc \in {disk["state"]} \cup {proc[p].todo : p \in {q \in Proc : proc[q].file = "state"}} :
          doc # Torn /\ 1..changes \subseteq doc.facts
=============================================================================
