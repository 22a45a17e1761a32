# IR-Proxy: TLA+ models, model checking and proofs

IR-Proxy is a mock and intercepting proxy written in JavaScript: one Node process
that tunnels or decrypts what the devices pointed at it ask for, answers some of
it from mocks, records what it decrypts, and serves a dashboard and an admin API.
This directory holds TLA+ modules for its stateful parts, the TLC configurations
that check them on small instances, and TLAPS proofs of their most important
properties for every instance. Paths below are relative to the repository.

Run everything from this directory: `tlc -config X.cfg M` checks one
configuration, `tlapm M.tla` the proofs of one module. `PROJECT.json` lists the
runs, the source lines each definition stands for, the mutant that breaks each
property, the hazards the properties are aimed at, and the findings.

## 1. Inventory

The process is single-threaded. A handler, a timer callback or the continuation
of an `await` runs to its end before anything else does, so concurrency is the
interleaving of those blocks, and what makes the program hard is state kept from
one block to the next: prompts, timers, pipelines that close over an id, copies
of one fact in several maps, the files that are read back later, and a dashboard
and test clients that keep their own copy of some of it. The clients, the command
line and a second copy of the server are processes of their own.

| Part | State | Operations | What makes it correct |
|---|---|---|---|
| **Access gate** `utils/access-gate.js`, `utils/admin/access.js`, middleware in `proxy-server.js` | machines allowed now, those remembered, one prompt per asking machine with its waiters and timer | a request arrives, joins a prompt or opens one, hangs up; decide, time out, revoke; save and boot | nobody gets in without the operator, nobody waits for ever, a decision applies to the prompt it was made on, caps hold, only what was to be remembered survives a restart |
| **Hosts and instances** `utils/instance-manager.js`, `utils/interception.js`, `utils/admin/{hosts,instances,toggles,profiles}.js`, `server.js` | `serverConfigs`, `instanceStatus`, `instanceSettings`, `hostSettings`, `profiles`, the standalone listeners | add, promote, remove, rename, settings, toggles, profiles, SSL switch, focus and blocks, standalone tier on and off | unique ids and ports, no row or slice points at nobody, one instance per host, listeners follow the switch |
| **State document** `utils/state-store.js`, `server.js` | `state.json`, one entry per host | fold on save, unfold at boot, migrate version 1 | a restart gives back what was saved, a migration loses nothing |
| **Startup** `proxy-server.js`, `server.js`, `utils/cert-manager.js` | ports, the state file, the two files of the certificate authority, the authority in memory | seed, load, migrate, generate, scan, probe, bind | a copy does not come up beside a live one, nothing on disk is lost or mismatched by a kill |
| **Activity log and captures** `utils/request-log.js`, `utils/capture-sessions.js`, `utils/admin/{activity,capture}.js` | rolling log and its size in bytes, sessions with entries, status and filter | record, pause, clear by host or instance; start, stop, delete, expire, evict; rename | the bill matches the log, a session misses nothing, a running session is never evicted, a rename is followed everywhere |
| **Host registry** `utils/host-registry.js` | a record per host, the names touched since the last broadcast, the flush timer | seen, note a request, clear counters, forget, seed at boot, evict, flush | least recently seen eviction that spares commitments, no update waits without a timer |
| **Event stream and dashboard copies** `utils/sse-hub.js`, `public/js/modules/{entries,state}.js` | connected clients; the dashboard's list of hosts | broadcast, evict a client that does not drain; merge a frame, replace by an answer, edit after its own calls, reconnect | the copy catches up with the server |
| **Pipelines and tunnels** `utils/mock-pipeline.js`, `proxy-server.js` | a cached Express app per instance id, open tunnels, requests on their way | CONNECT, plain HTTP, block, switch, mock, delay, intercept, proxy, time out; evict on rename and removal | a request is served for its own host, a blocked path is dead on every connection, every request ends |
| **Blocking** `utils/blocking.js`, `clients/js/block-client.js` | per host, a list of path prefixes; in a test suite, what was there before | add, remove, decide; block around a test and put back | a rule kills exactly what it covers, a test leaves what it found |
| **Mock files** `utils/mock-loader.js`, `mock-scope.js`, `utils/admin/{mocks,toggles,instances}.js` | files on disk, a cache and its watcher, toggles | load, invalidate, write, scope, copy, rename; toggle by name or path; follow an instance's rename | the cache is not older than the last event, a rename detaches nothing |
| **Saved requests and collections** `utils/request-store.js`, `collection-store.js`, `utils/admin/{send,collections}.js`, `public/js/modules/collections.js` | one file per request, one index of collections; the screen's copy and the run it follows | save, patch, delete, assign, drag, run | a request runs once, its row tells the truth, it is where it was put, no save takes another's file |
| **Send and replay** `utils/admin/send.js`, `template.js`, `header-case.js`, `form-encode.js`, `body-capture.js`, `schema-validate.js` | the answer as it arrives | resolve templates, validate, build the request, collect the answer, compare it with what was expected | one clean request goes out, green means it was as expected, a replay sends what the device sent |
| **Request editor** `public/js/modules/request-editor.js` | the open window: the request loaded, its collection, its variables; sends, saves and lists under way | open, load, type, send, save, delete | variables and saves go back where they came from |
| **The rest** statistics, conflicts, schema files, network watch, rendering, printing | little or none | | |

How they interact: the proxy calls the registry on every CONNECT and plain
request, before it decides whether to decrypt; a decrypted request runs through
the app cached for its instance, whose logger closes over the instance id; a
record goes to the log and to three listeners, the sessions, the registry and the
statistics; the registry and the gate broadcast on the event stream; every admin
handler mutates the shared `store` and `serverConfigs` and calls `saveState`,
which folds all of it, whoever changed it; a boot unfolds the file. A rename of an
instance has to reach all of them: rows, slices, log, sessions, apps, mock files
and saved requests.

## 2. Modules

| Module | Models | Extends or instantiates |
|---|---|---|
| `AccessGate` | the gate, its middleware and its persistence | `Approval` (refinement) |
| `Approval` | abstract: what an approval service promises | |
| `HostInstances` | hosts, instances, toggles, profiles, listeners, save and boot | |
| `Startup` | boot, migration, certificate authority, ports and probes, kills | |
| `Recording` | the log, the sessions, requests in flight, renames | |
| `HostRegistry` | the registry, its eviction and its broadcast timer | |
| `HostView` | the dashboard's copy of it over the event stream | `HostRegistry` |
| `Pipeline` | apps, tunnels and requests through the proxy | |
| `Blocking` | pure: what block rules kill, adding and removing one | |
| `TestSuites` | suites that block and mock around tests, and everybody else who does | `Blocking` |
| `MockFiles` | mock files, loader cache, scopes, toggles, renames | |
| `Library` | saved requests, collections, runs of a collection | |
| `JsonSchema` | pure: the schema validator, and what a schema means | |
| `Exchange` | one request sent and its answer checked | `JsonSchema` |
| `Composer` | the request editor of a dashboard | |
| `MC...` | the constants for TLC, symmetry sets | the module of the name |
| `AccessGateProofs`, `HostInstancesProofs`, `StartupProofs`, `RecordingProofs`, `PipelineProofs` | theorems and proofs | the module of the name |
| `HostRegistryProofs` | theorems about the registry and the dashboard's copy of it | `HostView` |
| `BlockingProofs` | theorems about rules, suites and mock files | `TestSuites`, `MockFiles` |
| `RequestProofs` | theorems about saved requests, the validator and the exchange | `Library`, `Exchange` |

### AccessGate

`pending[m]` is the entry of `_pending` with its id and its waiters; a waiter is
the slot of the HTTP request whose promise it resolves, and `status` says what
became of each. `Arrive` is the middleware and `request()`, with the three ways it
can go as disjuncts; `Settle` is `_settle`, reached from `Timeout` and from
`Decide`; `HangUp` is a client that closes its socket, which the gate does not
notice. The file is written by `Decide` when the machine is to be remembered, by
`Revoke`, and by `OtherSave`, any unrelated handler that saves. `verdict` is a
history variable. Loopback and ungated paths pass before the gate and are left
out. `decide` accepts any id, so `Decide` does too, settled and future ones
included.

`Approval` knows nothing of prompts, caps or timers: a machine is trusted or not,
a request is asking or answered, and whoever is trusted was asking when somebody
trusted it; all waiting requests of a machine get one answer. `AccessGate`
implements it with `trusted <- allowed`, `durable <- remembered` and the reply of
a slot computed from its status.

### HostInstances

One action per route. JavaScript objects used as maps are functions whose domain
is their keys, so a missing key and a default value differ, as they do in the
code. `Folded` and the operators `ConfigsIn`, `StatusIn`, `SettingsIn`, `RowsIn`
are `fromRuntime` and `toRuntime`; every handler ends with the save it calls.
Abstracted: focus and block rules are one flag (any of them not the default);
`isActive`, `targetUrl` and `latency` are one value of `Setting`; a target is its
hostname; `Canon` is what URL parsing makes of a host as spelled, `SlugOf` the
slug. The order of `serverConfigs` is dropped: where the code takes the first
match, it can matter only when two instances share a host. `AddInstance` and
`EnableSsl` save twice in the code; `DieCreating` is the crash between the two.
`ForgetHost` also saves twice, and dying in between is the same as removing the
instance and restarting. `dirty` is a history variable: something changed in
memory and nobody has saved it yet, which is only what `EditRejected` (a settings
call that assigns a field and then answers 400) does.

### Startup

Processes boot on one directory and scan `MaxScan + 1` ports from the preferred
one. A document is its version and the set of facts it holds: 0 for what was there
at the start, then one per change an operator makes. `fs.writeFileSync` empties
the file and fills it, so a write is two steps with the file `Torn` in between; a
torn `state.json` is reported and the server starts empty, as the code does; a
torn authority stops the boot. `proc[p].ca` is the authority a process has in
memory: it signs the leaf certificates (`HostCert`), and its certificate is what a
device is given to install (`CACert`). A port is free, held by a process, by its tester
(`isPortFree` binds, closes, and binds again later) or by another program, which
comes and goes. `HeldByUs` is the health payload. `Overlap` lets a process start
while another boots, `Late` lets a live copy miss the 500 ms of the probe. A process
that finds no port is `deaf` and nothing of it can be reached; one that loses its
port between the tester and `listen` is `aside`: the error is logged after
`startProxyServer` has returned, so the standalone listeners come up and whoever
reaches one of them can change and save the state. `cut` and `excused` are history
variables: what nobody could keep (a write cut short, a file loaded while another
copy could be reached), and which of two copies has lost a race of the scan to
which.

### Recording

`records` is the sequence of all records with the instance each is of, `log` the
set of the numbers still retained: records are only ever put in front, so the
largest is the newest and trimming keeps the `MaxLog` largest. `order` is the
insertion order of `_sessions`, as pairs. A request in flight carries the id of the
pipeline it was dispatched to. Sessions hold records by reference, so a rename
rewrites them wherever they are; `overdue` says which running sessions are past
their time, and expiry happens where the code looks, in the sweep at the start of
every public call. An instance may be renamed at any time. The rename evicts its
pipeline, but a decrypted tunnel keeps feeding the one it was opened to, and a
request in flight the one it is in: both go on logging under the old id, which
another instance may take. `Carries` says which ids a new request may have. `owed`
is a history variable, and so is the mark `late` of a record whose id was out of date
when it was written.

### HostRegistry and HostView

`hosts` is the map of records, reduced to `seq` and a single counter. `opinion`
is what the row of a host says: `"major"` spares it from eviction (SSL on or
focused), `"minor"` (ignored, or a blocked path) does not but keeps a row. `dirty`
and `armed` are `_dirty` and `_flushTimer`. `serving` are the hosts that may still
produce a decrypted request: through an open tunnel, or through their standalone
listener (`Dial`). `HostView` adds one dashboard: frames and answers are on
different connections, at most one of its own calls is outstanding, the stream
may drop and come back; `WriteToClient` drops a dashboard whose socket is full
(`MaxFrames` frames undelivered) rather than wait for it. `skewed` is a history
variable: the view has missed a frame, an answer has been overtaken, or everything
has been cleared; then the view and the registry may differ until the host is
touched again.

### Pipeline

`apps[i]` is the host of the instance the cached app of id `i` was built for,
which its middleware closes over; the router of the proxy, by contrast, reads the
settings of whoever has the id now. `slots` are client connections: blind tunnels,
decrypted ones, plain requests. `Dispatch` is the turn in which the chain of
middleware runs - block, switch, mock, forward - and `timer`, `upstream` and
`latency` are what a request may wait for afterwards while instances are removed,
renamed and their ids given to others. Eviction closes idle connections and leaves
busy ones, as `closeIdleConnections` does.

### Blocking and TestSuites

A path is a sequence of segments, a host's rules are a set of paths: the list's
order decides nothing. `TestSuites` wraps the rules in everything that writes
them: the routes, the command line, the dashboard's menu, and `withBlock`,
`clearBlocks` and `withMock` of the clients as frames on a stack, one step per
call, each of which may fail with or without its effect. The dashboard's menu is
opened (`OpenMenu`) with the item that fits the rows as they are shown and the row
it was opened on, and fired later (`Fire`) on that row, whatever has been written and
redrawn in between: a redraw does not close it. `calm` is a history
variable: nobody else has written since the suite last looked, which is the
condition under which a client that reads, compares and restores can keep its
promise at all.

### MockFiles

A file is the sequence of the mocks in it, each with its scope; a file that does
not load is the empty sequence. `cache`, `valid`, `watching` and `pending` are the
loader and its watcher. The files are read first (`Load`) and watched afterwards
(`StartWatcher`), and the watcher drops what is reported under a name that is not one
of a mock file; `Edit` is anybody who writes files behind the server's back, under
either kind of name. `missed` is a history variable: a change that nobody will ever
report. `Rename` is the route that moves an id in the instance list, the toggles and
the files, starting from the loaded registry, and `RenameDies` is the process
killed on the way. A `multi` mock has its `servers` array spread over several
lines, where the line editor of `mock-scope.js` does not see it. `Rewritten` is what a
rename makes of a file, one mock of the registry after the other. (Its specification is
`FilesSpec`, so that one proof module can extend it and `TestSuites`.)

### Library

`files` and `index` are the request files and `_collections.json`; an id is the
slug of a name, numbered when another name has it. `Grouped` is the repair on
reading. `data` is the last answer the screen was given, so that drags and runs
work on ids that may be gone; `run` is the batch of the screen, of the command
line or of a client, whose rows are `rows`. `placed` is a history variable. Two collections of one id are possible in an index
edited by hand; `Place` is the first of them, which is what `find` returns.

### JsonSchema and Exchange

`Check` is the validator with its cap on the errors it keeps, `AssertSupported`
the refusal of keywords nobody evaluates, `Conforms` what a schema means,
independently of both. The code's recursion is on what is nested in a schema:
`Check` and `Meaning` are functions on the schemas, each from its values on the
schemas in it, and `Supported` is one on the depth, which the code bounds by
`MAX_DEPTH`. `Value` and `Schema` are the values and schemas there are, with what is
in them, and `Nesting` how deep a schema is. In `Exchange` a text is a sequence of tokens: templates,
slashes, line breaks, bracketed keys and the rest, which is what the rules of
sending tell apart. `Serve` is the route up to the request on the wire - variables
checked, templates resolved, path and headers validated, the body encoded, the
two spellings of a header merged - and `Data`, `ReplyEnd` and `Fail` the answer, in any
pieces, held up to a cap. The request line of a send is `http://`, the target and the
path run together, and the proxy routes by what that parses to and not by the Host
field: `HostOf` is the host it finds. The verdict is told by each caller in its own words
(`CliRunOne`, `Run`, `Row`, `ScreenOk`, `Announce`, the two assertions).

### Composer

The window's `_savedId`, `_collectionId` and `_mode` and the Variables pane are
shared by whatever is opened in it next, while a Send, a Save or a list is on its
way. `origin` and `home` are history variables: where the fields come from.
`Patient` is a user who waits for each answer.

## 3. Runs

Passing runs, with their distinct states. Every property of a passing run has a
mutant: a definition replaced by one with a plausible slip (a dropped reset, an
off-by-one, a swapped order), under which TLC finds that property violated with
the run's own constants.

- **gate** (85,618; `AccessGate.cfg`): three machines, the first with three
  request slots, caps of two prompts and two waiters, three prompts in all. Two
  waiters and a third that is refused, three machines for two prompts, a prompt
  after a timeout and answers to it after another has opened all occur.
  `DurableApprovals` (an allow-once leaking into the file through somebody else's
  save), `NoPromptForAllowed`, `CapsHold`, `KeepsPromise` (refinement),
  `HeldIsAnswered` (liveness).
- **hosts** (259,788; `HostInstances.cfg`): two hosts whose names give one slug,
  two ids, two ports, one mock, two values of a setting, one profile. The slug
  clash, a rename onto a free or a taken id, ports freed and taken again, a
  profile older than the instances, and both crashes of a creation occur.
  `UniqueIdsAndPorts`, `SlicesTotal`, `NoStaleListener`, `OneInstancePerHost`,
  `RestartKeeps` (fold and unfold are inverse where it matters, after any
  history), `StablePort` (a host keeps the port devices were given).
- **startup** (1,211,816; `Startup.cfg`): two processes, booting one after the
  other, two ports, three changes, three authorities, three kills, each at any
  point, probes answered in time or not. `OriginalKept` (a migration killed as often as it likes), `CAPaired` (the
  two files belong together, and every live copy signs with the authority on
  disk, which is the one devices were given), `ChangesKept` (also when a copy that
  lost its port saves from its standalone listeners), `NoneBelow` (a copy comes up
  above a live one only if it lost one of the two races of the scan to that one).
- **log** (559,906; `Recording.cfg`): two instances, three ids, one request and one
  tunnel at a time, two records through a log of one, two sessions of one that may
  run together, with sizes that are all different, so that a wrong bill shows.
  Renames with a request in flight and with a tunnel open, an id taken over by the
  other instance, and a session at its cap occur. `BytesMatch`, `CaptureComplete`
  (of what is logged under the id its instance has at the time),
  `EntriesMatchFilter`, `LogFollowsRename` (but for records that were late when
  they were written), `RunningIsKept`.
- **registry** (250,752; `HostRegistry.cfg`): three hosts for two places and four
  touches: two hosts, a second touch of the first, and the third that evicts. No
  symmetry, since a liveness property is checked. `OldestMakesRoom`,
  `TouchedIsTold` (liveness).
- **view** (2,640,208; `HostView.cfg`): two hosts for one place, two touches
  between restarts, a socket that holds two frames. `ViewCatchesUp`.
- **pipeline** (171,660; `Pipeline.cfg`): two hosts, two ids, one connection at a
  time, one mock scoped to one of the ids. One connection is enough: connections
  meet only in `apps`, `inst` and `blocks`, which the operations change at any
  point of its life. `CacheIsCurrent`, `ForwardedHome`, `BlockedDies`,
  `RequestsEnd` (liveness).
- **mocks** (350,752; `MockFiles.cfg`): two files, two names, two ids, two changes
  to files; a file with two mocks of one instance and one whose scope the editor
  does not see. An edit between the reading and the watching, and one under a name
  the watcher drops, occur. `CacheFresh` (but for what nobody reports),
  `RenameFollows`.
- **library** (178,715; `Library.cfg`): three requests, two of them with one slug,
  two collections, two changes, from a library as the server leaves it and from
  one in which an id is listed twice and another has no file. `RunsOnce`,
  `RowsTellTheRun`, `PlacedByHand`, `KeepsItsName`, `DropLands`.
- **exchange** (94,638; `Exchange.cfg`): every combination of a few paths,
  headers, bodies and variables over the three routes with no expectation, what
  devices send of every type and size replayed, and one request with every
  expectation against every answer in every cut. `OneCleanRequest` (to the
  instance's own host, unless the resolved path opens with a template in double
  braces, which the rule on slashes lets through), `VerdictIsTrue`,
  `ReplayedAsSent`.
- **suites** (756,154; `TestSuites.cfg`): a service and two paths under it, two
  suites, one of which throws when SSL is off, two frames, nested or side by side,
  and one write from outside; from rules the proxy saved and from rules edited by
  hand. A menu that stays open while a suite writes occurs; one that nobody could
  write under any more is closed at once, which is a bound. `SuiteRestores`,
  `ClickWorks` (a menu item does what it said to the row it was opened on, or nothing
  if the rule it was to lift is gone), `StaysLean`.

One run expects a violation and is a finding: **wrong_variables**
(`WrongVariables.cfg`). `sendRequestEdit` reads `_savedId` after the await, so the
variables of one request are written over those of another that was loaded
meanwhile, where `request-editor.js:787` says they go back to the request they
came from.

### Further configurations

`Composer.cfg` (182,885 states) checks that with a user who waits
(`Patient = TRUE`) `VariablesStayHome` and `SavesLandHome` hold, `Overlap.cfg` is
explained in the table. The others each show one thing the code does that a comment, a README or a test of the repository
would not lead one to expect; TLC ends them with the counterexample.

| Configuration, module | Property | What it shows |
|---|---|---|
| `HostListeners`, `MCHostInstances` | `ListenersFollowSsl` | adding an instance by hand turns SSL on and starts no standalone listener |
| `HostAliases`, `MCHostInstances` | `OneInstancePerHost` | promotion compares the host as spelled with the host as parsed, and is not idempotent for another spelling |
| `RenameRace`, `MCRecording` | `OwnTraffic` | the comment on `onRenamed` (`src/server.js:340`) says the eviction keeps the old id out of the log; a tunnel, or a request in flight at the rename, goes on under it, and a session for whoever takes the id over gets its records |
| `HostClear`, `MCHostView` | `ClearIsPaired` | clearing the whole log zeroes the counters of the dashboard and not those of the registry |
| `Overlap`, `MCStartup` | `NoneBelow`, which holds (229,684 states) | two copies that boot at the same time, each with a chance to be late, still pass nobody but whom they lost a race to |
| `SecondCopy`, `MCStartup` | `OneServer` | a copy that was pushed to a higher port by another program is not found by the next copy once that program is gone |
| `SavedTwice`, `MCLibrary` | `NamesAreUnique` | after a delete, saving over a request of a numbered id takes the free lower id and makes a second file of the name |
| `LateWatch`, `MCMockFiles` | `AlwaysFresh` | the cache is not always as fresh as `utils/mock-loader.js:82` says: files are read before they are watched |
| `OwnHost`, `MCExchange` | `HostIsOwn` | `utils/admin/send.js:6` says the caller cannot set the host; a path that opens with double braces and `@` after resolving moves the host the proxy routes by |
| `InertToggle`, `MCMockFiles` | `NoInertToggle` | toggling by path stores a toggle for an instance the mock is not scoped to |

### Other disagreements met while modelling

Not stated as properties; the modules do what the code does.

- Loading a profile saved before a rename or a removal puts the old id back into
  the toggles (`utils/admin/profiles.js:43`). `noteRequest` and `ensure` insert
  without evicting, so the registry can exceed its cap
  (`utils/host-registry.js:203`). `public/js/modules/entries.js:284` still says
  that forgetting a host leaves its instance alone. Removing an instance through
  `DELETE /instances/:id` leaves its mock statistics, which forgetting the host
  resets. Stopping a session can evict it, and the repeated stop finds nothing
  (`utils/capture-sessions.js:129`). A settings call that is refused has already
  assigned the fields before the one that is invalid
  (`utils/admin/instances.js:97`).
- With a search filter on, a drag lands elsewhere: the index is counted among the
  rows shown (`public/js/modules/collections.js:645`, 675).
- `withBlock` of a client that throws when SSL is off has stored its rule before
  it throws, and leaves it. The clients differ: `runCollection` of the Java client
  takes the last collection that matches an id or a name, the others the first; in
  Java and Python a call that takes longer than 35 s ends the run of a collection,
  in JavaScript it is a failed row. `assertCollectionPasses` of an empty
  collection passes.
- A rule on a send's path is checked before its templates are resolved
  (`utils/admin/send.js:169`). A replay of a body that no parser claimed goes out
  without one, and one of a form with bracketed keys goes out as JSON in a field.
  An answer cut off in mid-body leaves the caller of `/send` without one
  (`utils/admin/send.js:399`).
- A dashboard whose event stream comes back fetches nothing again: a prompt of the
  access gate raised meanwhile is not shown, one settled meanwhile stays. Settings
  changed in one dashboard are not broadcast to another.

### Fairness

Only timers, and what a timer gives up on, are fair. `AccessGate` has weak
fairness of `Timeout(m)` for every machine: the timer is armed when the prompt
opens and nothing postpones it, so a prompt that stays open is settled. Nothing is
assumed of the operator or of the clients. `HostRegistry` has weak fairness of
`Flush`: `setTimeout` fires. It assumes of the process only that it does not
restart for ever faster than the timer. `Pipeline` has weak fairness of `Fire` (a
delayed mock's timer), `Wake` (the latency's) and of the upstream answering or
failing, which the proxy's own timeout of 30 s makes it do. The other modules make
no liveness claim and have no fairness.

## 4. Proofs

Every safety property of a passing run is a theorem, for every value of the
constants. The theorems are about the specification the run checks, or one with more
behaviours (`Spec` of `Pipeline`, without fairness). What they assume, beyond the
assumptions the modules declare on their constants (types, caps, finite sets of
hosts and ids, markers that are no value; TLC evaluates them in the runs):

| Theorems | Assume | Why |
|---|---|---|
| `HostRestartKeeps`, `HostStablePort` | `Canonised`: every host is spelled as URL parsing returns it | the code compares a host as spelled with one as parsed; `HostAliases.cfg` is the counterexample otherwise |
| `OriginalIsKept`, `AuthorityPaired`, `ChangesAreKept` | `~Overlap` | two boots at a time interleave their writes, and the code has no lock; `NobodyIsPassed` needs no assumption |
| those on the exchange | `ExchangeAssumption`, a little more than types: a variable's value holds no template of its own (resolving is one pass), and a device's body was read as the last content-type names it | the parser of the proxy reads a body by that header, and `Braces` stands for what looks like a template in a value |

**AccessGateProofs.** `GateInvariant`: `Spec => []IInv` with `IInv` the
conjunction of `TypeOK`, `DurableApprovals`, `NoPromptForAllowed`,
`HeldHasPrompt` and `PromptIdsFresh`. None is inductive alone: that settling a
prompt answers only held requests of its machine needs `HeldHasPrompt` and the
types, that it is settled for the first time needs `PromptIdsFresh`, that a
restart leaves no allowed machine asking needs `DurableApprovals`. The lemma on
`Settle` serves timeout and decision alike. From the invariant: `SettledOnce`,
`OnlyOperatorAllows`, `CapsHold` (its own induction, with cardinalities), and
`GateKeepsPromise`, the refinement of `Approval`, with one step lemma per action.

**HostInstancesProofs.** The invariant speaks of memory (`Core`, over the four
slices as parameters), of the listeners (`Served`) and of the file (`GoodDoc`:
what a boot may rely on). Parameters are what make it work: the save of a crash
happens on slices that are never in the variables. `FoldGood` shows that folding
a good core gives a good document, whatever choice is made among instances that
share a host, and `BootGood` that unfolding a good document gives a good core.
From it: types, `UniqueIdsAndPorts`, `NoDanglingRow`, `SlicesTotal`,
`SslHasPipeline`, `NoStaleListener`, for any spelling of any hosts, and
`HostSecondInstance`: the one step that gives a host a second instance is SSL
switched on for another spelling of it, since every boot is from a file with one
entry per host and everything else looks the host up as it is stored. With canonical
spellings two more facts are invariant: the row of a host names the instance of
that host and nothing else (`Paired`), which leaves nothing to choose when the
slices are folded, and the file says what memory says, but for edits that were
rejected half-way (`Kept`). `RestartKeeps` and `StablePort` follow.

**StartupProofs.** `BootInv` (types, whose write is under way and what it will
hold, one process boots) carries four independent invariants. `OriginalInv`:
nobody gets past the migration while `state.json` is the original, and the copy is
complete before the new document is begun. `AuthorityInv`: while an authority is
made there is no certificate, and past it each process holds the one whose two
files are complete. `ChangesInv`: unless the history was cut, whoever has loaded
the file or writes it knows every change, and nobody else can be reached.
`PortsInv`: who holds which port, and that a process which boots has passed no live
one but those that excuse it.

**RecordingProofs.** `LogInv` gives the bill, from lemmas on the weight of a set
of records with one added, a part taken away, or the newest kept. `CurrentInv`
says that every record that was not late when it was written goes by the
current id of its instance, which a rename keeps since it rewrites them all;
`SessionInv` relates each session to its debt
(`Settled`): entries and dropped records together are what it is owed, and the
filter is the ids of the instances it is owed for. That a sweep never takes a
running session is a fact about the survivors of an eviction, and that caps hold
needs the insertion order to be a total order of the sessions (`OrderInv`).

**PipelineProofs.** `PipelineInv` is the types, the currency of the app cache, and
that a connection that has a pipeline was opened to the host the pipeline was
built for (`WellBuilt`). `ForwardedHome` and `BlockedDies` are steps from it.

**HostRegistryProofs.** `RegistryInvariant` (types, `DirtyIsScheduled`,
`OrderIsTotal`) is inductive as it stands: the counter dominates every record.
`OldestMakesRoom` follows from the types and the fact that fewer uncommitted
records lie below an older record (a cardinality argument), for any cap; TLC
checks it for a cap of two. For `HostView` the invariant adds what is on its way
(`ViewInv`): of a host with nothing to be told, the last frame that speaks of it
says what the registry says (`LastSays`), no answer will overwrite it with
something else (`Harmless`), and if no frame speaks of it the screen shows it.

**BlockingProofs.** Covering is transitive, and the rules above one path form a
chain (`CoversTransitive`, `CoversChain`). Hence a lean set has at most one rule
for a path (`LeanUnique`), and adding a rule kills exactly what was killed and what
the rule kills, although it takes out the rules it covers (`AddExact`).
`CallsKeepLean` and `ClicksWork` follow; the second also rests on what an open menu
holds (`MenuOK`: one row, with no rule or one that covers its path, whatever the
rules are by now). `FramesRestore` needs a strengthening of
`SuiteRestores`: at every step of a frame that is putting things back, the rules
as they are, without those still to be lifted and with those still to be put back,
kill what was killed before (`Kept`); and every frame but the innermost is in its
body (`Beneath`), so that a return uncovers a frame that promises nothing yet. The
stacks are handled once, in a lemma each for moving, leaving and opening a frame.
`CacheFresh` of `MockFiles` needs `StartKnown`: while the watcher is yet to be
started, a change of the files is one that will be missed. `RenameKeepsMocks` is a step from
the types (`FilesInv`: what is on disk and what is cached are lists of mocks): while
the mocks of the registry are rewritten one after the other, each mock of a file keeps
its scope or gets one with the new id (`Like`), and the first of a name, once
rewritten, keeps it (`Moved`). The proof showed what `Visible` has to say. A file may
hold two mocks of one name, of which the line editor finds the first, so it is not
enough that no mock of the instance has its `servers` spread over several lines: the
first of its name must not have it either, or the mock behind it is left with the id
that is gone. `mock-scope.js` calls the name unique, and nothing enforces it.

**RequestProofs, the library.** `LibraryInv` is what is on disk (`ShelfInv`: the
members of the index were placed by hand), what the screen was given (`GivenInv`: no
id twice in a collection) and the run with the rows that follow it (`RunInv`). The
proofs rest on what picking from a sequence by positions does to it
(`PickedIsPart`, `PickedIsAll`, `PickedIsAllButOne`), for sequences of any length:
what remains keeps its order, a filter that drops one element shifts what follows by
one, and so `DropLands` can count positions before and after a removal.

**RequestProofs, the validator.** `ValidateIsConforms`: for every value and every
schema that `assertSupported` lets through, `validate` reports nothing if and only
if the value conforms, for any nesting and any cap on messages. First each recursive
function is shown to satisfy its equation (`CheckRule`, `MeaningRule`,
`SupportedRule`): a table that does is built level by level of the nesting, and the
first level without one is refuted. A test is `Right` about a set of values when,
started on a list without messages, it leaves it so exactly for the values in the
set, and started on one with messages never takes them back. A sequence of tests
that are each right is right (`CheckAllFacts`); the tests of a string, a number, an
array and an object are right if those of the schemas in it are (`Agree`); and
`CheckOneFacts` needs that every keyword is one that is enforced, for a keyword
nobody evaluates is where check and meaning part.

**RequestProofs, the exchange.** `AnswerInv` says that what is held of an answer is
the part of it that has come, or nothing once that was too much (`Held`), and that an
answer to the caller is a failure or what the expectation makes of the whole
(`Told`); with `ValidateIsConforms`, `VerdictHolds` follows for every caller.
`WireInv` says that what went out is a function of the request (`Sent`) and that this
request passed the checks on its way (`Served`), the second of them after it was
resolved. Lemmas follow a request through the stages of `Serve` - merged with what
was captured, given a type, resolved, folded - and say at each which texts are left
in it and which header is the last of a name. `HostServed` says where the request
line leads, from the rule a path passed twice: it opens with a slash, or with what
looks like a template. `CleanRequestHolds` rests on folding
being idempotent, so that each field stands for itself (`FieldAtFacts`), and
`ReplayHolds` on the last content-type of the device keeping its place and value
under edits, spellings and templates (`TypeIsKept`, `LastIs`).

Some theorems are about properties no run lists, because the proof covers them:
`HeldHasPrompt`, `SettledOnce`, `OnlyOperatorAllows`, `NoDanglingRow`,
`SslHasPipeline`, `DirtyIsScheduled`, `OrderIsTotal`, `SessionCaps`,
`EntriesOnlyGrow`.

Induction over data: the library's induction theorems take an operator as
parameter, which the provers here cannot instantiate. Where a recursive function
is defined on numbers (`Picked`, `Weight`, the folds of the community modules) or on
the nesting of a schema (`Check`, `Meaning`), the proofs take the least number for
which a fact fails instead (`HasLeast`, from the well-foundedness of the naturals).

Only model-checked: the liveness properties `HeldIsAnswered`, `TouchedIsTold` and
`RequestsEnd`, which need fairness and ENABLED.

## 5. Bounds

`MaxPrompts`, `MaxRecords`, `MaxSeq`, `MaxChanges`, `MaxCAs`, `MaxDeaths`,
`MaxWrites`, `MaxDepth`, `MaxCalls`, `MaxOutside` and `MaxActs` bound counters,
calls and changes in the guards of the actions that advance them; they are named
as constants and the proofs hold for every value. `MaxFrames` of `HostView` is the
socket's buffer, in frames. All other bounds are the caps the code itself has, made
small. TLC explores all behaviours within them. Deadlock is checked except where
the bounds let the system stop (`Startup`, `MockFiles`, `Exchange`, `TestSuites`,
`Composer`): a request that is answered, or a budget of changes that is spent.

## 6. Not modelled

- Formatting, parsing, TLS, streams and sockets: I/O, or conversions no property
  here is about. `Canon` and `SlugOf` stand for what the two parsers that matter
  do.
- Mock statistics and the conflict report: derived from records and files, read by
  nobody but the screen. Schema files: stored and read whole, copied into the
  requests that use them.
- The network watch (a timer that compares addresses and prints); that leaf
  certificates are cached per host for the life of the process.
- The dashboard's rendering, its log list and its list of prompts; several
  dashboards at a time, which do not affect each other in the server.
- What the command line prints; calls of the clients that forward one request and
  return its answer. The Java and Python clients where they do what the JavaScript
  ones do.
- What two boots at the same time do to the files they both write: `Overlap` of
  `Startup` allows it, and the code has no defence (`OriginalKept` and `CAPaired`
  are stated of boots one after the other).

## 7. What is left

1. The dashboard's log list and its list of prompts against the event stream, as
   `HostView` does it for hosts: history and stream are fetched in an order of
   their own (`public/js/modules/entries.js:64`), and a reconnection fetches
   nothing (`public/js/modules/access.js`).
2. The host and instance id a record carries, composed with `Pipeline`, whose
   connections are those that `Recording` keeps as `tunnels` and `inflight`.
