# Counterspy, specified

Counterspy is a macOS console tool in Go.  It scores what persists on the
machine (launch items, processes, permissions) and quarantines what the user
confirms; it watches outgoing connections; and, as `counterspy intercept`, it
decrypts the machine's own HTTPS traffic through a local proxy whose certificate
authority (CA) it installs as a trusted root.  This directory holds TLA+ models
of the parts in which state, concurrency and failure meet, the TLC runs that
check them, and the TLAPS proofs about them.

The models are written from the code under `src/`.  `PROJECT.json` maps every
definition to the lines it models, names a broken variant (a mutant) of the code
for every checked property, and lists the hazards the properties are for.

## 1. The system

### Components, their state and operations

| component | state | operations | modelled in |
|---|---|---|---|
| intercept command (`intercept.go`, `intercept/sysproxy_darwin.go`, `ca/trust_darwin.go`) | the system's proxy settings, the trusted root, the CA on disk, port 62443; per process: captured settings, `trustInstalled`, `redirectTeardown`, `once`, the signal goroutine | arm, serve, teardown, `--uninstall` | `Intercept`, `SysProxy` |
| intercept daemon (`daemon_darwin.go`) | the launchd definition, whether launchd has the job | install, uninstall; launchd's start, restart, SIGTERM, boot | `InterceptDaemon` |
| CA persistence (`ca/persist.go`) | `ca.pem`, `ca.key` | `Load`, `LoadOrCreate`, `loadAfterRace` | `CAStore` |
| leaf cache (`ca/ca.go`) | `leaves`, `order` under a mutex | `LeafFor`: look up, mint, store, evict, renew | `LeafCache` |
| proxy connections (`proxy.go`, `pump.go`) | per connection: its goroutine, two sockets, a number | `Serve`, `handle`, `pump`, `terminateTLS`, `bypass`, `isH2Only` | `Tunnel` |
| relay and capture (`pump.go`, `framing.go`) | six goroutines per connection: two copiers, two feeders, two parsers; tees, pipes, the correlation queue, `opaqueOnce` | `runRelay`, `cp`, `copyTee`, `teeFeeder`, `parse`, `readBody` | `Pump`, `Capture` |
| live stream (`publish/socket.go`) | the readers and their bounded channels | accept, serve, `Publish`, `Close` | `SocketSink` |
| quarantine (`act/quarantine.go`, `act/restore.go`, the findings view in `tui/`) | the file system, the manifest, `Done`, `lastManifest` | `Quarantine`, `RestoreItem`, `Restore` | `Quarantine` |
| message log (`publish/logfile.go`) | `path`, `path.1` .. `path.Keep`; `size`, the open file under a mutex | open and prune, `Publish`, `rotate`, `Close`, `ReadLog` | `LogSink` |
| fan-out (`publish/sink.go`) | which outputs a session has | `Publish`, `Close` | `Fanout` |
| collection driver and collectors (`main.go`, `collect/`) | the evidence, the gaps, the codesign workers' queue | the collectors in their order, each failing or not, in whole or in part | `Scan` |
| scoring, interpretation, marks, shape (`score/`, `interpret/`, `mark/`, `feedback.Minimize`, `ack.Fingerprint`) | none: functions of the evidence | | `Scan`, as operators |
| acknowledgements (`ack/`, `main.go`, `tui/`) | `ack.json`; each console's copy, `Acked`, `AckChanged` | load, acknowledge, take back, save | `Acks` |
| labels and their submission (`feedback/`, `main.go`) | `feedback-store.json`, the consent in `feedback.json` | capture, add, ask, send, mark as sent | `Labels` |
| findings view (`main.go`, `tui/`) | what a console shows and which keys act on it | filter, plan, quarantine, review, label, leave | `Triage` |
| egress monitor (`egress/`) | the previous counters, a history per app, process and connection | `Sample`: nettop, lsof, ps, rates, `Aggregate`, `Concern`, `Exfil` | `Egress` |
| name resolver (`netname/`) | a bounded map of addresses to names | `Put`, `Lookup`, the observer | `NameCache` |
| console's event loop (`tui/console.go`) | mode, pause, captured messages by pid; tcell's event queue, the `sampleNow` channel | keys, samples and messages as events; two posting goroutines; an inspection | `Console` |
| exfiltration view (`tui/egressmodel.go`, the cursors of `egresszoom.go`) | the groups on show, sorting, expansion, the cursor of the tree and the two of the dashboard | the keys of the tree and of the dashboard, a sample's arrival | `ExfilView` |
| packet inspection (`inspect_adapter.go`, `inspect/`) | one capture: the kernel's filter and buffer, the packets read, the deadline, the bytes of each direction; the pane | `Inspect`, `OpenLiveCapture`, `Next`, the verdict | `Inspect` |
| owner attribution (`owner_darwin.go`) | `ownerMap`, `ownerAt`, `ownerLast` under a mutex that is held while `lsof` runs | `portOwner`, `sweepOwners`, `runLsof`, `parseLsofPorts` | `Owner`, `Proxy` |
| rendering, data types | none beyond one frame | | only where the cursor is drawn, in `ExfilView` |

`PROJECT.json` lists all 23 components with the reason for what is left out.

### How they interact

* `intercept` loads the CA (**CAStore**), arms, then serves.  Its teardown is a
  closure called by the main goroutine's `defer` or by the signal goroutine,
  whichever is first (**Intercept**).  The daemon is the same command started by
  launchd, and `--uninstall-daemon` ends in the code of `--uninstall`
  (**InterceptDaemon** extends **Intercept** and calls its actions).
* Every accepted connection is a goroutine (**Tunnel**).  It asks who opened it
  (**Owner**, composed with `Tunnel` in **Proxy**), asks the shared
  cache for a leaf (**LeafCache**, whose variables and actions `Tunnel` uses) and
  hands the connection to `runRelay` (**Pump**).
* The parsers of the relay publish events to the session's outputs, one after the
  other (**Fanout**): to consoles through a unix socket (**SocketSink**) and to a
  rotated log (**LogSink**), which the next session goes on with.
* A scan collects evidence while the machine goes on (**Scan**).  The console shows
  the findings and acts on them (**Triage**): what it may undo is its own memory of
  what the manifest on disk says (**Quarantine**); what was reviewed is recognised by
  a digest in a file (**Acks**); what was labelled is kept by its shape in another,
  and sent if the user agrees (**Labels**).
* The console's other face shows what the egress monitor samples in a goroutine of
  its own (**Egress**), with names an observer goroutine collects (**NameCache**),
  and the messages a third goroutine reads from the live stream.  All three, and
  the keyboard, meet in one bounded event queue (**Console**).  The keys act on a tree
  or a dashboard that is computed anew from the latest sample (**ExfilView**); one of
  them captures the packets of a flow (**Inspect**) while the loop waits.

### What is hard

* A man-in-the-middle that is armed must be disarmed on every path: an arming
  step that fails half-way, a signal to another goroutine, a `kill -9` that
  leaves the settings in nobody's memory, launchd restarting a crashed process.
* Files written in two steps by processes that know nothing of each other.
* A capture that must never hold up the traffic it captures, and must say so when
  it is incomplete.
* Channels closed by one goroutine and sent to by another.
* Three tools run one after another on a machine that goes on meanwhile: what one
  of them calls pid 7 may be another process by the time the next one looks.
* A cursor that is a position in a list which another goroutine's samples change between
  the frame the user looked at and the key.
* Files that several consoles load, change and save whole, without a lock.
* A verdict that depends on what five collectors each saw at a moment of its own, on
  weights, a correlation, thresholds and caps in three packages that must agree.
* A lock released around a slow operation (minting, checking, renaming), after
  which what was checked may have changed.

For every component the properties of section 4 say what makes it correct; the
40 hazards in `PROJECT.json`, each at its line, say what they are aimed at and
which hazards no property covers yet.

## 2. The modules

| module | of |
|---|---|
| `SysProxy` | one service's proxy setting and what `networksetup` does to it |
| `Intercept` | sessions and `--uninstall`, one step per tool call |
| `InterceptDaemon` | launchd and the two daemon commands, over `Intercept` |
| `CAStore` | concurrent starts reading and writing the CA pair |
| `LeafCache` | `LeafFor` by concurrent goroutines; has a specification of its own (`LeafSpec`) |
| `Tunnel` | the connections of the proxy, over `LeafCache` |
| `Owner` | sockets that change hands, and the lookups that attribute a port |
| `Proxy` | the connections of `Tunnel`, each attributed by `Owner` before it is numbered |
| `Capture` | abstract: what the capture of a relayed connection promises |
| `Pump` | the six goroutines of a relay |
| `SocketSink` | the live stream |
| `LogSink` | the message log: rotation, pruning, and what a reader makes of the file |
| `Fanout` | a session's outputs, over `SocketSink` and `LogSink`, from one session to the next |
| `Quarantine` | quarantine and restore |
| `Scan` | the collectors, and scoring, interpretation, marks and shapes as operators |
| `Acks` | the acknowledgements of several consoles |
| `Labels` | the labels of several consoles and submit commands |
| `Triage` | a console's findings side, over `Scan`, `Quarantine`, `Acks` and `Labels` |
| `NameCache` | the names of destinations |
| `Egress` | the machine's processes and sockets, and the monitor that samples them |
| `Inspect` | the capture of one flow's packets and what is concluded from them |
| `ExfilView` | the tree and the dashboard of the exfiltration view, over `Egress` and `Inspect` |
| `Console` | the console's event loop, over `ExfilView` |
| `MC...` | instances for TLC: model values, bounds given as functions, symmetry |
| `FoldLemmas` | lemmas about sums and folds over finite sets and sequences |
| `InterceptProofs` | theorems about `Intercept` and `InterceptDaemon`: what is reverted, and that whatever must end gets nearer to it |
| `CAStoreProofs` | theorems about `CAStore` |
| `ProxyProofs` | theorems about `LeafCache`, `Tunnel`, `Owner` and `Proxy`, two of them liveness |
| `PumpProofs` | theorems about `Pump`: its invariants, that it implements `Capture`, and that its goroutines do not park one another |
| `FanoutProofs` | theorems about `SocketSink`, `LogSink` and `Fanout`, with the liveness of `Close` |
| `TriageProofs` | theorems about `Quarantine`, `Acks`, `Labels`, `Scan` and `Triage` |
| `ConsoleProofs` | theorems about `Console`: histories, messages, names, inspections, rates, the cursor and the quit key |

Conventions.  A variable has the name of the Go variable or field it stands for
where it has one.  A goroutine is a program counter; the code between two points
at which another actor can be seen is one action: a tool call, a system call on a
file, a channel operation, a critical section.  What the code gets from outside
(an error, an end of file, a signal) is a disjunct.  A variable marked *history*
in its declaration exists only for a property to refer to.  A definition marked
*Mutant of* is a plausible bug and part of no specification.

**Intercept.**  `pc` is the main goroutine, `handler` the signal goroutine,
`tdown` the closure `teardown` inside its `once.Do`.  `prior` and `armed` are
`InstallProxy`'s captured settings.  `restore` is two `networksetup` calls
(`RestoreServer`, `RestoreState`) because each can fail and others can read
between them.  A killed process loses all of it (`Exit`), but the child processes
it was waiting for may go on: they become `strays` (`Orphaned`), and each comes to its
effect at any time after, or never (`Lands`).  The constant `Faults` selects
what the environment does: `kill`, `armSignal` (a signal while arming),
`revertError`, `late` (a call that timed out after it applied), `overlap` (two
processes); the constant `Outliving` bounds the tools whose calls become strays.

**InterceptDaemon.**  The processes are launchd's (`Daemon`) and that of the
forced revert (`Admin`).  `launchctl bootout` unloads the job and sends SIGTERM, or fails, or
does nothing, and the command goes on at any time after it (`BootoutOver`), with the daemon
gone or not: `runLaunchctl` gives up after 20 s and its error is ignored.  `gaveUp` records
that the job or the daemon was still there, `untidy` that the daemon crashed, was stopped
while arming or ran beside the forced revert: the properties are stated for uninstalls and
daemons to which that did not happen, because of the findings below.

**CAStore.**  A CA is the identity of the process that minted it.  `O_EXCL` is one
step (`Gate`), each `os.WriteFile` is a truncation and a write, and reading the
pair is two reads.

**LeafCache, Tunnel.**  Time is counted in units of `leafRenewBefore`'s order, so
a call sees at most one tick.  `began` is when a call began.  In `Tunnel`,
`handler` is `handle`'s goroutine, `told` the connection-level (Seq 0) events,
`excuse` why a connection ended without one, `pinned` the leaf a client refused.
Only the end and the opaque event of the relay are seen here; `Pump` models it.
`isH2Only` is two steps: the header of the first record, for which it waits within a
deadline (`Peek`), and the rest of it, for which it does not (`PeekRecord`).  That one,
the copies of a bypass and the relay are where a handler waits for its peers
(`WaitsForPeer`); what ends those waits is a `PeerStep`, everything else `Handle`.

**Owner, Proxy.**  `sockets` is the machine, where ports are given up and taken again;
`past` is when that was.  `sweep` is the lookup that holds the mutex and how far its
sweep is; a lookup that needs no sweep is one action.  What `lsof` lists is what it finds
at the moment it looks, which may be any between the begin and the end of a sweep, or a
part of that if it is cut off (`OwnerFaults`); of several holders of one port number
any may be listed last.  `answer` is what a lookup returned, with two history fields:
whether the process named held the port recently, and whether the sweep of this very
lookup brought nothing.  `load` names what happens in an instance (`Loads`).

**Pump, Capture.**  A chunk of bytes is a piece of one message: its head, the rest
of it, an interim response, or stray bytes.  `lost` is the first message of which
a chunk was forwarded and not teed, `crossed` the heads delivered.  `Capture`
knows neither tees nor queues: events are numbered in wire order per direction
and a connection does not end with a message missing unless it was reported
opaque.

**SocketSink.**  A message is its number.  `joined` is how many messages had been
published when a console was registered.  `panicked` stands for Go's panic on a
send on, or a second close of, a closed channel.

**LogSink, Fanout.**  A file is a sequence of pieces, each the first `n` bytes of the
line of a message; bytes are counted but have no content.  `gens` are the numbered
files, `exists` those that are there.  A rotation is one action per file operation,
each of which may be refused; the code ignores that, so `size` may be wrong, and only a
refused reopening (`log = "dead"`) is noticed.  `Shown` is what `ReadLog` makes of the
current file.  `accepted` are the messages whose `Publish` succeeded, `aged` those that
were in files whose turn to go it was.  In `Fanout`, `waiting` are the messages between
the first output and the second, taken in any order; `launch` is how the session was
started.

**Scan.**  `World` has the differences between pieces of software that the collectors'
parsers and the rules tell apart.  `evidence` is the set of observations, each about a
subject; subjects are what `Evidence.Subject.Key` makes of a path, a label or a pid.
Collectors run in order, workers of `codesignAll` in any; `Change` changes the machine
in between.  Scores are the code's integers, with `score.go`'s correlation of 150
per cent rounded down.

**Acks, Labels.**  A record or a finding is a key and a digest; a label is its shape and
a nonce.  Each operation loads the file and saves it whole, in two steps where
another writer may come in between.  `reviewed`, `agreed`, `received` and
`latest` are history; `overlapped` records that two writers were at work at once.

**Triage.**  `use` names one of the ways the program is used (`Uses`): the machines
that may be scanned, what happens during the scan, what is vetted, and which keys are
pressed.  A key acts on what the scan found: a launch item is quarantined by its
label and its plist only if its persistence is in evidence.

**Egress, NameCache, Console.**  The machine is the environment: `proc` says which
binary runs under a pid, `procOut` and `sockOut` are nettop's counters.  `stage`
is where the sampler's goroutine is between its tools; each may fail, which leaves
its output empty.  `Ps` names the destinations in one step, although the name cache is locked
for each: no property relates the names of two destinations.  `recent` counts what was sent since the nettop before, `age`
for how many samples each history's subject was live.  The loop handles one event
of `queue` per step, and none while an inspection is under way (`probe`).  `spent` and
`Bounds` bound what the outside does.

**ExfilView.**  Apps and addresses are numbers so that they can be ordered as the strings
they are; `AppName` gives the display name under which the code remembers an app, which
two paths may share.  `Rows` is `visibleRows` as a set: a row is a sequence of an app, a
process and a flow, as deep as it goes.  What the code sorts, the model ranks: `RowRank`,
`GroupRank` and the ranks in `Busiest`, `ZoomedMember` and `ZoomDest` are tuples of numbers
that no two things share, compared by `Before`, and `Nth` is what has that many before it.
Each ends with what a stable sort falls back on: the smallest pid, by which `Sample` lists
the groups, the pid, the address, or the place in what lsof lists.  Cursors count from 1.  `Highlighted` is what the drawing
code puts the cursor on; the keys compute their row by other code from the same state.

**Inspect.**  A segment's payload is one of the chunks the judgement tells apart, and a
direction is the sequence of those that were kept.  `buffered` is the device's buffer,
`pend` what was read of it, `taken` the locals of the loop, `wire` (history) every packet
the loop took.  The byte limit counts chunks.  A sample and the outside go on meanwhile.

**Quarantine.**  Each finding has a target and, if it is a launch item, a plist and
a loaded job.  `rename`'s check and the rename are two steps, and files appear
and vanish at the original places in between (`foreign`).  `sound` records that
no write of the manifest failed and no session was killed.

## 3. Plan

Done, in this order: `Intercept` (the component that can leave the machine in a
dangerous state), `InterceptDaemon`, `CAStore`, `Quarantine`, `Pump` with
`Capture`, `LeafCache` with `Tunnel`, `SocketSink`, `Egress` and `NameCache` with
`Console`, and the proofs listed below; then `LogSink` with `Fanout`, `Scan`, `Acks` and
`Labels` with `Triage`, `Owner` with `Proxy` and its proofs, `Inspect` and
`ExfilView` under `Console`; then the proofs about histories, messages and the manifest;
and then those about the daemon, the relay and its refinement of `Capture`, the outputs of
a session, and the findings side; those about names, inspections, rates and the
cursor; and last what the liveness properties rest on: that whatever must end is never
stuck and gets nearer to its end.

Next:

1. The types of the console's variables, as a theorem.
2. `RelayEnds`, `StopDisarms`, `UninstallEnds` and `QuitEnds` as theorems, from the
   descents proved here, should a prover come that does induction over a number.
3. The framing of HTTP messages as operators, checked against a reference definition.

## 4. The runs

Each run checks the properties below.  The type invariants of `Intercept`, `CAStore`,
`Quarantine`, `LeafCache`, `Tunnel`, `Owner`, `Pump`, `SocketSink` and `LogSink` are theorems
or parts of proved invariants; those of the other modules are stated beside them for the
proofs to come.

| run | properties | instance |
|---|---|---|
| `disarm` | `Reverted`, `RedirectOnlyWhileTrusted`, `CaptureIsForeign`, `StopDisarms` | one process at a time, two services, three servers |
| `after_crash` | `UninstallUntrusts` | two processes at once, killed or not, whose calls fail, apply late or (`trust`) outlive them |
| `daemon` | `UninstalledIsReverted`, `NothingLoadedNothingArmed`, `UninstallEnds` | one service, with a proxy or with none (`UsersSettings`); crashes and signals while arming, `bootout` that fails, a trust call that outlives the daemon |
| `ca_once` | `TrustOnce` | three starts, write errors and crashes, two retries |
| `proxy` | `ServedIsValid`, `FreshIsKept`, `Accounted`, `OwnerIsRecent`, `TunnelEnds` | two loads (`MCLoads`): two connections to two hosts over a cache of one leaf; two connections from one port that two processes and the proxy share or hand on |
| `relay` | `NoFalseComplete`, `Forwards`, `Captures`, `RelayEnds` | two request and three response chunks; framed, read-until-close and malformed bodies, stray request bytes |
| `publish` | `NeverPanics`, `NoSilentDrop`, `CloseEnds`, `Retained`, `LogIsBounded`, `GapIsDisclosed` | four launches (`MCLaunches`): two consoles with channels of one and three messages; a log of three files of two messages each, for seven messages or for four with two waiting; both outputs with one message; one more session |
| `triage` | `NeverLost`, `NoOrphans`, `CleanRestoreIsWhole`, `DoneHasItem`, `SignatureDecides`, `NeverMasks`, `SentIsAgreed`, `LatestLabelIsKept` | five uses (`MCUses`) of a launch item and an application: every launch item the rules tell apart scanned on a changing machine; quarantine with every fault, three manifest items; a vetted snapshot; two consoles that review, over two scans; two consoles and a submit command with two labels |
| `console` | `RateIsRecent`, `RingsInStep`, `KeepsLatest`, `BufferAccounted`, `NeverMixed`, `PaneShowsTheEndpoint`, `InspectsTheHighlighted`, `QuitEnds` | two pids, three sockets of which two share a key, a queue of two, captures of three packets and two chunks; fourteen mixes of events (`MCBounds`) |

What they show:

* **disarm**: whichever arming call fails, and whether the session ends by itself
  or by a signal once it serves, every service is put back and the CA untrusted;
  the redirection never exists without trust; nothing captures its own
  redirection; a process told to stop gets there.
* **after_crash**: whatever was killed where, an `--uninstall` none of whose calls
  failed leaves the CA untrusted.  It needs no memory of the dead process, which
  is why it holds where restoring the proxy does not.  It lasts until a call that a dead
  process left behind comes to its effect.
* **daemon**: an uninstall ends, whatever launchd and the daemon do, and
  if it succeeds leaves no definition; unless launchctl left it the job or the daemon,
  nothing is loaded, running or trusted, but for such a call; nothing stays armed that
  launchd does not run.
* **ca_once**: all starts that get a CA get the same one, the one on disk.
* **proxy**: a served leaf outlives its handshake; a fresh leaf is never replaced;
  every connection ends, although the mutex of attribution is held through sweeps, unless
  a peer that neither sends nor reads holds it for ever where the code sets no deadline;
  and one that ended has exactly one event that says why, unless it was relayed, its client
  left before the tunnel opened, or its handler panicked.  The process a connection is attributed to
  held the port at most `ownerTTL` and one sweep ago; only a lookup whose own sweep
  brought nothing may name an older one.
* **relay**: with the tee and the queue overflowing, the goroutines of a relay
  implement `Capture` (the refinement mapping drops the complete/partial mark and
  turns the count of opaque events into a Boolean) for as long as the traffic can
  be delimited, and none outlives `runRelay`.  Traffic flows although parsers and
  feeders may hang (`Forwards`: a copier that has something to write can write
  it), and a truncated message is not shown as complete unless an opaque event
  precedes it.
* **publish**: no order of publish, registration, departure and close panics; a
  console sees an ordered stream whose gaps are counted; close ends everything.  What
  the log's files hold are messages that were accepted, in order; what is missing is older
  than all of them and was in files whose turn it was, through crashes in the middle of a
  rotation and restarts over what they leave (a refused rename may cost a file in the
  middle, never the order); files stay within their size, unless one line is larger; and a
  message that a half-written line has spoilt is at least followed by an error.
* **triage**: nothing quarantined is destroyed, under every fault; as long as
  manifest writes succeed and the session lives, the manifest lists what is in the
  folder and the reports about it are true.  For every launch item the rules tell
  apart, the signature bounds the recommendation from both sides, by what was read of it,
  whatever the collectors report or pass over.  A finding shown as reviewed is one that was reviewed as it is; what
  arrives at the endpoint was agreed to; a label is kept until it has arrived.
* **console**: no rate includes bytes older than the sample before, whatever pids,
  counters and tools do between the three tools of a sample; histories stay in step
  with what they are the history of.  The key that inspects starts on the busiest flow of
  the row the cursor is drawn on, in the tree and in both boxes of the dashboard, whatever
  samples removed since the cursor was put there.  What the pane then shows is what was
  exchanged with that flow's remote address and port, by any connection, alone, in order
  and as far as it was read, or nothing where it is encrypted; it is
  called silent, readable or by a host's name only if that was.  Ctrl-C ends the console from
  every overlay and after every inspection, of a silent flow too.  Captured messages
  that reached the view are retained or counted or disclosed.  In the buffer of a pid
  successive messages that all have a path have one, and successive messages that have
  only a name have one; over a message that does not tell them apart two processes meet.

### Findings

Three runs show a disagreement between the code and what it says of itself.

* `signal_while_arming` (`SignalReverts`): the handler is registered before arming
  so that "teardown reverts whatever got installed", but `trustInstalled` and
  `redirectTeardown` are set only after `InstallTrust` and `InstallProxy` return.
  A signal inside one of them finds nothing to revert, and the process exits with
  the CA trusted, or services redirected.
* `crash_proxy` (`UninstallRestoresProxy`): the settings to restore live in the
  memory of the process that armed.  After a crash `--uninstall` arms again to get
  a teardown, so it captures the redirection itself and restores that.
* `malformed` (`Correlates`): after a body that cannot be delimited, the parser goes
  on in the middle of it; body bytes become messages, and later responses carry
  the numbers of other requests.

Four more have no run of their own.  The models have the behaviour, and each of the
properties named here is stated so that it leaves room for it:

* `UninstallUntrusts`: `--uninstall` "self-heals after an unclean exit"
  (`intercept.go:305`), but a `security add-trusted-cert` that a killed session left running
  may make the CA trusted after it.
* `UninstalledIsReverted`: `UninstallDaemon` ignores every error of `bootout`
  (`daemon_darwin.go:165`), not only that of a job that is not loaded.  One that is refused
  or given up leaves the daemon loaded and running, to arm again, and the command says
  "intercept: daemon removed."
* `TunnelEnds`: `isH2Only` means to wait for a record "no longer than the handshake
  deadline" (`pump.go:480`), but clears the deadline after five bytes of it.  A client that
  sends those and no more holds its handler, and its descriptors, for ever.
* `SignatureDecides`: a launchd directory or a privacy database that cannot be read, and a
  plist that cannot be converted or is too large, are skipped, and no gap is reported while
  one of the others can be read, although "a missing signal is reported" (`main.go:166`).

### Bounds, and why they are enough

* Two services are the least for "one of several fails"; every loop of the code
  over services is symmetric in them.  `Ours`, an empty and another server are
  the three cases the code tells apart.  The faulty runs use one service: a fault
  at one service is independent of the others.  Of the calls that outlive a process
  (`Outliving`) the faulty runs have `trust`, the one whose landing the properties are about;
  where nothing is killed they have all.  The daemon's run begins with one proxy in
  use or none (`UsersSettings`), the two cases that restoring treats differently; `disarm`
  begins with every setting.  `after_crash` begins without a proxy (`CrashInit`): what is
  trusted does not depend on it.
* Two processes are the least that overlap; three starts of `CAStore` are a winner,
  a loser, and one that comes when either is half done.  `MaxTries` 2 is a first
  retry and a last one.
* A tee of one chunk, a queue of one request and channels of one message are the
  smallest that can be both empty and full.  Two requests are the least that can
  be confused; of three response chunks one can overflow the tee and another
  follow it.  Requests are never delimited by the end of the connection.
* A cache of one leaf and two hosts evict at every second insertion; two of the
  four names are the same host and one is blank.  The clock runs for two ticks,
  three leaves can be minted: enough for a leaf to be cached, age and be renewed
  while another goroutine holds the old one.
* One port, two processes besides the proxy, two changes of hands and three seconds: a
  snapshot (kept for one second, `OwnerTTL` 1) is taken, its port handed on, and the
  snapshot used before or after it expires, while the other connection waits for the
  mutex.  A sweep of up to one second (`LsofTimeout`) against a throttle below one
  (`OwnerMinRefresh` 0) lets one lookup sweep twice.  No CONNECT follows in that load:
  what an attribution says decides nothing later.
* A manifest of three items is one more than there are findings, so that a subject
  can be listed twice.
* `Fanout`: two lines fill a file, so the third rotates; two rotated files are the
  least of which one can be lost in between; seven messages rotate three times, once
  with every file full.  A line of two bytes can be torn before, within, and before the
  end of it.  Two messages that wait for the log may arrive in another order; with both
  outputs one message is enough to be between them while the teardown closes them.
  Only sessions with a log alone are repeated: the stream keeps nothing.
* `Triage`: `AnyAgent` is the launch item with every signature, four places, seven
  sets of plists (none, each kind, a disabled duplicate, two domains), no, one, two or
  three grants, both kinds of privacy client and three kinds of process, less the
  combinations that cannot be; beside it is an application that is not notable, for a
  finding is about one subject and nothing in the scores relates two.  One item changes
  during a scan.  Two scans are the least for a review to be out of date, two labels the
  least for one to replace another while it is being sent.  The uses are separate
  because their keys change different files; a use whose keys do not depend on a choice
  starts with one value of it (`TriageInit`).
* `Console` combines actors that meet only in the queue; `MCBounds` lets much of
  one or two kinds of event happen at a time: three changes of the machine within
  two samples (a pid that exits, is used again and connects), two failing tools,
  two switches of face with two other keys, six keys in the tree, four in the dashboard
  while the process or destination under its cursor goes, four messages, four DNS answers.
  What the machine does before the first sample is one of its initial states.
  An inspection sees up to three packets: the two halves of a ClientHello, of which the
  second meets the byte limit, and the packet that meets the packet limit; or two, of any
  kind, with a device that is refused, a filter that is not installed, or a read that
  fails.  Two inspections follow one another, with the pane closed in between.
  A packet may be of another connection to the flow's endpoint.  The messages are of two
  executables of one name, with or without their path, of another name, and of nobody.
  Histories of two, buffers of three messages and one tracked pid, a cache of two
  names out of three overflow at once.

Symmetry, of processes or of consoles, is used only in runs without temporal
properties (`after_crash`, `ca_once`, `triage`).  Deadlock is checked except in
`triage`, where there may be nothing left to do: the session is closed and the folder
is empty or cannot be restored, or every label was given; and in `console`, which ends
when it is quit, or
waits for events when the bound on them is reached.

### Fairness

* `Intercept`, `InterceptDaemon`: weak fairness of the steps of a started process
  (`WF(Step(p))`): every tool call runs under a timeout and Go's scheduler runs
  runnable goroutines.  Starting a command, signals, the end of the accept loop
  and crashes are not promised, nor that a call which lost its process ever lands.
  launchd delivers the SIGTERM it sent; nothing is assumed of `launchctl`, which is given up
  after 20 s.
* `Tunnel`, `Proxy`: weak fairness of `Handle`: reading CONNECT and the header of the
  first record, the handshake and the dials have deadlines, and the answer to CONNECT fits
  the socket's buffer.  `PeerStep` is not fair: the rest of the first record, and what the
  copies of a bypass or a relay write, have no deadline.  (A relay ends if its receivers
  read on, as `RelayEnds` shows.)  In `Proxy`, the lookup is fair too: `lsof` is killed at a
  deadline, and who holds the mutex goes on.  Accepting, panicking, time and changes of
  sockets are not promised.
* `Pump`, `Spec`: fairness of every goroutine; a read that brings nothing ends by
  its idle deadline.  **Writes have no deadline in the code**, so `RelayEnds`
  assumes of the two receivers that they read on or close.  `Forwards` assumes
  nothing: it says that a copier's step is enabled.
* `SocketSink`, `Fanout`: fairness of the sink's own goroutines and of a publish that
  holds the log's mutex; a write to a console has a deadline.  Consoles, publishers,
  an error of `Accept` before `Close` and the teardown's call of `Close` are free; once it closes the stream it closes the log.
* `Console`: weak fairness of the event loop, and of a sample that has begun: its
  tools end; and of the moment a capture's deadline passes.  `QuitEnds` assumes that much
  and no more: nobody need press a key, nor a tick or a packet come.
* `Triage`, `CAStore`: none, all their properties are safety properties.

## 5. The theorems

Proved by TLAPS for every value of the constants that satisfies the named
assumptions of the modules: any number of services, servers, processes,
connections, hosts, consoles, files and findings, any capacity, any bound.

| theorem | says |
|---|---|
| `TypeCorrect` in `InterceptProofs`, `CAStoreProofs`, `ProxyProofs`, `PumpProofs`, `TriageProofs` (of `Quarantine`); `FanoutProofs!StreamTypeCorrect`, `LogTypeCorrect` | the type invariant of the module, under every fault |
| `InterceptProofs!UninstallUntrustsAlways` | `UninstallUntrusts`, under every fault and whichever calls outlive their process |
| `InterceptProofs!AlwaysReverted`, `AlwaysRedirectOnlyWhileTrusted`, `CaptureAlwaysForeign` | the properties of `disarm`, when `Faults = {}` |
| `InterceptProofs!ProcessNeverStuck`, `ProcessDescends` | a process that has been started can go on, unless it serves; each of its steps lowers what it has left to do, and no step of another raises it; under every fault |
| `InterceptProofs!UninstallLeavesNothing` | of `UninstalledIsReverted`, all but the proxy settings, under every fault |
| `InterceptProofs!CommandIsNeverStuck`, `CommandAlwaysDescends` | the same two of `--install-daemon` and `--uninstall-daemon`, whatever launchd and the daemon do; the first if processes may overlap |
| `InterceptProofs!UninstallReverts`, `UnloadedIsDisarmed` | `UninstalledIsReverted`, `NothingLoadedNothingArmed`, unless `Faults` has `revertError` or `late` |
| `CAStoreProofs!TrustedOnce` | `TrustOnce`, under every fault |
| `ProxyProofs!TunnelImplementsLeafCache` | `Spec => LeafSpec`: connections use the cache as it means to be used |
| `ProxyProofs!OrderAlwaysListsCache`, `AlwaysServedIsValid`, `FreshIsAlwaysKept` | the cache's properties, of `Tunnel` |
| `ProxyProofs!AlwaysAccounted`, `AlwaysEndsTidy`, `PinnedIsAlwaysHonest` | the connections' properties |
| `ProxyProofs!OwnerIsAlwaysRecent` | `OwnerIsRecent`, of `Proxy`, for all times and numbers of ports and processes |
| `ProxyProofs!ProxyIsSafe` | the safety properties of `Tunnel`, of `Proxy` |
| `ProxyProofs!EveryTunnelEnds`, `EveryLookupEnds` | `TunnelEnds`, of `Tunnel`; and of `Proxy`, that the connection which holds the mutex of the lookups gives it up, and ends or is held by a peer: liveness, see below |
| `PumpProofs!PumpCaptures` | `Captures`: the relay implements `Capture` |
| `PumpProofs!NeverFalselyComplete` | `NoFalseComplete` |
| `PumpProofs!RelayNeverStuck`, `RelayDescends` | until a relay is over one of its goroutines can go on, or is in a read or write; each step lowers a natural number |
| `PumpProofs!CopierNeverWaits` | `Forwards`, an ENABLED, see below |
| `FanoutProofs!SessionHasStream` | `FanoutSpec` implies the safety part of `SocketSink`'s specification: a session acts on the stream as the sink says, or leaves it alone |
| `FanoutProofs!NeverPanicsAlways`, `DropsAreCounted` | `NeverPanics`, `NoSilentDrop`, of `Fanout` |
| `FanoutProofs!CloseAlwaysEnds` | `CloseEnds`, of `Fanout`, for any consoles: liveness, see below |
| `FanoutProofs!OldestForgottenFirst`, `FilesAreBounded`, `GapsAreDisclosed` | `Retained`, `LogIsBounded`, `GapIsDisclosed`, of `Fanout`, under every fault |
| `TriageProofs!ArtifactsNeverLost`, `NeverOrphans`, `CleanRestoreEmpties`, `DoneAlwaysHasItem` | `NeverLost`, `NoOrphans`, `CleanRestoreIsWhole`, `DoneHasItem`, of `Quarantine`, under every fault |
| `TriageProofs!TriageActsAsQuarantine`, `TriageKeepsAll` | `TriageSpec` implies `Quarantine`'s specification, so these four hold of `Triage` |
| `TriageProofs!ReviewedWasReviewed` | `NeverMasks`, of `Triage`, for any consoles |
| `TriageProofs!SentWasAgreed`, `LatestLabelKept` | `SentIsAgreed`, `LatestLabelIsKept`, of `Triage`, for any writers |
| `TriageProofs!SignatureDecided` | `SignatureDecides`, of `Triage`, for any software and what may be the matter with it |
| `ConsoleProofs!HistoriesInStep` | `RingsInStep`, of `Console`, for any processes and sockets |
| `ConsoleProofs!MessagesAccounted`, `BuffersNeverMixed` | `BufferAccounted`, `NeverMixed`, for any capacities |
| `ConsoleProofs!NamesAreTheLatest` | `KeepsLatest`, of `Console`, for any capacity and order of answers |
| `ConsoleProofs!PaneShows` | `PaneShowsTheEndpoint`, of `Console`, for any packets and limits |
| `ConsoleProofs!RatesAreRecent` | `RateIsRecent`, of `Console`, for any machine and whichever tools fail |
| `ConsoleProofs!TheHighlightedIsInspected` | `InspectsTheHighlighted`, of `Console`, for any samples, names, sort orders and keys |
| `ConsoleProofs!NothingDelaysQuit` | a quit key in the queue is never put off, and every step of the loop brings it nearer |

The modules' assumptions on their constants are all that is assumed, besides the faults
named in the table; `SocketSink` needs its consoles to be finitely many, for it counts
those whose channel is full, and `Egress` its sockets, for it adds up what they sent; and
`ProcessDescends` and `CommandAlwaysDescends` assume finitely many services, the loops over
which they count.  What four theorems assume of ENABLED is said below.  None of the
properties is inductive.  The strengthenings:

* **Intercept.**  For types: while a service is being set, the cursor names one.
  For `UninstallUntrusts` (`CAOnDiskInv`): a CA that is or may become trusted is on
  disk, where `--uninstall` finds it.  For `Reverted` (`IInv`): without faults at
  most one process runs (`Solo`), and for that one process `ProcInv` says, program
  point by program point, which services are redirected (those in `armed`, `cur` or
  `rem`), that what was captured of them is what the user had, and that trust, its
  record and the teardown's progress agree.
* **InterceptDaemon** (`DaemonInv`).  As long as nothing disturbed the daemon, `IInv` holds
  although launchd starts, stops and restarts it: the session or the forced revert is the
  one process of `IInv`, and no call is left behind.  A crash, a signal while arming, or a
  daemon beside the forced revert sets `untidy`, after which only `DaemonBase` is kept: that
  a CA which is or may become trusted is on disk (`CAOnDiskInv`), and which processes run and
  what is loaded at each point of the command (`DaemonPlace`), `~gaveUp` standing for a
  bootout that worked.
  For the descents, in every environment (`LifeInv`): the service between whose two calls a
  restore is has not been restored, what is set was not set before, a closure is recorded
  only once arming is over, and a session that has begun has a handler.  `Left` adds up what
  the main goroutine, the signal's, the teardown and the restore in it have left, a teardown
  that has not begun counting two calls for each service.  A command has its own steps left
  and those of its forced revert, and no step of the daemon's counts.
* **CAStore.**  For types: whoever is not done has a read left.  For `TrustOnce`: at
  most one process is between the gate and its last write, the key file is its own
  from the moment it wrote it, and a certificate that was written has its key
  beside it and no owner: after that nobody writes, so what was read first is
  still true when the second read confirms it.
* **Quarantine.**  Between a check and the rename that follows it the path to be
  filled is free (in the folder) or does not hold the original (at home).  For
  types: an operation is at an action it has or just past the last, a restore is at
  an item of the manifest, and a quarantine has room for the item it will record.
* **Restore** (`ManifestInv`).  While the manifest is true: what is in the folder is
  listed, or was moved by the quarantine under way, which will record it; what a restore
  has passed without a problem is no longer there, so that an item can be dropped
  (undo) and, at the last one, the folder is empty; a quarantine that succeeded acted at
  least once, so it is recorded.  Only a session quarantines or undoes, which is why a
  clean report stays true.
* **LeafCache.**  `LeafInv`: a cached leaf is filed under its own host
  (`KeyedByHost`), and a call in progress began at most one tick ago and holds,
  from the mint on, a leaf of its host that outlives the next tick (`CallsOK`).
* **Tunnel.**  For every connection, a *story* that fits where its handler is: which
  sockets are open, what has been told, whether a leaf is being waited for; and
  connection numbers are pairwise distinct and at most `connSeq`.  That every step
  of `Tunnel` is a step of `LeafCache` or leaves it alone (`TunnelStepIsLeafStep`)
  carries the cache's results over.  For `TunnelEnds`: a handler that waits for a leaf is
  in a call of the cache, and nobody else is (`InCall`), and `StepsLeft` is what it has left,
  a number that no other connection's step raises; it is one or eight exactly where the
  handler waits for a peer, and there it may stay.
* **Owner.**  Whoever the map names held the port at a moment between `ownerAt`
  less the time of a sweep and now, what a sweep has listed was held since `ownerLast`,
  and a sweep in
  progress has not outlived its deadline (`OwnerInv`).  The map says nothing about
  whether a process still holds the port, which is why `past` is needed to state it.
  For `EveryLookupEnds`: whoever is in a sweep holds the mutex alone, and after its second
  sweep it gives it up (`SweepIsOnes`).
  Every step of `Proxy` is a step of `Tunnel` or leaves it alone.
* **Console.**  For histories (`RingsInv`): each is a sequence as long as its subject is
  old, and never empty; only the last part of a sample changes any of them.  For messages
  (`MessagesInv`): a buffer is an end of what came, shorter by what was counted; and
  within it a run of messages that all have a path has one, and so has a run of messages
  that have only a name (`OneProcess`), which is what `sameProc`, a comparison with the
  last message only, keeps (`SameAreTold`).  For names (`NameInv`): `order`
  lists the cached addresses by when they were last named, and whoever is not cached was
  named before all of them while the cache was full; the one that is evicted, the first, is
  then the next such.  For the pane (`PaneInv`): what has been taken is, each way, what the
  packets of the flow so far carry, the n-th chunk being that of the n-th packet by a count
  of those before it.  For rates (`RateInv`): the machine's counters exceed the latest totals
  by at most what was sent since (`CountersInv`), and those totals the base of the next rates
  by at most what was sent in between (`TotalsInv`); a counter that starts again only falls
  short of that, and a failed nettop leaves no base, hence no rate.  For the cursor
  (`CursorInv`): the groups that are sampled, queued and on show are whole, which means that
  each has a process, a flow and a rate, that its destinations are its flows' and that no two
  share a process; and a cursor is a position, though what was there may be gone.  Ranks then
  differ, so every position that the lists still have is taken by exactly one thing
  (`PlacesTaken`, by cardinalities of finite sets), and the flow that comes first is the
  busiest (`BusiestIs`).  That groups are whole needs `RateInv`: rates are naturals.  For
  the quit key: `LoopLeft` counts, for every event up to it, as much as the longest
  inspection takes, so that an event which opens one still makes it less.
* **Pump** (`PumpInv`).  The stream of a direction is a path of *places*: what a peer is in
  the middle of, after how many heads.  The parser is at one place; the chunk in the pipe
  and each chunk of the tee lead from one place to the next; and the last is where the
  copier left off, or, if the tee was detached, the place before the first chunk that was
  lost (`Path`, `Reader`, `Writer`).  `Leads` orders places, so a parser that has seen the
  end of a message cannot have passed a chunk that never came: `NoFalseComplete`.  `Ending`
  says what the goroutines that have returned leave behind, in particular that a detached
  tee was reported before its copier ended, and that otherwise nothing is missing.
  `Numbers` gives the correlation queue its content until the capture derails: the numbers
  that were given to requests and not popped, in order.  The refinement of `Capture`
  follows: a head that is delivered is a `Cross`, an event a `Publish` with the next number,
  the last return of a goroutine an `End`.  `Waiting` says what a goroutine that
  is parked knows of those it waits for: a copier that is done has closed its tee, a feeder
  that gave up has a parser that is done, and a request parser that is done has closed the
  queue.  `Work` counts, for what the peers may still send and for each chunk on its way, the
  steps it may take.
* **SocketSink, Fanout.**  For panics (`Inv`): a registered reader's channel is open, a
  console that is not yet served has never had its channel closed, and no reader is
  registered once the sink is closed.  For drops (`StreamInv`): what a console has received,
  what its goroutine is writing and what is in its channel are disjoint and in order, so a
  message is missed only by a console whose channel was full when it was published; the sum
  of those is what `dropped` counts, by cardinalities.  A session without a stream has no
  reader (`SessionInv`), which is what carries both over to `Fanout`.  For `CloseEnds`
  (`EndInv`, `WindInv`): what a console's goroutine has in hand when the sink is closed
  cannot be written any more, for its connection is closed with it; so it ends within four
  steps, however much is in its channel, and the acceptor after it has closed what it
  had just accepted.
* **LogSink** (`LogInv`).  A message is accepted if and only if some file was given its whole
  line (`Contents`), and the one being written was not, so far (`Pending`).  For `Retained`:
  what is in no file is aged and so is all that is older, and in the middle of a rotation the
  file to be overwritten is empty or aged (`Lost`, `Making`).  For `LogIsBounded`: `size`
  is the number of bytes of the current file, by the lemmas about folds.
* **Acks, Labels** (`AckInv`, `LabelInv`).  Whatever consoles load, change and save over each
  other, a record in the file or in a copy of it was given by a review; a writer that sends
  has asked for what it sends, and what it marks has arrived.  While writers were never at
  work at once, the copy of the one that is holds what the file does.
* **Scan** (`ScanInv`).  Of software that did not change during the scan, what the evidence
  says about its file is what the collectors find there, and once there is
  any, its signature is checked.  The scores are then sums over that evidence, which `FoldLemmas` bounds.

Induction is needed for sums and counts only.  An induction theorem that takes a predicate
cannot be instantiated by the installed provers, so `FoldLemmas` argues from a smallest
counterexample instead: a set of naturals that is not empty has a least element.

### Liveness

The provers know nothing of ENABLED, and weak fairness says nothing without it.  Four
theorems, `EveryTunnelEnds`, `EveryLookupEnds`, `CloseAlwaysEnds` and `CopierNeverWaits`,
therefore assume that each fair action is always ENABLED where its guard, a state formula
beside the theorem (`HandleGuard`, `ProxyGuard`, `ServeGuard`, `AcceptGuard`,
`ListenerGuard`, `CopyGuard`), is true.  Those guards are read off the action's
definition, and TLC finds that each implies its ENABLED in every reachable state of the
instances of section 4; nothing else is assumed.  From there the argument is the usual one:
the guard holds as long as the goroutine has not ended (a handler's, unless it waits for a
peer, where it stays or from where it goes on), each step of its own lowers the
number of steps it has left, and nobody else's raises it.  As that number is bounded
whatever the constants are (twelve steps of a handler, sixteen with its lookup, four of a
console's goroutine), the end follows by a chain of leads-to.

`StopDisarms`, `UninstallEnds`, `RelayEnds` and `QuitEnds` take a number of steps that grows
with the constants, and a chain of that length is an induction over a number, with a
predicate for a parameter, which the provers cannot instantiate.  What such an induction
would rest on is proved: that whoever must end is never stuck (`ProcessNeverStuck`,
`CommandIsNeverStuck`, `RelayNeverStuck`) and that each step brings the end nearer
(`ProcessDescends`, `CommandAlwaysDescends`, `RelayDescends`, `NothingDelaysQuit`).

Only model-checked, then, are these four properties; that guards imply ENABLED; that the
event loop can always go on; and that a connection which waits for the mutex of attribution
gets it in the end, which `EveryLookupEnds` does not say.  That the order of eviction lists
the cached leaves is only proved: no run repeats it.

## 6. What is not modelled

* Text processing: parsing of tool output and of packets, chunk sizes and header
  limits in `framing.go`, formatting and layout.
* In owner attribution, the path that `proc_pidpath` adds to a pid that `lsof` listed.
* The raw database and plist reading of the collectors: `Scan` begins with what they
  parse.
* Real time beyond the order of deadlines: how long a half-closed flow may live.
* Panics in the relay's own goroutines, which `handle`'s `recover` does not cover:
  such a panic is a crash of the process, which `kill` in `Intercept` covers.
* A crash of the administrator's `--(un)install-daemon` command.
* The socket file of the live stream (a stale one, its permissions), and a second
  session that removes it.
* Cryptography: a CA, a leaf or a key is its identity.
* In the exfiltration view: the filter, which no key sets, the keys that change what is
  plotted, reveal secrets or copy a path, the inbound series and the cadence label.
  Rates are bytes per sample: the code divides by a constant.
* In an inspection: how packets, ClientHellos and HTTP bodies are parsed (a chunk stands
  for what comes out), the cut of a long decoded body, the hexdump, and reordered
  segments, which the code joins as they come.  The long-lived capture of DNS packets
  is the observer of `NameCache`.
* Two consoles' labels or acknowledgements that overwrite each other: the models have
  it (`overlapped`, and reviews that are lost), no property forbids it.
* What a full event queue loses: `PostEvent` refuses the event and nobody looks at
  its error, so a captured message can be lost before `BufferAccounted` counts it.
* The superseded single-flow path in `proxy.go` (`intercept`, `relay`), kept for
  tests.

## 7. Observations

Met while modelling, left as they are: each is a consequence of the code that a model
shows or a reader may ask about, and none is checked as a property.

* **Scoring.**  A client of the privacy database that is known by its bundle identifier
  has no path, so its signature is never checked: with all four grants it scores 10 and
  is recommended for quarantine whoever signed it, which `interpret.go:270` rules out for
  accepted software.  The tripwire asks for three kinds of evidence about one subject,
  but listeners are about a pid and the rest about a file.  A plist in the system domain
  without a hidden path leaves no persistence evidence.  A disabled `.bak` duplicate
  makes a running target dormant, and so `Monitor` (`interpret.go:56`).
* **Names.**  `isAppleNamespace` accepts an authority that contains Apple's name, which
  `mark.isAppleAuthority` does not; and a revoked binary under a `com.apple.` label is
  held to minimal concern.
* **Silent failure.**  Beside the partial reads of section 4: if `lsof` fails, processes are
  collected without sockets and no gap is reported, against `main.go:166`.  When the log cannot be reopened the proxy ignores
  the error (`proxy.go:181`).  `PostEvent` drops what does not fit.
* **Reviews.**  The digest leaves facts out: a dormant finding that was reviewed and is
  armed later is not shown as changed.  After taking back a review whose save failed the
  second press succeeds without a save.
* **Labels.**  Marks go by shape, so a label changed while its predecessor was being sent
  is marked as sent if another process changed it.  Consent is read when a console
  starts: turning sharing off later does not stop what that console sends.
* **Quarantine.**  A quarantine that succeeded in part is announced as undoable with `u`
  (`console.go:163-165`), which refuses a finding that is not in `Done`
  (`update.go:94`); `counterspy restore` brings it back.
* **Attribution.**  `sweepOwners` stamps `ownerLast` "so the throttle holds", but the
  throttle is asked only after a miss: once a snapshot has expired and `lsof` lists
  nothing, `ownerAt` stays and every lookup sweeps, under the mutex.  `runLsof` never
  returns an error, so that path is never taken.  Ports are the key although two
  addresses may have one each: the process listed last is named.
* **View.**  Zoom finds a group by its display name, which two paths may share, and rates
  are divided by the interval that was asked for rather than the one that passed.  A sort
  or a sample moves what the tree's cursor is on, which is a position; folding a process
  from one of its connections may leave the cursor below the last row until a key moves it
  or the next sample puts it at the top.  A dashboard whose app has gone says "terminal too small".
* **Inspection.**  A read that fails after data leaves no words in the pane:
  `noContentReason` returns nothing because "the verdict line already states" it
  (`tui/inspect.go:129`), and the verdict is about the data.  Packets of the whole host,
  or of the interface when no filter could be installed, use up the 256 that are read and
  count as "seen", which `inspect.go:65` calls "TCP packets on this flow".  A TLS flow on
  an unknown port that is captured from the middle of a record is called cleartext, for
  only leading bytes are looked at.  `i` on a UDP row captures TCP, and may show another
  flow of the same endpoint; so does `i` on any flow, for `inspect.go:84` and `:93` compare the remote
  endpoint alone: what another process exchanges with it is shown, and may name it.
* **Captured messages.**  `sameProc` compares paths if both messages have one, else names:
  `/a/python`, then `python` without a path, then `/b/python` share a buffer, as the
  comment above it (`egressmodel.go:325-328`) accepts.  Whether a pid was used again is asked when a message comes: until
  then the former owner's messages are shown under the new one.
