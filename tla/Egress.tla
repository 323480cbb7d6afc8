------------------------------- MODULE Egress -------------------------------
(***************************************************************************)
(* The egress monitor (internal/egress): each sample runs nettop, lsof and *)
(* ps one after another while the machine goes on, joins what the three    *)
(* saw, and turns cumulative byte counters into rates, histories and       *)
(* concern.  Rates are bytes per sample: the interval the code divides by  *)
(* is a constant.  Only the outbound series is modelled; the code treats   *)
(* the inbound one alike.                                                  *)
(***************************************************************************)
EXTENDS NameCache, Integers

CONSTANTS Pids, Paths,
          NoPath,      \* what ps did not tell
          Own,         \* counterspy's own binary, or its intercept daemon's
          Sockets,     \* the sockets processes may open: [pid, ip, proto]
          TrustOf, CapsOf,   \* of a path, the label and the capabilities
          Background,  \* the paths outside an app bundle
          Start,       \* what runs and is open when the console starts
          SparkLen,    \* sparkLen
          Sustained    \* sustainedBytesPerSec

ASSUME EgressAssumption ==
    /\ Own \in Paths /\ NoPath \notin Paths
    /\ Background \subseteq Paths
    /\ \A m \in Start : /\ m.proc \in [Pids -> Paths \cup {NoPath}]
                      /\ m.open \subseteq {s \in Sockets : m.proc[s.pid] # NoPath}
    /\ IsFiniteSet(Sockets) /\ \A s \in Sockets : s.pid \in Pids /\ s.ip \in IPs
    /\ TrustOf \in [Paths \cup {NoPath} ->
                       {"unsigned", "unknown", "revoked", "signed", "notarized", "apple"}]
    /\ SparkLen \in Nat \ {0} /\ Sustained \in Nat \ {0}

VARIABLES proc,      \* the binary that runs under each pid
          procOut,   \* nettop's counter of each process
          sockOut,   \* nettop's counter of each socket; -1: not open
          recent,    \* history: the bytes sent under each pid, and on each connection,
                     \* since the latest nettop
          stage,     \* what the monitor's goroutine does next
          snap,      \* the output of nettop, with history's recent of that moment
          conns,     \* the sockets lsof listed
          prev, prevConn,             \* Monitor.prev, prevConn
          spark, sparkPID, sparkConn, \* Monitor.spark, sparkPID, sparkConn
          age,       \* history: for how many samples in a row each of them was live
          shown      \* the groups of the latest sample

machineVars == <<proc, procOut, sockOut, recent>>
monitorVars == <<snap, conns, prev, prevConn, spark, sparkPID, sparkConn, age, shown>>
egressVars == <<machineVars, monitorVars, stage>>

\* connKey: the two protocols to one address share a key.
Key(s) == <<s.pid, s.ip>>
Keys == {Key(s) : s \in Sockets}
OfKey(k) == {s \in Sockets : Key(s) = k}
Open(S) == {s \in S : sockOut[s] # -1}

None == << >>   \* the empty map

EgressTypeOK ==
    /\ proc \in [Pids -> Paths \cup {NoPath}]
    /\ procOut \in [Pids -> Nat]
    /\ sockOut \in [Sockets -> Nat \cup {-1}]
    /\ recent \in [pid : [Pids -> Nat], conn : [Keys -> Nat]]
    /\ stage \in {"idle", "nettop", "lsof", "ps", "post"}
    /\ conns \subseteq Sockets
    /\ DOMAIN prev \subseteq Pids /\ DOMAIN prevConn \subseteq Keys
    /\ DOMAIN sparkPID \subseteq Pids /\ DOMAIN sparkConn \subseteq Keys
    /\ LET Rings(r) == \A k \in DOMAIN r : r[k] \in Seq(Nat) /\ Len(r[k]) <= SparkLen
       IN  Rings(spark) /\ Rings(sparkPID) /\ Rings(sparkConn)

\* The console comes to a machine on which processes run and have sent something.
EgressInit ==
    /\ \E m \in Start : /\ proc = m.proc
                       /\ sockOut = [s \in Sockets |-> IF s \in m.open THEN 1 ELSE -1]
    /\ procOut = [p \in Pids |-> 1]
    /\ recent = [pid |-> [p \in Pids |-> 0], conn |-> [k \in Keys |-> 0]]
    /\ stage = "idle"
    /\ snap = [procs |-> None, conns |-> None, recent |-> recent] /\ conns = {}
    /\ prev = None /\ prevConn = None
    /\ spark = None /\ sparkPID = None /\ sparkConn = None
    /\ age = [app |-> None, pid |-> None, conn |-> None]
    /\ shown = None

-----------------------------------------------------------------------------
(* The machine: processes come and go, and pids are used again. *)

Exec(p, path) ==
    /\ proc[p] = NoPath
    /\ proc' = [proc EXCEPT ![p] = path]
    /\ procOut' = [procOut EXCEPT ![p] = 0]
    /\ UNCHANGED <<sockOut, recent>>

Exit(p) ==
    /\ proc[p] # NoPath
    /\ proc' = [proc EXCEPT ![p] = NoPath]
    /\ sockOut' = [s \in Sockets |-> IF s.pid = p THEN -1 ELSE sockOut[s]]
    /\ UNCHANGED <<procOut, recent>>

Connect(s) ==
    /\ proc[s.pid] # NoPath /\ sockOut[s] = -1
    /\ sockOut' = [sockOut EXCEPT ![s] = 0]
    /\ UNCHANGED <<proc, procOut, recent>>

Disconnect(s) ==
    /\ sockOut[s] # -1
    /\ sockOut' = [sockOut EXCEPT ![s] = -1]
    /\ UNCHANGED <<proc, procOut, recent>>

Send(s) ==
    /\ sockOut[s] # -1
    /\ sockOut' = [sockOut EXCEPT ![s] = @ + 1]
    /\ procOut' = [procOut EXCEPT ![s.pid] = @ + 1]
    /\ recent' = [recent EXCEPT !.pid[s.pid] = @ + 1, !.conn[Key(s)] = @ + 1]
    /\ UNCHANGED proc

Alone(event) == event /\ UNCHANGED <<monitorVars, stage>>

Exits == Alone(\E p \in Pids : Exit(p))
Closes == Alone(\E s \in Sockets : Disconnect(s))
Activity == Alone(\/ \E p \in Pids, path \in Paths : Exec(p, path)
                  \/ \E s \in Sockets : Connect(s) \/ Send(s))

-----------------------------------------------------------------------------
(* Monitor.Sample *)

\* ParseNettop: a row for each process.
ProcTotals == LET running == {p \in Pids : proc[p] # NoPath} IN [p \in running |-> procOut[p]]

\* ParseNettopConns: sockets that share a key are added up.
ConnTotals ==
    [k \in {Key(s) : s \in Open(Sockets)} |->
        MapThenSumSet(LAMBDA s : sockOut[s], Open(OfKey(k)))]

\* ParseLsofConns
Listed == Open(Sockets)

\* nettop; an error leaves its output empty.
Nettop(ok) ==
    /\ stage = "nettop"
    /\ snap' = [procs |-> IF ok THEN ProcTotals ELSE None,
                conns |-> IF ok THEN ConnTotals ELSE None,
                recent |-> recent]
    /\ recent' = [pid |-> [p \in Pids |-> 0], conn |-> [k \in Keys |-> 0]]
    /\ stage' = "lsof"
    /\ UNCHANGED <<proc, procOut, sockOut, conns, prev, prevConn, spark, sparkPID, sparkConn,
                   age, shown>>

\* lsof; likewise.
Lsof(ok) ==
    /\ stage = "lsof"
    /\ conns' = IF ok THEN Listed ELSE {}
    /\ stage' = "ps"
    /\ UNCHANGED <<machineVars, snap, prev, prevConn, spark, sparkPID, sparkConn, age, shown>>

\* A map's entry, or the zero value of Go.
At(f, k) == IF k \in DOMAIN f THEN f[k] ELSE 0
Ring(f, k) == IF k \in DOMAIN f THEN f[k] ELSE << >>

\* RateOut: a counter that was reset gives no rate.
RateOut(was, now) == IF now < was THEN 0 ELSE now - was

\* Mutant of Rate: everything a process ever sent is put down to its first sample.
RateFromZero(base, now, k) == RateOut(At(base, k), At(now, k))

\* The rate of k: none without a base from the sample before.
Rate(base, now, k) == IF k \in DOMAIN base THEN RateOut(base[k], At(now, k)) ELSE 0

Push(ring, rate) == LET r == Append(ring, rate) IN
                    IF Len(r) > SparkLen THEN Tail(r) ELSE r

\* Mutant of Advance: the histories of what is gone are kept.
AdvanceUnpruned(rings, rates) ==
    [k \in DOMAIN rings \cup DOMAIN rates |->
        IF k \in DOMAIN rates THEN Push(Ring(rings, k), rates[k]) ELSE rings[k]]

\* Every live history grows by one rate, and the others are pruned.
Advance(rings, rates) == [k \in DOMAIN rates |-> Push(Ring(rings, k), rates[k])]

Older(ages, live) == [k \in live |-> Min({At(ages, k) + 1, SparkLen})]

\* Concern's levels.
Minimal == 0
Low == 1
Notable == 2
Elevated == 3

Band(score) == IF score >= 4 THEN Elevated ELSE IF score >= 3 THEN Notable
               ELSE IF score >= 1 THEN Low ELSE Minimal

Untrusted(g) == g.trust \in {"unsigned", "unknown", "revoked"}
Uploading(g) == g.rate >= Sustained /\ g.background
AllRawIP(g) == \A d \in DOMAIN g.dests : g.dests[d] = Blank

ConcernScore(g) ==
    (IF Untrusted(g) THEN 2 ELSE IF g.trust = "signed" THEN 1 ELSE 0)
    + (IF Uploading(g) THEN 2 ELSE 0)
    + (IF (Untrusted(g) \/ Uploading(g)) /\ DOMAIN g.dests # {} /\ AllRawIP(g) THEN 1 ELSE 0)

Concern(g) == Band(ConcernScore(g))

Exfil(g) == IF g.caps = {} THEN Minimal
            ELSE Band(ConcernScore(g) + IF Uploading(g) THEN 1 ELSE 0)

Total(rate, members) == MapThenSumSet(LAMBDA p : rate[p], members)

\* Aggregate for one app, with the names of its destinations resolved.
Group(path, members, rate, flows) ==
    [path |-> path, trust |-> TrustOf[path],
     caps |-> IF path = NoPath THEN {} ELSE CapsOf[path],
     background |-> path = NoPath \/ path \in Background,
     members |-> [p \in members |-> rate[p]],
     rate |-> Total(rate, members),
     conns |-> flows,
     dests |-> [ip \in {s.ip : s \in DOMAIN flows} |-> Lookup(ip)]]

\* Processes are grouped by binary; one without a path is a group of its own.
AppOf(path, p) == IF path[p] = NoPath THEN p ELSE path[p]

\* ps, which may tell nothing of a process; then everything Sample computes.
Ps(ok) ==
    /\ stage = "ps"
    /\ LET path == IF ok THEN proc ELSE [p \in Pids |-> NoPath]
           keys == {Key(s) : s \in conns}
           live == {p \in Pids : path[p] # Own /\ \E s \in conns : s.pid = p}
           apps == {AppOf(path, p) : p \in live}
           rate == [p \in live |-> Rate(prev, snap.procs, p)]
           connRate == [k \in keys |-> Rate(prevConn, snap.conns, k)]
           Members(a) == {p \in live : AppOf(path, p) = a}
           groups == [a \in apps |->
                        Group(IF a \in Paths THEN a ELSE NoPath, Members(a), rate,
                              [s \in {c \in conns : c.pid \in Members(a)} |-> connRate[Key(s)]])]
       IN  /\ sparkConn' = Advance(sparkConn, connRate)
           /\ sparkPID' = Advance(sparkPID, rate)
           /\ spark' = Advance(spark, [a \in apps |-> groups[a].rate])
           /\ age' = [app |-> Older(age.app, apps), pid |-> Older(age.pid, live),
                      conn |-> Older(age.conn, keys)]
           /\ shown' = groups
    /\ prev' = snap.procs /\ prevConn' = snap.conns
    /\ stage' = "post"
    /\ UNCHANGED <<machineVars, snap, conns>>

Sample(ok) == Nettop(ok) \/ Lsof(ok) \/ Ps(ok)

-----------------------------------------------------------------------------
(* Properties. *)

\* A rate never includes what was sent before the sample before: not the history
\* of a process seen for the first time, not the counter of a pid's former owner,
\* and nothing huge when a counter starts again or a tool gave no output.
RateIsRecent ==
    stage = "post" =>
        /\ \A a \in DOMAIN shown : \A p \in DOMAIN shown[a].members :
              shown[a].members[p] <= snap.recent.pid[p]
        /\ \A k \in DOMAIN sparkConn : LET r == sparkConn[k] IN r[Len(r)] <= snap.recent.conn[k]

\* Every history has one entry per sample since its subject appeared, however many
\* sockets share its key, the last one is the rate on show, and a subject that was
\* gone for a sample has lost its past.
RingsInStep ==
    /\ DOMAIN spark = DOMAIN shown /\ DOMAIN age.app = DOMAIN shown
    /\ DOMAIN sparkPID = UNION {DOMAIN shown[a].members : a \in DOMAIN shown}
    /\ DOMAIN age.pid = DOMAIN sparkPID /\ DOMAIN age.conn = DOMAIN sparkConn
    /\ \A a \in DOMAIN spark : /\ Len(spark[a]) = age.app[a]
                               /\ spark[a][Len(spark[a])] = shown[a].rate
    /\ \A p \in DOMAIN sparkPID : Len(sparkPID[p]) = age.pid[p]
    /\ \A k \in DOMAIN sparkConn : Len(sparkConn[k]) = age.conn[k]
=============================================================================
