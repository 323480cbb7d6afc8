-------------------------------- MODULE Owner --------------------------------
(***************************************************************************)
(* Owner attribution (portOwner): which process opened the connection that *)
(* came from a local port.  lsof lists every process's connections; its    *)
(* answer is kept as a map from ports to processes, which serves lookups   *)
(* for OwnerTTL, and a miss makes a new sweep if the last one was more     *)
(* than OwnerMinRefresh ago.  Lookups hold a mutex, through a sweep too.   *)
(*                                                                         *)
(* Time is counted in seconds, of which OwnerMinRefresh is a fraction.     *)
(* The path that proc_pidpath adds to what lsof says is left out.          *)
(***************************************************************************)
EXTENDS Naturals

CONSTANTS Askers,           \* the goroutines that look up an owner
          Ports,            \* local ports, which are used again
          Processes, Self,  \* the proxy is one of them
          Nobody,
          OwnerTTL,         \* ownerTTL
          OwnerMinRefresh,  \* ownerMinRefresh
          LsofTimeout,      \* lsofTimeout
          OwnerFaults       \* a subset of {"cut"}: lsof ends having listed only a part

ASSUME OwnerAssumption ==
    /\ Self \in Processes /\ Nobody \notin Processes
    /\ OwnerTTL \in Nat /\ OwnerMinRefresh \in 0 .. OwnerTTL /\ LsofTimeout \in Nat
    /\ OwnerFaults \subseteq {"cut"}

VARIABLES sockets,     \* the machine: who has an established connection from which port
          seconds,     \* the clock
          ownerMap,    \* ownerMap, the ports it does not know left out
          swept,       \* ownerMap # nil
          ownerAt,     \* when it was stored
          ownerLast,   \* when a sweep was last begun
          sweep,       \* the sweep in progress, by the goroutine that holds ownerMu
          clientPort,  \* where each connection comes from
          answer,      \* what its lookup returned; recent and failed are history
          past         \* history: when a process last gave up a port

sweepVars == <<ownerMap, swept, ownerAt, ownerLast, sweep>>
machineVars == <<sockets, past>>
ownerVars == <<sockets, seconds, sweepVars, clientPort, answer, past>>

\* The maps that parseLsofPorts returns: what the proxy itself holds is not in them.
Owners == UNION {[D -> Processes \ {Self}] : D \in SUBSET Ports}
NoOwners == [p \in {} |-> Nobody]

NoSweep == [by |-> Nobody, stage |-> "none", why |-> "none", found |-> NoOwners, some |-> FALSE]
NoAnswer == [owner |-> Nobody, recent |-> TRUE, failed |-> FALSE]

OwnerTypeOK ==
    /\ sockets \subseteq Ports \X Processes /\ seconds \in Nat
    /\ ownerMap \in Owners /\ swept \in BOOLEAN
    /\ ownerAt \in Nat /\ ownerLast \in Nat
    /\ sweep.by \in Askers \cup {Nobody} /\ sweep.stage \in {"none", "lsof", "listed"}
    /\ sweep.why \in {"none", "expired", "missed"}
    /\ sweep.found \in Owners /\ sweep.some \in BOOLEAN
    /\ clientPort \in [Askers -> Ports]
    /\ answer \in [Askers -> [owner : Processes \cup {Nobody}, recent : BOOLEAN,
                              failed : BOOLEAN]]
    /\ past \subseteq Ports \X Processes \X Nat

\* Whom lsof may list for each port; of several the last counts.
Holders(p) == {q \in Processes \ {Self} : <<p, q>> \in sockets}

Listed == {m \in Owners : \A p \in DOMAIN m : m[p] \in Holders(p)}

Listings == IF "cut" \in OwnerFaults THEN Listed
            ELSE {m \in Listed : \A p \in Ports : Holders(p) # {} => p \in DOMAIN m}

\* The program has just begun, or has just looked.
OwnerInit ==
    /\ sockets \in SUBSET (Ports \X Processes)
    /\ seconds = 0 /\ ownerAt = 0 /\ ownerLast = 0
    /\ swept \in BOOLEAN
    /\ ownerMap \in IF swept THEN Listings ELSE {NoOwners}
    /\ sweep = NoSweep
    /\ clientPort \in [Askers -> Ports]
    /\ answer = [c \in Askers |-> NoAnswer]
    /\ past = {}

-----------------------------------------------------------------------------
(* The machine. *)

Opens(p, q) == /\ q # Self /\ <<p, q>> \notin sockets
               /\ sockets' = sockets \cup {<<p, q>>}
               /\ UNCHANGED <<seconds, sweepVars, clientPort, answer, past>>

Closes(p, q) == /\ q # Self /\ <<p, q>> \in sockets
                /\ sockets' = sockets \ {<<p, q>>}
                /\ past' = {h \in past : h[1] # p \/ h[2] # q} \cup {<<p, q, seconds>>}
                /\ UNCHANGED <<seconds, sweepVars, clientPort, answer>>

\* lsof is killed when it takes too long.
SecondPasses == /\ sweep.stage = "none" \/ seconds - ownerLast < LsofTimeout
                /\ seconds' = seconds + 1
                /\ UNCHANGED <<sweepVars, clientPort, answer, machineVars>>

-----------------------------------------------------------------------------
(* portOwner. *)

Expired == ~swept \/ seconds - ownerAt > OwnerTTL
MaySweep == seconds - ownerLast > OwnerMinRefresh
Knows(map, c) == clientPort[c] \in DOMAIN map

LockFree == sweep.stage = "none"

\* sweepOwners as far as the call of lsof.
BeginSweep(c, why) ==
    /\ sweep' = [NoSweep EXCEPT !.by = c, !.stage = "lsof", !.why = why]
    /\ ownerLast' = seconds

\* A lookup that needs a sweep takes the mutex.
LookUp(c) ==
    /\ LockFree
    /\ \/ Expired /\ BeginSweep(c, "expired")
       \/ ~Expired /\ ~Knows(ownerMap, c) /\ MaySweep /\ BeginSweep(c, "missed")
    /\ UNCHANGED <<machineVars, seconds, ownerMap, swept, ownerAt, clientPort, answer>>

\* The process held the port at a moment that the snapshot may be from.
Recent(p, q) ==
    \/ <<p, q>> \in sockets
    \/ \E h \in past : h[1] = p /\ h[2] = q /\ seconds - h[3] <= OwnerTTL + LsofTimeout

Answer(c, map, failed) ==
    LET p == clientPort[c] IN
    answer' = [answer EXCEPT ![c] =
                  IF Knows(map, c)
                  THEN [owner |-> map[p], recent |-> Recent(p, map[p]), failed |-> failed]
                  ELSE [owner |-> Nobody, recent |-> TRUE, failed |-> failed]]

\* One that needs none.
AnswerKnown(c) ==
    /\ LockFree /\ ~Expired
    /\ Knows(ownerMap, c) \/ ~MaySweep
    /\ Answer(c, ownerMap, FALSE)
    /\ UNCHANGED <<machineVars, seconds, sweepVars, clientPort>>

\* runLsof, whose error is never one: whatever it printed is the listing.  There may be
\* connections from other ports.
RunLsof(c) ==
    /\ sweep.by = c /\ sweep.stage = "lsof"
    /\ \E m \in Listings, some \in BOOLEAN :
          /\ DOMAIN m # {} => some
          /\ some \/ "cut" \in OwnerFaults \/ \A p \in Ports : Holders(p) = {}
          /\ sweep' = [sweep EXCEPT !.stage = "listed", !.found = m, !.some = some]
    /\ UNCHANGED <<machineVars, seconds, ownerMap, swept, ownerAt, ownerLast, clientPort, answer>>

\* Mutant of StoreSweep: an empty listing renews the map that is kept.
StoreSweepRenews ==
    /\ ownerMap' = IF sweep.some \/ ~swept THEN sweep.found ELSE ownerMap
    /\ ownerAt' = seconds
    /\ swept' = TRUE

\* An empty listing keeps the map, unless it is the first.
StoreSweep ==
    /\ IF sweep.some \/ ~swept THEN ownerMap' = sweep.found /\ ownerAt' = seconds
                               ELSE UNCHANGED <<ownerMap, ownerAt>>
    /\ swept' = TRUE

SweepEnds(c) == /\ sweep.by = c /\ sweep.stage = "listed"
                /\ StoreSweep
                /\ UNCHANGED <<machineVars, seconds, clientPort>>

\* Still a miss, and the sweep itself took so long that another one may begin.
SweepAgain(c) == /\ SweepEnds(c)
                 /\ sweep.why = "expired" /\ ~Knows(ownerMap', c) /\ MaySweep
                 /\ BeginSweep(c, "missed")
                 /\ UNCHANGED answer

AnswerSwept(c) == /\ SweepEnds(c)
                  /\ sweep.why = "missed" \/ Knows(ownerMap', c) \/ ~MaySweep
                  /\ Answer(c, ownerMap', ~sweep.some)
                  /\ sweep' = NoSweep /\ UNCHANGED ownerLast

-----------------------------------------------------------------------------
(* Properties. *)

\* Ports are used again, so who is named may not be who connected.  But it is never the
\* proxy, which holds the other ends, and it is a process that held the port while the
\* snapshot may have been taken, at most OwnerTTL and the time of a sweep ago, unless the
\* sweep that this lookup made brought nothing ("stale attribution beats none").
OwnerIsRecent ==
    \A c \in Askers : /\ answer[c].owner # Self
                      /\ answer[c].recent \/ answer[c].failed
=============================================================================
