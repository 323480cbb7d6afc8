-------------------------------- MODULE Proxy --------------------------------
(***************************************************************************)
(* The intercepting proxy: the connections of Tunnel, each attributed to   *)
(* the process that opened it (Owner) before it is numbered.               *)
(***************************************************************************)
EXTENDS Tunnel, Owner

CONSTANT Loads   \* what happens: the sockets there may be at first, whether clients send
                 \* CONNECT, and as bounds the sockets that are opened or closed and the
                 \* seconds that pass

ASSUME ProxyAssumption ==
    /\ Conns \subseteq Askers
    /\ Loads \subseteq [sockets : SUBSET SUBSET (Ports \X Processes), connects : BOOLEAN,
                        moves : Nat, seconds : Nat]

VARIABLES load,   \* the one that it is
          moves   \* the sockets opened or closed so far

proxyVars == <<vars, ownerVars, load, moves>>

ProxyInit == /\ Init /\ OwnerInit
             /\ load \in Loads /\ sockets \in load.sockets /\ moves = 0
             \* Without moves every port's owner is known.
             /\ load.moves > 0 \/ (swept /\ DOMAIN ownerMap = Ports)

\* A process other than the proxy connects.
AcceptFrom(c) == /\ Holders(clientPort[c]) # {}
                 /\ Accept(c) /\ UNCHANGED <<ownerVars, load, moves>>

\* Proxy.owner, as long as it needs a sweep ...
Attribute(c) == /\ At(c, "identify")
                /\ LookUp(c) \/ RunLsof(c) \/ SweepAgain(c)
                /\ UNCHANGED <<vars, load, moves>>

\* ... and with what it returns the connection gets its number.
Identify(c) == /\ AnswerKnown(c) \/ AnswerSwept(c)
               /\ NextConnID(c) /\ UNCHANGED <<load, moves>>

Continue(c) == /\ ~At(c, "identify") /\ Handle(c)
               /\ load.connects \/ target' = target
               /\ UNCHANGED <<ownerVars, load, moves>>

ProxyHandle(c) == Attribute(c) \/ Identify(c) \/ Continue(c)

\* Ports are given up and taken.
Move == /\ moves < load.moves /\ moves' = moves + 1
        /\ \E p \in Ports, q \in Processes : Opens(p, q) \/ Closes(p, q)
        /\ UNCHANGED <<vars, load>>

Second == /\ seconds < load.seconds /\ SecondPasses
          /\ UNCHANGED <<vars, load, moves>>

\* What happens to a connection on its way; panics are tried where it has a way to go.
Goes(c) == /\ load.connects
           /\ PeerStep(c) \/ RelayOpaque(c) \/ Panic(c)
           /\ UNCHANGED <<ownerVars, load, moves>>

\* Leaves age only where there are leaves.
Days == /\ load.connects /\ Tick
        /\ UNCHANGED <<tunnelVars, ownerVars, load, moves>>

\* No connection is under way, and none may come.
Quiet == (\A c \in Conns : handler[c] \in {"idle", "done"}) /\ UNCHANGED proxyVars

ProxyNext ==
    \/ \E c \in Conns : AcceptFrom(c) \/ ProxyHandle(c) \/ Goes(c)
    \/ Days
    \/ Move \/ Second
    \/ Quiet

\* Besides what Tunnel's fairness rests on: lsof has a deadline, and whoever holds the
\* mutex goes on.
ProxyIsFair(c) == WF_proxyVars(ProxyHandle(c))

ProxySpec == ProxyInit /\ [][ProxyNext]_proxyVars /\ \A c \in Conns : ProxyIsFair(c)
=============================================================================
