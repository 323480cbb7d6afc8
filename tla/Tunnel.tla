------------------------------- MODULE Tunnel -------------------------------
(***************************************************************************)
(* The proxy's connections (Proxy.Serve, handle and pump): each accepted   *)
(* connection is identified, names its target with CONNECT, and is then    *)
(* either blind-relayed (a client that speaks only h2) or terminated with  *)
(* a leaf of the CA and relayed with capture.  Whatever goes wrong is told *)
(* by one connection-level event (Seq 0) and closes the connection.        *)
(*                                                                         *)
(* The leaf comes from LeafCache; the relay with capture is the module     *)
(* Pump, of which only the ends and the opaque event are seen here.        *)
(***************************************************************************)
EXTENDS LeafCache

CONSTANT NoName   \* the client sent no SNI

VARIABLES handler,   \* where the goroutine of each connection is
          target,    \* the name in its CONNECT
          connID,    \* its number; 0 before nextConnID
          connSeq,   \* Proxy.connSeq
          client,    \* its connection from the client
          upstream,  \* its connection to the target
          told,      \* the Seq-0 events published of it
          pinned,    \* history: the leaf the client refused, if it refused one
          excuse     \* history: why it ended without an event, "none" if it did not

tunnelVars == <<handler, target, connID, connSeq, client, upstream, told, pinned, excuse>>
vars == <<leafVars, tunnelVars>>

Handler == {"idle", "identify", "connect", "establish", "peek", "record", "bypassDial",
            "bypass", "hello", "handshake", "dial", "relay", "done"}
Socket == {"none", "open", "closed"}
Status == {"error", "opaque", "pinned"}

TypeOK ==
    /\ LeafTypeOK
    /\ handler \in [Conns -> Handler]
    /\ target \in [Conns -> Names \cup {NoName}]
    /\ connID \in [Conns -> Nat]
    /\ connSeq \in Nat
    /\ client \in [Conns -> Socket]
    /\ upstream \in [Conns -> Socket]
    /\ \A c \in Conns : told[c] \in Seq(Status)
    /\ pinned \in [Conns -> Leaf \cup {NoLeaf}]
    /\ excuse \in [Conns -> {"none", "relayed", "gone", "panic"}]

Init == /\ LeafInit
        /\ handler = [c \in Conns |-> "idle"]
        /\ target = [c \in Conns |-> NoName]
        /\ connID = [c \in Conns |-> 0]
        /\ connSeq = 0
        /\ client = [c \in Conns |-> "none"]
        /\ upstream = [c \in Conns |-> "none"]
        /\ told = [c \in Conns |-> << >>]
        /\ pinned = [c \in Conns |-> NoLeaf]
        /\ excuse = [c \in Conns |-> "none"]

At(c, s) == handler[c] = s
Goto(c, s) == handler' = [handler EXCEPT ![c] = s]
Tell(c, status) == told' = [told EXCEPT ![c] = Append(@, status)]
CloseClient(c) == client' = [client EXCEPT ![c] = "closed"]
Excuse(c, why) == excuse' = [excuse EXCEPT ![c] = why]

-----------------------------------------------------------------------------

\* Serve: the listener gives a connection.
Accept(c) ==
    /\ At(c, "idle") /\ Goto(c, "identify")
    /\ client' = [client EXCEPT ![c] = "open"]
    /\ UNCHANGED <<leafVars, target, connID, connSeq, upstream, told, pinned, excuse>>

\* nextConnID, after the owner of the client's port was looked up.
NextConnID(c) ==
    /\ At(c, "identify") /\ Goto(c, "connect")
    /\ connSeq' = connSeq + 1
    /\ connID' = [connID EXCEPT ![c] = connSeq + 1]
    /\ UNCHANGED <<leafVars, target, client, upstream, told, pinned, excuse>>

\* readConnect: a target, or no CONNECT within the deadline.
ReadConnect(c) ==
    /\ At(c, "connect")
    /\ \/ /\ \E n \in Names : target' = [target EXCEPT ![c] = n]
          /\ Goto(c, "establish")
          /\ UNCHANGED <<client, told>>
       \/ /\ Tell(c, "error") /\ CloseClient(c) /\ Goto(c, "done")
          /\ UNCHANGED target
    /\ UNCHANGED <<leafVars, connID, connSeq, upstream, pinned, excuse>>

\* The 200 is written; a client that is gone is not reported.
Establish(c) ==
    /\ At(c, "establish")
    /\ \/ Goto(c, "peek") /\ UNCHANGED <<client, excuse>>
       \/ CloseClient(c) /\ Excuse(c, "gone") /\ Goto(c, "done")
    /\ UNCHANGED <<leafVars, target, connID, connSeq, upstream, told, pinned>>

\* isH2Only: within the deadline the header of a TLS record comes, or it does not.
Peek(c) ==
    /\ At(c, "peek")
    /\ Goto(c, "record") \/ Goto(c, "hello")
    /\ UNCHANGED <<leafVars, target, connID, connSeq, client, upstream, told, pinned, excuse>>

\* The client sends the rest of the record, or closes: the deadline was cleared.
PeekRecord(c) ==
    /\ At(c, "record")
    /\ \/ Tell(c, "opaque") /\ Goto(c, "bypassDial")
       \/ Goto(c, "hello") /\ UNCHANGED told
    /\ UNCHANGED <<leafVars, target, connID, connSeq, client, upstream, pinned, excuse>>

\* bypass.
BypassDial(c) ==
    /\ At(c, "bypassDial")
    /\ \/ /\ upstream' = [upstream EXCEPT ![c] = "open"] /\ Goto(c, "bypass")
          /\ UNCHANGED client
       \/ /\ CloseClient(c) /\ Goto(c, "done")
          /\ UNCHANGED upstream
    /\ UNCHANGED <<leafVars, target, connID, connSeq, told, pinned, excuse>>

\* Both copies have ended: their reads have a deadline, their writes have none.
BypassDone(c) ==
    /\ At(c, "bypass") /\ Goto(c, "done")
    /\ CloseClient(c) /\ upstream' = [upstream EXCEPT ![c] = "closed"]
    /\ UNCHANGED <<leafVars, target, connID, connSeq, told, pinned, excuse>>

\* terminateTLS: no ClientHello comes, or one that is not TLS ...
NoHello(c) ==
    /\ At(c, "hello")
    /\ Tell(c, "opaque") /\ CloseClient(c) /\ Goto(c, "done")
    /\ UNCHANGED <<leafVars, target, connID, connSeq, upstream, pinned, excuse>>

\* ... or one for the name the client asks for, or without a name.
Hello(c) ==
    /\ At(c, "hello") /\ Goto(c, "handshake")
    /\ \E sni \in Names \cup {NoName} : LeafFor(c, IF sni = NoName THEN target[c] ELSE sni)
    /\ UNCHANGED <<target, connID, connSeq, client, upstream, told, pinned, excuse>>

\* The handshake failed: because of us, or because the client refused the leaf.
Refused(c) ==
    \/ leaf[c] = NoLeaf /\ Tell(c, "error") /\ UNCHANGED pinned
    \/ leaf[c] # NoLeaf /\ Tell(c, "pinned") /\ pinned' = [pinned EXCEPT ![c] = leaf[c]]

\* Mutant of Handshake: it waits for a leaf although none could be minted.
HandshakeWaits(c) ==
    /\ At(c, "handshake") /\ call[c] = "return" /\ leaf[c] # NoLeaf
    /\ \/ Goto(c, "dial") /\ UNCHANGED <<client, told, pinned>>
       \/ Refused(c) /\ CloseClient(c) /\ Goto(c, "done")
    /\ EndCall(c)
    /\ UNCHANGED <<target, connID, connSeq, upstream, excuse>>

Handshake(c) ==
    /\ At(c, "handshake") /\ call[c] = "return"
    /\ \/ leaf[c] # NoLeaf /\ Goto(c, "dial") /\ UNCHANGED <<client, told, pinned>>
       \/ Refused(c) /\ CloseClient(c) /\ Goto(c, "done")
    /\ EndCall(c)
    /\ UNCHANGED <<target, connID, connSeq, upstream, excuse>>

\* Mutant of Dial: the failure is not told.
DialSilent(c) ==
    /\ At(c, "dial")
    /\ \/ /\ upstream' = [upstream EXCEPT ![c] = "open"] /\ Goto(c, "relay")
          /\ UNCHANGED client
       \/ /\ CloseClient(c) /\ Goto(c, "done")
          /\ UNCHANGED upstream
    /\ UNCHANGED <<leafVars, target, connID, connSeq, told, pinned, excuse>>

\* The target is dialled and its certificate verified.
Dial(c) ==
    /\ At(c, "dial")
    /\ \/ /\ upstream' = [upstream EXCEPT ![c] = "open"] /\ Goto(c, "relay")
          /\ UNCHANGED <<client, told>>
       \/ /\ Tell(c, "error") /\ CloseClient(c) /\ Goto(c, "done")
          /\ UNCHANGED upstream
    /\ UNCHANGED <<leafVars, target, connID, connSeq, pinned, excuse>>

\* runRelay: markOpaque, at most once.
RelayOpaque(c) ==
    /\ At(c, "relay") /\ told[c] = << >>
    /\ Tell(c, "opaque")
    /\ UNCHANGED <<leafVars, handler, target, connID, connSeq, client, upstream, pinned, excuse>>

RelayDone(c) ==
    /\ At(c, "relay") /\ Goto(c, "done")
    /\ CloseClient(c) /\ upstream' = [upstream EXCEPT ![c] = "closed"]
    /\ Excuse(c, "relayed")
    /\ UNCHANGED <<leafVars, target, connID, connSeq, told, pinned>>

\* handle recovers a panic of what it runs on bytes from the client.
Panic(c) ==
    /\ handler[c] \in {"connect", "record", "handshake"}
    /\ CloseClient(c) /\ Goto(c, "done") /\ Excuse(c, "panic")
    /\ EndCall(c)
    /\ UNCHANGED <<target, connID, connSeq, upstream, told, pinned>>

-----------------------------------------------------------------------------

\* What a handler does by itself, or within a deadline, ...
Handle(c) == \/ NextConnID(c) \/ ReadConnect(c) \/ Establish(c) \/ Peek(c)
             \/ BypassDial(c) \/ NoHello(c) \/ Hello(c)
             \/ (LeafStep(c) /\ UNCHANGED tunnelVars)
             \/ Handshake(c) \/ Dial(c)

\* ... and where it waits for its client or its upstream to send or to read, without one.
WaitsForPeer(c) == handler[c] \in {"record", "bypass", "relay"}

PeerStep(c) == PeekRecord(c) \/ BypassDone(c) \/ RelayDone(c)

\* Once every connection was accepted and has ended nothing is left to do.
Finished == (\A c \in Conns : At(c, "done")) /\ UNCHANGED vars

Next == \/ \E c \in Conns : \/ Accept(c) \/ Handle(c) \/ PeerStep(c)
                             \/ RelayOpaque(c) \/ Panic(c)
        \/ (Tick /\ UNCHANGED tunnelVars)
        \/ Finished

(***************************************************************************)
(* CONNECT, the header of the first record, the handshake and the dials    *)
(* have a deadline, and nobody holds LeafFor's mutex across a wait.  The   *)
(* rest of that record has none, nor have the writes of the copies: the    *)
(* peers' steps are not fair.                                              *)
(***************************************************************************)
HandlerIsFair(c) == WF_vars(Handle(c))

Spec == Init /\ [][Next]_vars /\ \A c \in Conns : HandlerIsFair(c)

-----------------------------------------------------------------------------
(* Properties. *)

\* handle: "the console must SHOW that something arrived and could not be
\* handled".  A connection that ended has exactly one Seq-0 event of its own, or
\* was relayed (with at most one), or its client was gone before the tunnel
\* opened, or its handler panicked; and no two connections share a number.
Accounted ==
    /\ \A c \in Conns : /\ Len(told[c]) <= 1
                        /\ At(c, "done") /\ excuse[c] = "none" => Len(told[c]) = 1
    /\ \A c, d \in Conns : connID[c] = connID[d] /\ connID[c] # 0 => c = d

\* A connection that ended holds no descriptor, on whichever of its paths.
EndsTidy == \A c \in Conns : At(c, "done") => client[c] = "closed" /\ upstream[c] # "open"

\* "Classify honestly": a client is said to have refused our leaf only if it was
\* shown one; a leaf that could not be minted is an error of ours.
PinnedIsHonest == \A c \in Conns : told[c] = <<"pinned">> => pinned[c] # NoLeaf

\* "Timeouts reap a stalled flow": every connection ends, unless it stays for ever where
\* a peer that neither sends nor reads holds it: no deadline is missing anywhere else, and
\* no handler is held for ever by another's.
TunnelEnds == \A c \in Conns : At(c, "identify") ~> (At(c, "done") \/ []WaitsForPeer(c))
=============================================================================
