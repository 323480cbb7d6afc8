----------------------------- MODULE SocketSink -----------------------------
(***************************************************************************)
(* The live stream (publish.socketSink): connections of the proxy publish  *)
(* messages, consoles connect and read them.  One goroutine accepts, one   *)
(* per console takes messages from the console's bounded channel and       *)
(* writes them to its connection, and Close ends them all.  Publish, the   *)
(* registration of a console and the first half of Close hold the mutex,   *)
(* so each is one step.                                                    *)
(*                                                                         *)
(* Messages are numbered in the order in which they are published.         *)
(***************************************************************************)
EXTENDS Naturals, Sequences, FiniteSets

CONSTANTS Readers,   \* the consoles that may connect
          Buffer,    \* the capacity of a reader's channel
          MaxMsgs    \* bound on the messages published

ASSUME BufferAssumption == IsFiniteSet(Readers) /\ Buffer \in Nat \ {0} /\ MaxMsgs \in Nat

VARIABLES acceptor,    \* where acceptLoop is
          conn,        \* the connection of each console
          readers,     \* socketSink.readers
          ch,          \* reader.ch
          chClosed,
          server,      \* where each reader's serve is
          inHand,      \* the message it is writing; 0 when it has none
          closed,      \* socketSink.closed
          closer,      \* where Close is
          listening,
          dropped,     \* socketSink.dropped
          published,   \* the messages published so far
          received,    \* what each console has read
          joined,      \* history: the messages published before it was registered
          panicked     \* a send on a closed channel, or a second close of one

serveVars == <<server, inHand>>
chanVars == <<ch, chClosed>>
historyVars == <<joined, received>>
vars == <<acceptor, conn, readers, ch, chClosed, server, inHand, closed, closer, listening,
          dropped, published, received, joined, panicked>>

NoReader == "none"   \* acceptLoop holds no connection

TypeOK ==
    /\ acceptor \in [pc : {"accept", "register", "done"}, reader : Readers \cup {NoReader}]
    /\ conn \in [Readers -> {"none", "queued", "open", "closed"}]
    /\ readers \subseteq Readers
    /\ ch \in [Readers -> Seq(Nat)]
    /\ \A r \in Readers : Len(ch[r]) <= Buffer
    /\ chClosed \in [Readers -> BOOLEAN]
    /\ server \in [Readers -> {"none", "receive", "write", "unregister", "close", "done"}]
    /\ inHand \in [Readers -> Nat]
    /\ closed \in BOOLEAN /\ listening \in BOOLEAN
    /\ closer \in {"idle", "listener", "done"}
    /\ dropped \in Nat /\ published \in Nat
    /\ received \in [Readers -> Seq(Nat)]
    /\ joined \in [Readers -> Nat]
    /\ panicked \in BOOLEAN

Init == /\ acceptor = [pc |-> "accept", reader |-> NoReader]
        /\ conn = [r \in Readers |-> "none"]
        /\ readers = {}
        /\ ch = [r \in Readers |-> << >>]
        /\ chClosed = [r \in Readers |-> FALSE]
        /\ server = [r \in Readers |-> "none"]
        /\ inHand = [r \in Readers |-> 0]
        /\ closed = FALSE /\ closer = "idle" /\ listening = TRUE
        /\ dropped = 0 /\ published = 0
        /\ received = [r \in Readers |-> << >>]
        /\ joined = [r \in Readers |-> 0]
        /\ panicked = FALSE

-----------------------------------------------------------------------------
(* The consoles. *)

\* A console connects; it waits in the backlog of the listener.
Connect(r) ==
    /\ conn[r] = "none" /\ listening
    /\ conn' = [conn EXCEPT ![r] = "queued"]
    /\ UNCHANGED <<acceptor, readers, chanVars, serveVars, closed, closer, listening, dropped,
                   published, historyVars, panicked>>

\* A console goes away: the sink learns of it when a write fails.
Hangup(r) ==
    /\ conn[r] = "open"
    /\ conn' = [conn EXCEPT ![r] = "closed"]
    /\ UNCHANGED <<acceptor, readers, chanVars, serveVars, closed, closer, listening, dropped,
                   published, historyVars, panicked>>

-----------------------------------------------------------------------------
(* acceptLoop. *)

AcceptConn(r) ==
    /\ acceptor.pc = "accept" /\ listening
    /\ conn[r] = "queued"
    /\ acceptor' = [pc |-> "register", reader |-> r]
    /\ conn' = [conn EXCEPT ![r] = "open"]
    /\ UNCHANGED <<readers, chanVars, serveVars, closed, closer, listening, dropped, published,
                   historyVars, panicked>>

\* Any error of Accept ends the loop, also while the sink is open: who connects then
\* stays in the backlog.
AcceptError ==
    /\ acceptor.pc = "accept"
    /\ acceptor' = [pc |-> "done", reader |-> NoReader]
    /\ UNCHANGED <<conn, readers, chanVars, serveVars, closed, closer, listening, dropped,
                   published, historyVars, panicked>>

\* Accept fails once the listener is closed.
AcceptFails == ~listening /\ AcceptError

\* Mutant of Register: Close is not looked for.
RegisterAlways(r) ==
    /\ acceptor = [pc |-> "register", reader |-> r]
    /\ readers' = readers \cup {r}
    /\ server' = [server EXCEPT ![r] = "receive"]
    /\ joined' = [joined EXCEPT ![r] = published]
    /\ acceptor' = [pc |-> "accept", reader |-> NoReader]
    /\ UNCHANGED <<conn, chanVars, inHand, closed, closer, listening, dropped, published,
                   received, panicked>>

\* Under the mutex: the console is registered and served, or turned away.
Register(r) ==
    /\ acceptor = [pc |-> "register", reader |-> r]
    /\ \/ /\ ~closed
          /\ readers' = readers \cup {r}
          /\ server' = [server EXCEPT ![r] = "receive"]
          /\ joined' = [joined EXCEPT ![r] = published]
          /\ acceptor' = [pc |-> "accept", reader |-> NoReader]
          /\ UNCHANGED conn
       \/ /\ closed
          /\ conn' = [conn EXCEPT ![r] = "closed"]
          /\ acceptor' = [pc |-> "done", reader |-> NoReader]
          /\ UNCHANGED <<readers, server, joined>>
    /\ UNCHANGED <<chanVars, inHand, closed, closer, listening, dropped, published, received,
                   panicked>>

-----------------------------------------------------------------------------
(* serve. *)

\* The next message of the channel; a closed channel is drained first.
Receive(r) ==
    /\ server[r] = "receive"
    /\ \/ /\ ch[r] # << >>
          /\ inHand' = [inHand EXCEPT ![r] = ch[r][1]]
          /\ ch' = [ch EXCEPT ![r] = Tail(@)]
          /\ server' = [server EXCEPT ![r] = "write"]
       \/ /\ ch[r] = << >> /\ chClosed[r]
          /\ server' = [server EXCEPT ![r] = "unregister"]
          /\ UNCHANGED <<ch, inHand>>
    /\ UNCHANGED <<acceptor, conn, readers, chClosed, closed, closer, listening, dropped,
                   published, historyVars, panicked>>

Write(r) ==
    /\ server[r] = "write" /\ conn[r] = "open"
    /\ received' = [received EXCEPT ![r] = Append(@, inHand[r])]
    /\ inHand' = [inHand EXCEPT ![r] = 0]
    /\ server' = [server EXCEPT ![r] = "receive"]
    /\ UNCHANGED <<acceptor, conn, readers, chanVars, closed, closer, listening, dropped,
                   published, joined, panicked>>

\* Mutant of WriteFails: a message that could not be written is skipped.
WriteSkips(r) ==
    /\ server[r] = "write"
    /\ inHand' = [inHand EXCEPT ![r] = 0]
    /\ server' = [server EXCEPT ![r] = "receive"]
    /\ UNCHANGED <<acceptor, conn, readers, chanVars, closed, closer, listening, dropped,
                   published, historyVars, panicked>>

\* The console is gone, or reads nothing before the write deadline.
WriteFails(r) ==
    /\ server[r] = "write"
    /\ inHand' = [inHand EXCEPT ![r] = 0]
    /\ server' = [server EXCEPT ![r] = "unregister"]
    /\ UNCHANGED <<acceptor, conn, readers, chanVars, closed, closer, listening, dropped,
                   published, historyVars, panicked>>

Unregister(r) ==
    /\ server[r] = "unregister"
    /\ readers' = readers \ {r}
    /\ server' = [server EXCEPT ![r] = "close"]
    /\ UNCHANGED <<acceptor, conn, chanVars, inHand, closed, closer, listening, dropped,
                   published, historyVars, panicked>>

CloseConn(r) ==
    /\ server[r] = "close"
    /\ conn' = [conn EXCEPT ![r] = "closed"]
    /\ server' = [server EXCEPT ![r] = "done"]
    /\ UNCHANGED <<acceptor, readers, chanVars, inHand, closed, closer, listening, dropped,
                   published, historyVars, panicked>>

-----------------------------------------------------------------------------
(* Publish and Close. *)

Full(r) == Len(ch[r]) >= Buffer

\* A message goes to every registered console whose channel has room; the others
\* are counted.  A send on a closed channel panics.
Publish ==
    /\ published < MaxMsgs /\ ~panicked
    /\ published' = published + 1
    /\ ch' = [r \in Readers |-> IF r \in readers /\ ~Full(r)
                                THEN Append(ch[r], published + 1) ELSE ch[r]]
    /\ dropped' = dropped + Cardinality({r \in readers : Full(r)})
    /\ panicked' = (\E r \in readers : chClosed[r])
    /\ UNCHANGED <<acceptor, conn, readers, chClosed, serveVars, closed, closer, listening,
                   historyVars>>

\* Mutant of CloseReaders: the readers stay registered.
CloseKeepsReaders ==
    /\ ~closed /\ closed' = TRUE
    /\ closer' = "listener"
    /\ chClosed' = [r \in Readers |-> chClosed[r] \/ r \in readers]
    /\ conn' = [r \in Readers |-> IF r \in readers THEN "closed" ELSE conn[r]]
    /\ panicked' = (panicked \/ \E r \in readers : chClosed[r])
    /\ UNCHANGED <<acceptor, readers, ch, serveVars, listening, dropped, published, historyVars>>

\* Close, under the mutex: every registered console is let go ...
CloseReaders ==
    /\ ~closed /\ closed' = TRUE
    /\ closer' = "listener"
    /\ chClosed' = [r \in Readers |-> chClosed[r] \/ r \in readers]
    /\ conn' = [r \in Readers |-> IF r \in readers THEN "closed" ELSE conn[r]]
    /\ readers' = {}
    /\ panicked' = (panicked \/ \E r \in readers : chClosed[r])
    /\ UNCHANGED <<acceptor, ch, serveVars, listening, dropped, published, historyVars>>

\* ... and then the listener, with whoever is in its backlog.
CloseListener ==
    /\ closer = "listener" /\ closer' = "done"
    /\ listening' = FALSE
    /\ conn' = [r \in Readers |-> IF conn[r] = "queued" THEN "closed" ELSE conn[r]]
    /\ UNCHANGED <<acceptor, readers, chanVars, serveVars, closed, dropped, published,
                   historyVars, panicked>>

-----------------------------------------------------------------------------

AcceptLoop == AcceptFails \/ \E r \in Readers : AcceptConn(r) \/ Register(r)

Serve(r) == Receive(r) \/ Write(r) \/ WriteFails(r) \/ Unregister(r) \/ CloseConn(r)

\* The proxy publishes no more and the sink is closed.
Finished == closer = "done" /\ UNCHANGED vars

Next == \/ \E r \in Readers : Connect(r) \/ Hangup(r) \/ Serve(r)
        \/ AcceptLoop \/ AcceptError \/ Publish \/ CloseReaders \/ CloseListener \/ Finished

(***************************************************************************)
(* Go runs its goroutines; a write ends by its deadline.  Consoles and     *)
(* publishers do as they please, Accept need never fail while the listener *)
(* is open, and Close need never be called, but once called it goes on.    *)
(***************************************************************************)
Fairness == /\ \A r \in Readers : WF_vars(Serve(r))
            /\ WF_vars(AcceptLoop) /\ WF_vars(CloseListener)

Spec == Init /\ [][Next]_vars /\ Fairness

-----------------------------------------------------------------------------
(* Properties. *)

\* Publish may come at any time, also during and after Close, and a reader may
\* leave while it is published to: no send ever meets a closed channel, and no
\* channel is closed twice.  Either would take the proxy down.
NeverPanics == ~panicked

\* What a console has read, is being written and is still to come.
Stream(r) == received[r] \o (IF inHand[r] = 0 THEN << >> ELSE <<inHand[r]>>) \o ch[r]

Served == {r \in readers : server[r] \in {"receive", "write"}}

\* What consoles that are served were there for and never get.
Missed == {q \in Served \X (1 .. published) :
              LET r == q[1] IN
              joined[r] < q[2] /\ \A i \in DOMAIN Stream(r) : Stream(r)[i] # q[2]}

\* A console sees messages in the order of Publish, none twice, and as long as it
\* is served every message it misses is counted in dropped ("surfaced so the drop
\* isn't silent").
NoSilentDrop ==
    /\ \A r \in Readers : LET s == Stream(r) IN
          /\ \A i \in DOMAIN s : s[i] \in joined[r] + 1 .. published
          /\ \A i, j \in DOMAIN s : i < j => s[i] < s[j]
    /\ Cardinality(Missed) <= dropped

\* After Close every goroutine of the sink ends and every connection is closed,
\* also the one that was being accepted: nobody keeps the socket's readers.
AcceptorEnds == closed ~> acceptor.pc = "done"
ReaderEnds(r) == closed ~> server[r] \in {"none", "done"} /\ conn[r] \in {"none", "closed"}
CloseEnds == AcceptorEnds /\ \A r \in Readers : ReaderEnds(r)
=============================================================================
