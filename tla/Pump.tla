-------------------------------- MODULE Pump --------------------------------
(***************************************************************************)
(* The relay of one intercepted connection (pump.runRelay): for each       *)
(* direction a goroutine that forwards bytes and hands a copy of them to a *)
(* bounded tee without ever blocking on it, a feeder goroutine that moves  *)
(* the tee into a pipe, and a parser goroutine that reads HTTP/1.1         *)
(* messages from the pipe and publishes an event for each.  The two        *)
(* parsers meet in the correlation queue, through which the n-th response  *)
(* learns the number of the n-th request.                                  *)
(*                                                                         *)
(* A chunk of bytes is a piece of one message: its head, the rest of it,   *)
(* an interim response, or bytes that are no message.  Heads are numbered  *)
(* in the order in which their sender sent them.                           *)
(***************************************************************************)
EXTENDS Naturals, Sequences

CONSTANTS MaxTeeBacklogChunks,   \* maxTeeBacklogChunks
          MaxPipelinedRequests,  \* maxPipelinedRequests
          MaxChunks,             \* bound: the chunks the peer sends in each direction
          Bodies,                \* how the bodies of each direction are delimited
          Stray                  \* the directions with bytes that are no HTTP/1.1 message

Dirs == {"request", "response"}

(***************************************************************************)
(* none:      no body, or an empty one                                     *)
(* framed:    Content-Length or well-formed chunks                         *)
(* untilEOF:  a response without either, ended by the end of the stream    *)
(* malformed: an invalid Content-Length or chunk size                      *)
(***************************************************************************)
BodyKinds == {"none", "framed", "untilEOF", "malformed"}

ASSUME PumpAssumption == /\ MaxTeeBacklogChunks \in Nat \ {0}
                         /\ MaxPipelinedRequests \in Nat \ {0}
                         /\ MaxChunks \in [Dirs -> Nat]
                         /\ Bodies \in [Dirs -> SUBSET BodyKinds]
                         /\ "untilEOF" \notin Bodies["request"]
                         /\ Stray \subseteq Dirs

\* The forwarding goroutine of each direction: copyTee, inside cp.
VARIABLES copier,    \* where it is
          chunk,     \* buf[:n]
          detached,  \* copyTee's detached, the negation of its teeing
          lost,      \* history: the message of which a chunk was not teed first
          sender,    \* what the sending peer is in the middle of
          sent,      \* the chunks it has sent
          heads,     \* the heads among them
          crossed    \* history: the heads delivered to the receiver

\* The capture of each direction.
VARIABLES tee,       \* teeFeeder.ch
          teeClosed,
          feeder,    \* where the feeder goroutine is
          pipe,      \* the chunk it is blocked writing, if any
          parser,    \* where the parser goroutine is
          msg        \* the message the parser is in the middle of

\* What the goroutines share, and what they publish.
VARIABLES seq,       \* pump.seq
          queue, queueClosed,
          opaque,    \* how often opaqueOnce's function published its event
          events,    \* the events of each direction
          derailed,  \* history: a body that could not be delimited was left unread
          over       \* runRelay has returned

copyVars  == <<copier, chunk, detached, lost, sender, sent, heads, crossed>>
teeVars   == <<tee, teeClosed, feeder, pipe>>
parseVars == <<parser, msg, seq, queue, queueClosed, events, derailed>>
vars == <<copyVars, teeVars, parseVars, opaque, over>>

Chunk == [kind : {"nothing", "head", "rest", "interim", "stray"},
          id : Nat, body : BodyKinds]
HeadOf(n, b) == [kind |-> "head", id |-> n, body |-> b]
Piece(k) == [kind |-> k, id |-> 0, body |-> "none"]
Nothing == Piece("nothing")

NoMsg == [id |-> 0, body |-> "none", seq |-> 0]

TypeOK ==
    /\ copier \in [Dirs -> {"read", "write", "tee", "return", "close", "done"}]
    /\ chunk \in [Dirs -> Chunk]
    /\ detached \in [Dirs -> BOOLEAN]
    /\ lost \in [Dirs -> Nat]
    /\ sender \in [Dirs -> {"idle", "framed", "malformed", "untilEOF", "finished"}]
    /\ sent \in [Dirs -> Nat]
    /\ heads \in [Dirs -> Nat]
    /\ crossed \in [Dirs -> Nat]
    /\ tee \in [Dirs -> Seq(Chunk)] /\ \A d \in Dirs : Len(tee[d]) <= MaxTeeBacklogChunks
    /\ teeClosed \in [Dirs -> BOOLEAN]
    /\ feeder \in [Dirs -> {"receive", "write", "eof", "aborted"}]
    /\ pipe \in [Dirs -> Chunk]
    /\ parser \in [Dirs -> {"head", "pop", "body", "return", "done"}]
    /\ msg \in [Dirs -> [id : Nat, body : BodyKinds, seq : Nat]]
    /\ seq \in Nat
    /\ queue \in Seq(Nat) /\ Len(queue) <= MaxPipelinedRequests
    /\ queueClosed \in BOOLEAN
    /\ opaque \in 0 .. 1
    /\ events \in [Dirs -> Seq([msg : Nat, seq : Nat, state : {"complete", "partial"}])]
    /\ derailed \in BOOLEAN /\ over \in BOOLEAN

Init == /\ copier = [d \in Dirs |-> "read"]
        /\ chunk = [d \in Dirs |-> Nothing]
        /\ detached = [d \in Dirs |-> FALSE]
        /\ lost = [d \in Dirs |-> 0]
        /\ sender = [d \in Dirs |-> "idle"]
        /\ sent = [d \in Dirs |-> 0]
        /\ heads = [d \in Dirs |-> 0]
        /\ crossed = [d \in Dirs |-> 0]
        /\ tee = [d \in Dirs |-> << >>]
        /\ teeClosed = [d \in Dirs |-> FALSE]
        /\ feeder = [d \in Dirs |-> "receive"]
        /\ pipe = [d \in Dirs |-> Nothing]
        /\ parser = [d \in Dirs |-> "head"]
        /\ msg = [d \in Dirs |-> NoMsg]
        /\ seq = 0 /\ queue = << >> /\ queueClosed = FALSE
        /\ opaque = 0
        /\ events = [d \in Dirs |-> << >>]
        /\ derailed = FALSE /\ over = FALSE

\* Set one direction's entry of a variable.
Set(f, d, v) == [f EXCEPT ![d] = v]

-----------------------------------------------------------------------------
(* The peers, and copyTee. *)

\* The pieces a peer may send next, and what that leaves it in the middle of.
\* Peers do not wait for one another: a server may answer before the request is
\* whole, or with no request at all.
MaySend(d) ==
    CASE sender[d] = "idle" ->
            {[chunk |-> HeadOf(heads[d] + 1, b), then |-> IF b = "none" THEN "idle" ELSE b] :
                b \in Bodies[d]}
            \cup {[chunk |-> Piece(k), then |-> "idle"] :
                    k \in (IF d = "response" THEN {"interim"} ELSE {})
                             \cup (IF d \in Stray THEN {"stray"} ELSE {})}
      [] sender[d] \in {"framed", "malformed"} -> {[chunk |-> Piece("rest"), then |-> "idle"]}
      [] sender[d] = "untilEOF" -> {[chunk |-> Piece("rest"), then |-> "finished"]}
      [] OTHER -> {}

\* src.Read returns a chunk.
Read(d) ==
    /\ copier[d] = "read" /\ sent[d] < MaxChunks[d]
    /\ \E s \in MaySend(d) :
          /\ chunk' = Set(chunk, d, s.chunk)
          /\ sender' = Set(sender, d, s.then)
          /\ heads' = Set(heads, d, heads[d] + IF s.chunk.kind = "head" THEN 1 ELSE 0)
    /\ sent' = Set(sent, d, sent[d] + 1)
    /\ copier' = Set(copier, d, "write")
    /\ UNCHANGED <<detached, lost, crossed, teeVars, parseVars, opaque, over>>

\* dst.Write delivers it.
Write(d) ==
    /\ copier[d] = "write"
    /\ copier' = Set(copier, d, "tee")
    /\ crossed' = Set(crossed, d, crossed[d] + IF chunk[d].kind = "head" THEN 1 ELSE 0)
    /\ UNCHANGED <<chunk, detached, lost, sender, sent, heads, teeVars, parseVars, opaque, over>>

\* Mutant of Submit: a refused chunk is skipped, and the next one is teed.
SubmitReattaches(d) ==
    /\ copier[d] = "tee"
    /\ tee' = IF Len(tee[d]) < MaxTeeBacklogChunks THEN Set(tee, d, Append(tee[d], chunk[d]))
                                                   ELSE tee
    /\ copier' = Set(copier, d, "read")
    /\ chunk' = Set(chunk, d, Nothing)
    /\ UNCHANGED <<detached, lost, sender, sent, heads, crossed, teeClosed, feeder, pipe,
                   parseVars, opaque, over>>

\* Mutant of Submit: it waits for room.
SubmitBlocks(d) ==
    /\ copier[d] = "tee" /\ Len(tee[d]) < MaxTeeBacklogChunks
    /\ tee' = Set(tee, d, Append(tee[d], chunk[d]))
    /\ copier' = Set(copier, d, "read")
    /\ chunk' = Set(chunk, d, Nothing)
    /\ UNCHANGED <<detached, lost, sender, sent, heads, crossed, teeClosed, feeder, pipe,
                   parseVars, opaque, over>>

\* tee.submit: a full backlog refuses the chunk, and nothing is teed any more.
Submit(d) ==
    /\ copier[d] = "tee"
    /\ \/ /\ ~detached[d] /\ Len(tee[d]) < MaxTeeBacklogChunks
          /\ tee' = Set(tee, d, Append(tee[d], chunk[d]))
          /\ UNCHANGED <<detached, lost>>
       \/ /\ detached[d] \/ Len(tee[d]) = MaxTeeBacklogChunks
          /\ detached' = Set(detached, d, TRUE)
          /\ lost' = IF detached[d] \/ chunk[d].kind \notin {"head", "rest"}
                     THEN lost ELSE Set(lost, d, heads[d])
          /\ UNCHANGED tee
    /\ copier' = Set(copier, d, "read")
    /\ chunk' = Set(chunk, d, Nothing)
    /\ UNCHANGED <<sender, sent, heads, crossed, teeClosed, feeder, pipe, parseVars, opaque, over>>

\* The read fails (end of stream, idle or linger deadline), or the write does.
Return(d) ==
    /\ copier[d] \in {"read", "write"}
    /\ copier' = Set(copier, d, "return")
    /\ chunk' = Set(chunk, d, Nothing)
    /\ UNCHANGED <<detached, lost, sender, sent, heads, crossed, teeVars, parseVars, opaque, over>>

\* opaqueOnce.
MarkOpaque == opaque' = IF opaque = 0 THEN 1 ELSE opaque

\* Mutant of TellDetached: the incomplete capture is not reported.
TellNothing(d) ==
    /\ copier[d] = "return"
    /\ copier' = Set(copier, d, "close")
    /\ UNCHANGED <<chunk, detached, lost, sender, sent, heads, crossed, teeVars, parseVars,
                   opaque, over>>

\* cp tells of a detached tee ...
TellDetached(d) ==
    /\ copier[d] = "return"
    /\ IF detached[d] THEN MarkOpaque ELSE UNCHANGED opaque
    /\ copier' = Set(copier, d, "close")
    /\ UNCHANGED <<chunk, detached, lost, sender, sent, heads, crossed, teeVars, parseVars, over>>

\* ... then closes it, and signals done.
CloseTee(d) ==
    /\ copier[d] = "close"
    /\ teeClosed' = Set(teeClosed, d, TRUE)
    /\ copier' = Set(copier, d, "done")
    /\ UNCHANGED <<chunk, detached, lost, sender, sent, heads, crossed, tee, feeder, pipe,
                   parseVars, opaque, over>>

-----------------------------------------------------------------------------
(* newTeeFeeder's goroutine.  A write to the pipe lasts until it is read. *)

Feed(d) ==
    /\ feeder[d] = "receive" /\ tee[d] # << >>
    /\ tee' = Set(tee, d, Tail(tee[d]))
    /\ pipe' = Set(pipe, d, tee[d][1])
    /\ feeder' = Set(feeder, d, "write")
    /\ UNCHANGED <<copyVars, teeClosed, parseVars, opaque, over>>

\* The parser closed its end: the write fails.
FeedFails(d) ==
    /\ feeder[d] = "write" /\ parser[d] = "done"
    /\ pipe' = Set(pipe, d, Nothing)
    /\ feeder' = Set(feeder, d, "aborted")
    /\ UNCHANGED <<copyVars, tee, teeClosed, parseVars, opaque, over>>

FeedEnds(d) ==
    /\ feeder[d] = "receive" /\ tee[d] = << >> /\ teeClosed[d]
    /\ feeder' = Set(feeder, d, "eof")
    /\ UNCHANGED <<copyVars, tee, teeClosed, pipe, parseVars, opaque, over>>

\* A parser's read takes the chunk the feeder is writing.
Take(d) == /\ feeder[d] = "write"
           /\ feeder' = Set(feeder, d, "receive")
           /\ pipe' = Set(pipe, d, Nothing)
           /\ UNCHANGED <<tee, teeClosed>>

EOF(d) == feeder[d] = "eof" /\ UNCHANGED teeVars

-----------------------------------------------------------------------------
(* parseRequests and parseResponses. *)

Publish(d, m, state) ==
    events' = Set(events, d, Append(events[d], [msg |-> m.id, seq |-> m.seq, state |-> state]))

\* The head of message n, with body b, was read.
GotHead(d, n, b) ==
    \/ /\ d = "request"
       /\ seq' = seq + 1
       /\ IF Len(queue) < MaxPipelinedRequests
          THEN /\ queue' = Append(queue, seq + 1)
               /\ msg' = Set(msg, d, [id |-> n, body |-> b, seq |-> seq + 1])
               /\ parser' = Set(parser, d, "body")
               /\ UNCHANGED opaque
          ELSE /\ MarkOpaque
               /\ parser' = Set(parser, d, "return")
               /\ UNCHANGED <<queue, msg>>
    \/ /\ d = "response"
       /\ msg' = Set(msg, d, [id |-> n, body |-> b, seq |-> 0])
       /\ parser' = Set(parser, d, "pop")
       /\ UNCHANGED <<seq, queue, opaque>>

\* The head is not one of an HTTP/1.1 message.
FramingLost(d) == /\ MarkOpaque
                  /\ parser' = Set(parser, d, "return")
                  /\ UNCHANGED <<msg, seq, queue>>

\* readRequestHead or readResponseHead.  The rest of a message whose body could
\* not be delimited is read as if it were a head, and may look like one.
ReadHead(d) ==
    /\ parser[d] = "head"
    /\ Take(d)
    /\ \/ pipe[d].kind = "head" /\ GotHead(d, pipe[d].id, pipe[d].body)
       \/ pipe[d].kind = "rest" /\ GotHead(d, 0, "none")
       \/ pipe[d].kind \in {"stray", "rest"} /\ FramingLost(d)
       \/ pipe[d].kind = "interim" /\ UNCHANGED <<parser, msg, seq, queue, opaque>>
    /\ UNCHANGED <<copyVars, queueClosed, events, derailed, over>>

HeadEOF(d) ==
    /\ parser[d] = "head" /\ EOF(d)
    /\ parser' = Set(parser, d, "return")
    /\ UNCHANGED <<copyVars, msg, seq, queue, queueClosed, events, derailed, opaque, over>>

\* popQueue: blocks while the queue is empty and not closed.
PopQueue ==
    /\ parser["response"] = "pop"
    /\ \/ /\ queue # << >>
          /\ msg' = [msg EXCEPT !["response"].seq = queue[1]]
          /\ queue' = Tail(queue)
          /\ parser' = Set(parser, "response", "body")
          /\ UNCHANGED opaque
       \/ /\ queue = << >> /\ queueClosed
          /\ MarkOpaque
          /\ parser' = Set(parser, "response", "return")
          /\ UNCHANGED <<msg, queue>>
    /\ UNCHANGED <<copyVars, teeVars, seq, queueClosed, events, derailed, over>>

\* readBody, and publishMessage.  A malformed body is published as partial
\* without being read, and the parser goes on to the next head.
ReadBody(d) ==
    /\ parser[d] = "body"
    /\ \/ /\ msg[d].body \in {"none", "malformed"} /\ UNCHANGED teeVars
          /\ Publish(d, msg[d], IF msg[d].body = "none" THEN "complete" ELSE "partial")
          /\ parser' = Set(parser, d, "head")
       \/ /\ msg[d].body = "framed" /\ Take(d)
          /\ Publish(d, msg[d], "complete")
          /\ parser' = Set(parser, d, "head")
       \/ /\ msg[d].body = "untilEOF" /\ Take(d)
          /\ UNCHANGED <<events, parser>>
       \/ /\ msg[d].body \in {"framed", "untilEOF"} /\ EOF(d)
          /\ Publish(d, msg[d], IF msg[d].body = "framed" THEN "partial" ELSE "complete")
          /\ parser' = Set(parser, d, "head")
    /\ derailed' = (derailed \/ msg[d].body = "malformed")
    /\ UNCHANGED <<copyVars, msg, seq, queue, queueClosed, opaque, over>>

\* Mutant of ParserDone: the queue is not closed.
ParserDoneQueueOpen(d) ==
    /\ parser[d] = "return"
    /\ parser' = Set(parser, d, "done")
    /\ UNCHANGED <<copyVars, teeVars, msg, seq, queue, queueClosed, events, derailed, opaque, over>>

\* closeRequests after parseRequests, and the deferred close of the pipe.
ParserDone(d) ==
    /\ parser[d] = "return"
    /\ parser' = Set(parser, d, "done")
    /\ queueClosed' = (queueClosed \/ d = "request")
    /\ UNCHANGED <<copyVars, teeVars, msg, seq, queue, events, derailed, opaque, over>>

\* runRelay has received both dones and waited for all the other goroutines.
RelayDone ==
    /\ ~over
    /\ \A d \in Dirs : /\ copier[d] = "done" /\ parser[d] = "done"
                       /\ feeder[d] \in {"eof", "aborted"}
    /\ over' = TRUE
    /\ UNCHANGED <<copyVars, teeVars, parseVars, opaque>>

-----------------------------------------------------------------------------

Parse(d) == ReadHead(d) \/ HeadEOF(d) \/ ReadBody(d) \/ ParserDone(d)
               \/ (d = "response" /\ PopQueue)

Feeder(d) == Feed(d) \/ FeedFails(d) \/ FeedEnds(d)

\* What the forwarding goroutine does between two reads.
Copy(d) == Submit(d) \/ TellDetached(d) \/ CloseTee(d)

\* Nothing happens after runRelay returned.
Finished == over /\ UNCHANGED vars

Next == \/ \E d \in Dirs : \/ Read(d) \/ Write(d) \/ Return(d) \/ Copy(d)
                           \/ Feeder(d) \/ Parse(d)
        \/ RelayDone \/ Finished

(***************************************************************************)
(* Go runs every runnable goroutine.  A read that brings nothing ends by   *)
(* its deadline, and a peer sends at most MaxChunks, so a read fails in    *)
(* the end.  Writes have no deadline: it is assumed of the two receivers   *)
(* that they read on or close.                                             *)
(***************************************************************************)
Fairness == /\ \A d \in Dirs : /\ WF_vars(Copy(d)) /\ WF_vars(Feeder(d)) /\ WF_vars(Parse(d))
                               /\ WF_vars(copier[d] = "read" /\ Return(d))
                               /\ WF_vars(Write(d) \/ (copier[d] = "write" /\ Return(d)))
            /\ WF_vars(RelayDone)

Spec == Init /\ [][Next]_vars /\ Fairness

-----------------------------------------------------------------------------
(* Properties. *)

\* The promise of Capture: events are numbered by the order of the wire, a
\* response carries the number of the request it answers, and the connection
\* does not end with a message missing and no opaque event to say so.
C == INSTANCE Capture WITH
        events <- [d \in Dirs |-> [i \in DOMAIN events[d] |->
                                      [msg |-> events[d][i].msg, seq |-> events[d][i].seq]]],
        opaque <- opaque = 1
Captures == C!Spec

\* The queue "correlates each request to its response in HTTP/1.1 FIFO order": the
\* events of a request and of the response that answers it carry one number.
Correlates ==
    \A i \in DOMAIN events["request"], j \in DOMAIN events["response"] :
        LET e == events["request"][i]  f == events["response"][j]
        IN  e.msg = f.msg /\ e.msg # 0 => e.seq = f.seq

\* A message of which a part was forwarded but not captured is not published as
\* complete before the connection is reported opaque: the end of a detached tee
\* looks to readUntilEOF like the end of the message.
NoFalseComplete ==
    \A d \in Dirs : \A i \in DOMAIN events[d] :
        lost[d] # 0 /\ events[d][i].msg = lost[d] /\ events[d][i].state = "complete"
            => opaque = 1

\* "Never affects traffic": once a chunk is delivered, the forwarding goroutine
\* waits for nobody before its next read, or before it is gone, however slow or
\* parked the feeder and the parser are.
Forwards == \A d \in Dirs : copier[d] \in {"tee", "return", "close"} => ENABLED Copy(d)

\* The relay ends: whatever a parser is parked on is released when the
\* directions end, and no goroutine outlives runRelay.
RelayEnds == <>over
=============================================================================
