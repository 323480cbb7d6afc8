----------------------------- MODULE PumpProofs -----------------------------
(***************************************************************************)
(* What the capture of a relayed connection promises, for every backlog,   *)
(* every queue and any number of messages: Pump implements Capture, a      *)
(* message that was not captured whole is not published as complete, and   *)
(* the goroutines of a relay neither park one another nor go on for ever.  *)
(***************************************************************************)
EXTENDS Pump, SequenceTheorems, TLAPS

-----------------------------------------------------------------------------
(* Types. *)

Event == [msg : Nat, seq : Nat, state : {"complete", "partial"}]
Msg == [id : Nat, body : BodyKinds, seq : Nat]

\* What the constructors of chunks and messages make.
LEMMA ChunkFacts ==
    /\ Nothing \in Chunk /\ NoMsg \in Msg
    /\ \A k \in {"nothing", "rest", "interim", "stray"} :
           Piece(k) \in Chunk /\ Piece(k).kind = k /\ Piece(k).id = 0 /\ Piece(k).body = "none"
    /\ \A n \in Nat, b \in BodyKinds :
           /\ HeadOf(n, b) \in Chunk /\ HeadOf(n, b).kind = "head"
           /\ HeadOf(n, b).id = n /\ HeadOf(n, b).body = b
    /\ \A c \in Chunk : /\ c.kind \in {"nothing", "head", "rest", "interim", "stray"}
                        /\ c.id \in Nat /\ c.body \in BodyKinds
    /\ \A m \in Msg : m.id \in Nat /\ m.body \in BodyKinds /\ m.seq \in Nat
  BY DEF Nothing, NoMsg, Piece, HeadOf, Chunk, Msg, BodyKinds

\* What a peer may send is a chunk.
LEMMA MaySendFacts ==
    ASSUME TypeOK, NEW d \in Dirs, NEW s \in MaySend(d)
    PROVE  /\ s.chunk \in Chunk /\ s.then \in {"idle", "framed", "malformed", "untilEOF", "finished"}
           /\ \/ /\ sender[d] = "idle" /\ s.chunk.kind = "head" /\ s.chunk.id = heads[d] + 1
                 /\ s.then = IF s.chunk.body = "none" THEN "idle" ELSE s.chunk.body
              \/ sender[d] = "idle" /\ s.chunk.kind \in {"interim", "stray"} /\ s.then = "idle"
              \/ sender[d] \in {"framed", "malformed"} /\ s.chunk.kind = "rest" /\ s.then = "idle"
              \/ sender[d] = "untilEOF" /\ s.chunk.kind = "rest" /\ s.then = "finished"
<1>1. heads[d] \in Nat /\ heads[d] + 1 \in Nat
  BY DEF TypeOK
<1>2. CASE sender[d] = "idle"
  <2>1. \/ \E b \in Bodies[d] : s = [chunk |-> HeadOf(heads[d] + 1, b), then |-> IF b = "none" THEN "idle" ELSE b]
        \/ \E k \in {"interim", "stray"} : s = [chunk |-> Piece(k), then |-> "idle"]
    BY <1>2 DEF MaySend
  <2>2. CASE \E b \in Bodies[d] : s = [chunk |-> HeadOf(heads[d] + 1, b), then |-> IF b = "none" THEN "idle" ELSE b]
    <3>1. PICK b \in Bodies[d] : s = [chunk |-> HeadOf(heads[d] + 1, b), then |-> IF b = "none" THEN "idle" ELSE b]
      BY <2>2
    <3>2. b \in BodyKinds
      BY PumpAssumption
    <3>3. b = "none" \/ b \in {"framed", "malformed", "untilEOF"}
      BY <3>2 DEF BodyKinds
    <3>4. s.chunk = HeadOf(heads[d] + 1, b) /\ s.then = IF b = "none" THEN "idle" ELSE b
      BY <3>1
    <3>. QED
      BY <1>1, <1>2, <3>2, <3>3, <3>4, ChunkFacts
  <2>3. CASE \E k \in {"interim", "stray"} : s = [chunk |-> Piece(k), then |-> "idle"]
    <3>1. PICK k \in {"interim", "stray"} : s = [chunk |-> Piece(k), then |-> "idle"]
      BY <2>3
    <3>2. s.chunk = Piece(k) /\ s.then = "idle"
      BY <3>1
    <3>. QED
      BY <1>2, <3>2, ChunkFacts
  <2>. QED
    BY <2>1, <2>2, <2>3
<1>3. CASE sender[d] \in {"framed", "malformed"}
  <2>1. s.chunk = Piece("rest") /\ s.then = "idle"
    BY <1>3 DEF MaySend
  <2>. QED
    BY <1>3, <2>1, ChunkFacts
<1>4. CASE sender[d] = "untilEOF"
  <2>1. s.chunk = Piece("rest") /\ s.then = "finished"
    BY <1>4 DEF MaySend
  <2>. QED
    BY <1>4, <2>1, ChunkFacts
<1>5. sender[d] # "finished"
  BY DEF MaySend
<1>. QED
  BY <1>2, <1>3, <1>4, <1>5 DEF TypeOK

\* A new relay has the types of the module.
LEMMA TypeInit == Init => TypeOK
<1>. SUFFICES ASSUME Init PROVE TypeOK
  OBVIOUS
<1>1. /\ MaxTeeBacklogChunks \in Nat /\ MaxPipelinedRequests \in Nat
  BY PumpAssumption
<1>2. << >> \in Seq(Chunk) /\ << >> \in Seq(Nat) /\ Len(<< >>) = 0
      /\ << >> \in Seq([msg : Nat, seq : Nat, state : {"complete", "partial"}])
  OBVIOUS
<1>3. /\ chunk \in [Dirs -> Chunk] /\ pipe \in [Dirs -> Chunk]
      /\ msg \in [Dirs -> [id : Nat, body : BodyKinds, seq : Nat]]
  BY ChunkFacts DEF Init, Msg
<1>4. /\ tee \in [Dirs -> Seq(Chunk)] /\ \A d \in Dirs : Len(tee[d]) <= MaxTeeBacklogChunks
      /\ events \in [Dirs -> Seq([msg : Nat, seq : Nat, state : {"complete", "partial"}])]
      /\ queue \in Seq(Nat) /\ Len(queue) <= MaxPipelinedRequests
  BY <1>1, <1>2 DEF Init
<1>5. /\ copier \in [Dirs -> {"read", "write", "tee", "return", "close", "done"}]
      /\ sender \in [Dirs -> {"idle", "framed", "malformed", "untilEOF", "finished"}]
      /\ feeder \in [Dirs -> {"receive", "write", "eof", "aborted"}]
      /\ parser \in [Dirs -> {"head", "pop", "body", "return", "done"}]
  BY DEF Init
<1>6. /\ lost \in [Dirs -> Nat] /\ sent \in [Dirs -> Nat] /\ heads \in [Dirs -> Nat]
      /\ crossed \in [Dirs -> Nat] /\ seq \in Nat /\ opaque \in 0 .. 1
  BY DEF Init
<1>7. /\ detached \in [Dirs -> BOOLEAN] /\ teeClosed \in [Dirs -> BOOLEAN]
      /\ queueClosed \in BOOLEAN /\ derailed \in BOOLEAN /\ over \in BOOLEAN
  BY DEF Init
<1>. QED
  BY <1>3, <1>4, <1>5, <1>6, <1>7 DEF TypeOK

\* Every step of the six goroutines keeps the types.
LEMMA TypeStep == TypeOK /\ [Next]_vars => TypeOK'
<1>. SUFFICES ASSUME TypeOK, [Next]_vars PROVE TypeOK'
  OBVIOUS
<1>. USE DEF Set
<1>k. MaxTeeBacklogChunks \in Nat \ {0} /\ MaxPipelinedRequests \in Nat \ {0}
  BY PumpAssumption
<1>1. ASSUME NEW d \in Dirs, Read(d) PROVE TypeOK'
  <2>1. PICK s \in MaySend(d) :
          /\ chunk' = Set(chunk, d, s.chunk)
          /\ sender' = Set(sender, d, s.then)
          /\ heads' = Set(heads, d, heads[d] + IF s.chunk.kind = "head" THEN 1 ELSE 0)
    BY <1>1 DEF Read
  <2>2. s.chunk \in Chunk /\ s.then \in {"idle", "framed", "malformed", "untilEOF", "finished"}
    BY MaySendFacts
  <2>3. chunk' \in [Dirs -> Chunk] /\ heads' \in [Dirs -> Nat]
        /\ sender' \in [Dirs -> {"idle", "framed", "malformed", "untilEOF", "finished"}]
    BY <2>1, <2>2 DEF TypeOK
  <2>4. sent' \in [Dirs -> Nat]
        /\ copier' \in [Dirs -> {"read", "write", "tee", "return", "close", "done"}]
    BY <1>1 DEF Read, TypeOK
  <2>5. UNCHANGED <<detached, lost, crossed, teeVars, parseVars, opaque, over>>
    BY <1>1 DEF Read
  <2>. QED
    BY <2>3, <2>4, <2>5 DEF TypeOK, teeVars, parseVars
<1>2. ASSUME NEW d \in Dirs, Write(d) PROVE TypeOK'
  <2>1. copier \in [Dirs -> {"read", "write", "tee", "return", "close", "done"}]
        /\ crossed \in [Dirs -> Nat]
    BY DEF TypeOK
  <2>2. copier' \in [Dirs -> {"read", "write", "tee", "return", "close", "done"}]
    BY <1>2, <2>1 DEF Write
  <2>3. PICK n \in {0, 1} : crossed' = Set(crossed, d, crossed[d] + n)
    BY <1>2 DEF Write
  <2>4. crossed[d] + n \in Nat
    BY <2>1
  <2>5. crossed' \in [Dirs -> Nat]
    BY <2>1, <2>3, <2>4
  <2>6. UNCHANGED <<chunk, detached, lost, sender, sent, heads, teeVars, parseVars, opaque, over>>
    BY <1>2 DEF Write
  <2>. QED
    BY <2>2, <2>5, <2>6 DEF TypeOK, teeVars, parseVars
<1>3. ASSUME NEW d \in Dirs, Submit(d) PROVE TypeOK'
  <2>1. /\ copier' \in [Dirs -> {"read", "write", "tee", "return", "close", "done"}]
        /\ chunk' \in [Dirs -> Chunk]
    BY <1>3, ChunkFacts DEF Submit, TypeOK
  <2>2. detached' \in [Dirs -> BOOLEAN] /\ lost' \in [Dirs -> Nat]
    <3>1. detached \in [Dirs -> BOOLEAN] /\ lost \in [Dirs -> Nat] /\ heads[d] \in Nat
      BY DEF TypeOK
    <3>2. detached' = detached \/ detached' = Set(detached, d, TRUE)
      BY <1>3 DEF Submit
    <3>3. lost' = lost \/ lost' = Set(lost, d, heads[d])
      BY <1>3 DEF Submit
    <3>. QED
      BY <3>1, <3>2, <3>3
  <2>3. tee' \in [Dirs -> Seq(Chunk)] /\ \A e \in Dirs : Len(tee'[e]) <= MaxTeeBacklogChunks
    <3>1. CASE UNCHANGED tee
      BY <3>1 DEF TypeOK
    <3>2. CASE Len(tee[d]) < MaxTeeBacklogChunks /\ tee' = Set(tee, d, Append(tee[d], chunk[d]))
      <4>1. PICK t \in Seq(Chunk) : t = tee[d]
        BY DEF TypeOK
      <4>2. PICK c \in Chunk : c = chunk[d]
        BY DEF TypeOK
      <4>3. Append(t, c) \in Seq(Chunk) /\ Len(Append(t, c)) = Len(t) + 1 /\ Len(t) \in Nat
        OBVIOUS
      <4>4. \A e \in Dirs : tee'[e] = IF e = d THEN Append(t, c) ELSE tee[e]
        BY <3>2, <4>1, <4>2 DEF TypeOK
      <4>. QED
        BY <1>k, <3>2, <4>1, <4>3, <4>4 DEF TypeOK
    <3>. QED
      BY <1>3, <3>1, <3>2 DEF Submit
  <2>4. UNCHANGED <<sender, sent, heads, crossed, teeClosed, feeder, pipe, parseVars, opaque, over>>
    BY <1>3 DEF Submit
  <2>. QED
    BY <2>1, <2>2, <2>3, <2>4 DEF TypeOK, parseVars
<1>4. ASSUME NEW d \in Dirs, Return(d) PROVE TypeOK'
  BY <1>4, ChunkFacts DEF Return, TypeOK, teeVars, parseVars
<1>5. ASSUME NEW d \in Dirs, TellDetached(d) PROVE TypeOK'
  <2>1. copier' \in [Dirs -> {"read", "write", "tee", "return", "close", "done"}]
        /\ opaque' \in 0 .. 1
    BY <1>5 DEF TellDetached, MarkOpaque, TypeOK
  <2>2. UNCHANGED <<chunk, detached, lost, sender, sent, heads, crossed, teeVars, parseVars, over>>
    BY <1>5 DEF TellDetached
  <2>. QED
    BY <2>1, <2>2 DEF TypeOK, teeVars, parseVars
<1>c. ASSUME NEW d \in Dirs, CloseTee(d) PROVE TypeOK'
  BY <1>c DEF CloseTee, TypeOK, teeVars, parseVars
<1>6. ASSUME NEW d \in Dirs, Feed(d) PROVE TypeOK'
  <2>1. PICK t \in Seq(Chunk) : t = tee[d] /\ t # << >> /\ Len(t) <= MaxTeeBacklogChunks
    BY <1>6 DEF Feed, TypeOK
  <2>2. Tail(t) \in Seq(Chunk) /\ Len(Tail(t)) <= MaxTeeBacklogChunks /\ t[1] \in Chunk
    BY <1>k, <2>1
  <2>3. tee' \in [Dirs -> Seq(Chunk)] /\ \A e \in Dirs : Len(tee'[e]) <= MaxTeeBacklogChunks
    BY <1>6, <2>1, <2>2 DEF Feed, TypeOK
  <2>4. pipe' \in [Dirs -> Chunk] /\ feeder' \in [Dirs -> {"receive", "write", "eof", "aborted"}]
    BY <1>6, <2>1, <2>2 DEF Feed, TypeOK
  <2>5. UNCHANGED <<copyVars, teeClosed, parseVars, opaque, over>>
    BY <1>6 DEF Feed
  <2>. QED
    BY <2>3, <2>4, <2>5 DEF TypeOK, copyVars, parseVars
<1>7. ASSUME NEW d \in Dirs, FeedFails(d) PROVE TypeOK'
  BY <1>7, ChunkFacts DEF FeedFails, TypeOK, copyVars, parseVars
<1>e. ASSUME NEW d \in Dirs, FeedEnds(d) PROVE TypeOK'
  BY <1>e DEF FeedEnds, TypeOK, copyVars, parseVars
<1>t. ASSUME NEW d \in Dirs, Take(d)
      PROVE  /\ tee' \in [Dirs -> Seq(Chunk)] /\ (\A e \in Dirs : Len(tee'[e]) <= MaxTeeBacklogChunks)
             /\ teeClosed' \in [Dirs -> BOOLEAN]
             /\ feeder' \in [Dirs -> {"receive", "write", "eof", "aborted"}]
             /\ pipe' \in [Dirs -> Chunk]
  BY <1>t, ChunkFacts DEF Take, TypeOK
<1>g. ASSUME NEW d \in Dirs, NEW n \in Nat, NEW b \in BodyKinds, GotHead(d, n, b)
      PROVE  /\ parser' \in [Dirs -> {"head", "pop", "body", "return", "done"}]
             /\ msg' \in [Dirs -> [id : Nat, body : BodyKinds, seq : Nat]]
             /\ seq' \in Nat /\ queue' \in Seq(Nat) /\ Len(queue') <= MaxPipelinedRequests
             /\ opaque' \in 0 .. 1
  <2>1. /\ seq \in Nat /\ seq + 1 \in Nat /\ queue \in Seq(Nat) /\ Len(queue) <= MaxPipelinedRequests
        /\ msg \in [Dirs -> [id : Nat, body : BodyKinds, seq : Nat]] /\ opaque \in 0 .. 1
        /\ parser \in [Dirs -> {"head", "pop", "body", "return", "done"}]
    BY DEF TypeOK
  <2>2. /\ [id |-> n, body |-> b, seq |-> seq + 1] \in [id : Nat, body : BodyKinds, seq : Nat]
        /\ [id |-> n, body |-> b, seq |-> 0] \in [id : Nat, body : BodyKinds, seq : Nat]
    BY <2>1
  <2>3. parser' \in [Dirs -> {"head", "pop", "body", "return", "done"}]
    BY <1>g, <2>1 DEF GotHead
  <2>6. seq' \in Nat
    BY <1>g, <2>1 DEF GotHead
  <2>7. msg' \in [Dirs -> [id : Nat, body : BodyKinds, seq : Nat]]
    <3>1. PICK r \in [id : Nat, body : BodyKinds, seq : Nat] : r = [id |-> n, body |-> b, seq |-> seq + 1]
      BY <2>2
    <3>2. PICK q \in [id : Nat, body : BodyKinds, seq : Nat] : q = [id |-> n, body |-> b, seq |-> 0]
      BY <2>2
    <3>3. msg' = Set(msg, d, r) \/ msg' = Set(msg, d, q) \/ msg' = msg
      BY <1>g, <3>1, <3>2 DEF GotHead
    <3>. QED
      BY <2>1, <3>3
  <2>4. queue' \in Seq(Nat) /\ Len(queue') <= MaxPipelinedRequests
    <3>1. CASE queue' = queue
      BY <2>1, <3>1
    <3>2. CASE queue' = Append(queue, seq + 1) /\ Len(queue) < MaxPipelinedRequests
      BY <1>k, <2>1, <3>2
    <3>. QED
      BY <1>g, <3>1, <3>2 DEF GotHead
  <2>5. opaque' \in 0 .. 1
    BY <1>g, <2>1 DEF GotHead, MarkOpaque
  <2>. QED
    BY <2>3, <2>4, <2>5, <2>6, <2>7
<1>8. ASSUME NEW d \in Dirs, ReadHead(d) PROVE TypeOK'
  <2>1. Take(d) /\ UNCHANGED <<copyVars, queueClosed, events, derailed, over>>
    BY <1>8 DEF ReadHead
  <2>2. /\ parser' \in [Dirs -> {"head", "pop", "body", "return", "done"}]
        /\ msg' \in [Dirs -> [id : Nat, body : BodyKinds, seq : Nat]]
        /\ seq' \in Nat /\ queue' \in Seq(Nat) /\ Len(queue') <= MaxPipelinedRequests
        /\ opaque' \in 0 .. 1
    <3>1. pipe[d].id \in Nat /\ pipe[d].body \in BodyKinds /\ 0 \in Nat /\ "none" \in BodyKinds
      BY ChunkFacts DEF TypeOK, BodyKinds
    <3>2. CASE GotHead(d, pipe[d].id, pipe[d].body)
      BY <1>g, <3>1, <3>2
    <3>3. CASE GotHead(d, 0, "none")
      BY <1>g, <3>1, <3>3
    <3>4. CASE FramingLost(d)
      BY <3>4 DEF FramingLost, MarkOpaque, TypeOK
    <3>5. CASE UNCHANGED <<parser, msg, seq, queue, opaque>>
      BY <3>5 DEF TypeOK
    <3>. QED
      BY <1>8, <3>2, <3>3, <3>4, <3>5 DEF ReadHead
  <2>3. tee' \in [Dirs -> Seq(Chunk)] /\ (\A e \in Dirs : Len(tee'[e]) <= MaxTeeBacklogChunks)
        /\ teeClosed' \in [Dirs -> BOOLEAN]
        /\ feeder' \in [Dirs -> {"receive", "write", "eof", "aborted"}]
        /\ pipe' \in [Dirs -> Chunk]
    BY <1>t, <2>1
  <2>. QED
    BY <2>1, <2>2, <2>3 DEF TypeOK, copyVars
<1>9. ASSUME NEW d \in Dirs, HeadEOF(d) \/ ParserDone(d) PROVE TypeOK'
  BY <1>9 DEF HeadEOF, EOF, ParserDone, TypeOK, copyVars, teeVars
<1>10. CASE PopQueue
  <2>1. /\ parser' \in [Dirs -> {"head", "pop", "body", "return", "done"}]
        /\ msg' \in [Dirs -> [id : Nat, body : BodyKinds, seq : Nat]]
        /\ queue' \in Seq(Nat) /\ Len(queue') <= MaxPipelinedRequests /\ opaque' \in 0 .. 1
    <3>1. CASE /\ queue # << >> /\ msg' = [msg EXCEPT !["response"].seq = queue[1]]
               /\ queue' = Tail(queue) /\ parser' = Set(parser, "response", "body") /\ UNCHANGED opaque
      <4>1. queue[1] \in Nat /\ Tail(queue) \in Seq(Nat) /\ Len(Tail(queue)) <= MaxPipelinedRequests
        BY <1>k, <3>1 DEF TypeOK
      <4>. QED
        BY <3>1, <4>1 DEF TypeOK, Dirs
    <3>2. CASE MarkOpaque /\ parser' = Set(parser, "response", "return") /\ UNCHANGED <<msg, queue>>
      BY <3>2 DEF MarkOpaque, TypeOK, Dirs
    <3>. QED
      BY <1>10, <3>1, <3>2 DEF PopQueue
  <2>. QED
    BY <1>10, <2>1 DEF PopQueue, TypeOK, copyVars, teeVars
<1>11. ASSUME NEW d \in Dirs, ReadBody(d) PROVE TypeOK'
  <2>1. UNCHANGED <<copyVars, msg, seq, queue, queueClosed, opaque, over>> /\ derailed' \in BOOLEAN
    BY <1>11 DEF ReadBody, TypeOK
  <2>2. parser' \in [Dirs -> {"head", "pop", "body", "return", "done"}]
    <3>1. parser \in [Dirs -> {"head", "pop", "body", "return", "done"}]
      BY DEF TypeOK
    <3>2. parser' = parser \/ parser' = Set(parser, d, "head")
      BY <1>11 DEF ReadBody
    <3>. QED
      BY <3>1, <3>2
  <2>3. tee' \in [Dirs -> Seq(Chunk)] /\ (\A e \in Dirs : Len(tee'[e]) <= MaxTeeBacklogChunks)
        /\ teeClosed' \in [Dirs -> BOOLEAN]
        /\ feeder' \in [Dirs -> {"receive", "write", "eof", "aborted"}]
        /\ pipe' \in [Dirs -> Chunk]
    <3>1. CASE Take(d)
      BY <1>t, <3>1
    <3>2. CASE UNCHANGED teeVars
      BY <3>2 DEF teeVars, TypeOK
    <3>. QED
      BY <1>11, <3>1, <3>2 DEF ReadBody, EOF
  <2>4. events' \in [Dirs -> Seq([msg : Nat, seq : Nat, state : {"complete", "partial"}])]
    <3>1. CASE UNCHANGED events
      BY <3>1 DEF TypeOK
    <3>2. ASSUME NEW s \in {"complete", "partial"}, Publish(d, msg[d], s)
          PROVE  events' \in [Dirs -> Seq([msg : Nat, seq : Nat, state : {"complete", "partial"}])]
      <4>1. PICK x \in Event : x = [msg |-> msg[d].id, seq |-> msg[d].seq, state |-> s]
        BY DEF TypeOK, Event
      <4>2. PICK es \in Seq(Event) : es = events[d]
        BY DEF TypeOK, Event
      <4>3. Append(es, x) \in Seq(Event)
        OBVIOUS
      <4>4. events' = [events EXCEPT ![d] = Append(es, x)]
        BY <3>2, <4>1, <4>2 DEF Publish
      <4>. QED
        BY <4>3, <4>4 DEF TypeOK, Event
    <3>. QED
      BY <1>11, <3>1, <3>2 DEF ReadBody
  <2>. QED
    BY <2>1, <2>2, <2>3, <2>4 DEF TypeOK, copyVars
<1>12. CASE RelayDone \/ Finished \/ UNCHANGED vars
  BY <1>12 DEF RelayDone, Finished, TypeOK, vars, copyVars, teeVars, parseVars
<1>. QED
  BY <1>1, <1>2, <1>3, <1>4, <1>5, <1>c, <1>6, <1>7, <1>e, <1>8, <1>9, <1>10, <1>11, <1>12
     DEF Next, Copy, Feeder, Parse

-----------------------------------------------------------------------------
(* What a parser has read, what is on its way to it, and what was teed last. *)

\* A place in what a peer sends: what it is in the middle of, after how many heads.
Place == [st : {"idle", "framed", "malformed", "untilEOF", "finished"}, h : Nat]

Mid(b) == IF b = "none" THEN "idle" ELSE b

Between(k) == k.st \in {"idle", "finished"}

\* Chunk c takes a peer from place k to place l.
Moves(k, c, l) ==
    \/ c.kind = "head" /\ k.st = "idle" /\ c.id = k.h + 1 /\ l.st = Mid(c.body) /\ l.h = k.h + 1
    \/ c.kind \in {"interim", "stray"} /\ k.st = "idle" /\ l.st = "idle" /\ l.h = k.h
    \/ c.kind = "rest" /\ k.st \in {"framed", "malformed"} /\ l.st = "idle" /\ l.h = k.h
    \/ c.kind = "rest" /\ k.st = "untilEOF" /\ l.st = "finished" /\ l.h = k.h

\* Place a is b or comes before it.
Leads(a, b) == a.h < b.h \/ (a.h = b.h /\ (Between(a) => Between(b)))

\* From the place k of the parser, through the pipe and the tee, to the place c after
\* the last chunk that was teed: at[i] is the place before chunk i of the tee.
Path(d, k, at, c) ==
    /\ at[Len(tee[d]) + 1] = c
    /\ IF feeder[d] = "write" THEN Moves(k, pipe[d], at[1]) ELSE at[1] = k
    /\ \A i \in 1 .. Len(tee[d]) : Moves(at[i], tee[d][i], at[i + 1])
    /\ Leads(k, c) /\ \A i \in 1 .. Len(tee[d]) + 1 : Leads(at[i], c)

\* What the parser does at place k.  A complete event is of an earlier message, or of the
\* one whose end it has read or the end of the tee has stood for.
Reader(d, k) ==
    /\ parser[d] = "head" => \/ feeder[d] = "eof" \/ k.st = "idle"
                             \/ derailed /\ k.st = "malformed"
    /\ parser[d] \in {"pop", "body"} =>
          \/ /\ msg[d].id = k.h
             /\ k.st = Mid(msg[d].body) \/ (msg[d].body = "untilEOF" /\ k.st = "finished")
          \/ derailed /\ msg[d].id = 0 /\ msg[d].body = "none" /\ k.st = "idle"
    /\ \A i \in DOMAIN events[d] : events[d][i].state = "complete" /\ events[d][i].msg # 0 =>
          \/ events[d][i].msg < k.h
          \/ events[d][i].msg = k.h /\ (Between(k) \/ feeder[d] = "eof")
    /\ ~derailed => k.h = Len(events[d]) + IF parser[d] \in {"pop", "body"} THEN 1 ELSE 0

\* What was delivered, and what was lost, after the last chunk that was teed.
Writer(d, c) ==
    IF detached[d]
    THEN /\ c.h <= crossed[d]
         /\ lost[d] # 0 => c.h < lost[d] \/ (c.h = lost[d] /\ ~Between(c))
    ELSE /\ copier[d] = "read" => /\ c.st = sender[d] /\ c.h = heads[d]
         /\ copier[d] \in {"write", "tee"} =>
               Moves(c, chunk[d], [st |-> sender[d], h |-> heads[d]])
         /\ crossed[d] = IF copier[d] = "tee" THEN heads[d] ELSE c.h

Stream(d) == \E k, c \in Place : \E at \in [1 .. Len(tee[d]) + 1 -> Place] :
                 Path(d, k, at, c) /\ Reader(d, k) /\ Writer(d, c)

\* How the goroutines of a direction end.
Ending(d) ==
    /\ feeder[d] = "eof" => tee[d] = << >> /\ teeClosed[d]
    /\ teeClosed[d] => copier[d] = "done"
    /\ copier[d] \in {"close", "done"} /\ detached[d] => opaque = 1
    /\ ~detached[d] => lost[d] = 0
    /\ feeder[d] = "aborted" => parser[d] = "done"
    /\ over => copier[d] = "done" /\ parser[d] = "done" /\ feeder[d] \in {"eof", "aborted"}
    /\ parser[d] \in {"return", "done"} =>
          \/ opaque = 1
          \/ feeder[d] = "eof" /\ (~derailed => Len(events[d]) = crossed[d])

Honest(d) == \A i \in DOMAIN events[d] :
                lost[d] # 0 /\ events[d][i].msg = lost[d] /\ events[d][i].state = "complete"
                    => opaque = 1

\* The responses numbered so far.
Popped == Len(events["response"]) + IF parser["response"] = "body" THEN 1 ELSE 0

Numbers ==
    ~derailed =>
       /\ \A i \in DOMAIN queue : queue[i] = Popped + i
       /\ parser["request"] \in {"head", "body"} =>
             /\ seq = Popped + Len(queue)
             /\ seq = Len(events["request"]) + IF parser["request"] = "body" THEN 1 ELSE 0
       /\ \A d \in Dirs : parser[d] = "body" => msg[d].seq = Len(events[d]) + 1
       /\ \A d \in Dirs, i \in Nat : i \in DOMAIN events[d] =>
             events[d][i].msg = i /\ events[d][i].seq = i

Flow(d) == parser[d] \in {"head", "pop", "body"} => Stream(d)

DirInv(d) == Flow(d) /\ Ending(d) /\ Honest(d)

PumpInv == parser["request"] # "pop" /\ Numbers /\ \A d \in Dirs : DirInv(d)

-----------------------------------------------------------------------------
(* A step of one direction, and the other one. *)

CopySame(e) == /\ copier'[e] = copier[e] /\ chunk'[e] = chunk[e] /\ detached'[e] = detached[e]
               /\ lost'[e] = lost[e] /\ sender'[e] = sender[e] /\ heads'[e] = heads[e]
               /\ crossed'[e] = crossed[e]
TeeSame(e) == /\ tee'[e] = tee[e] /\ teeClosed'[e] = teeClosed[e]
              /\ feeder'[e] = feeder[e] /\ pipe'[e] = pipe[e]
ParseSame(e) == parser'[e] = parser[e] /\ msg'[e] = msg[e] /\ events'[e] = events[e]
Same(e) == CopySame(e) /\ TeeSame(e) /\ ParseSame(e)

\* What is told stays told.
Told == (derailed => derailed') /\ (opaque = 1 => opaque' = 1)

DirStep(d) == Read(d) \/ Write(d) \/ Return(d) \/ Copy(d) \/ Feeder(d) \/ Parse(d)

\* What a step of direction d leaves alone.
LEMMA Frame ==
    ASSUME TypeOK, NEW d \in Dirs, DirStep(d)
    PROVE  /\ \A e \in Dirs : e # d => Same(e)
           /\ Told /\ over' = over
<1>. USE DEF Set
<1>c. ASSUME UNCHANGED <<teeVars, parseVars>>, NEW e \in Dirs PROVE TeeSame(e) /\ ParseSame(e)
  BY <1>c DEF teeVars, parseVars, TeeSame, ParseSame
<1>t. ASSUME UNCHANGED copyVars, NEW e \in Dirs PROVE CopySame(e)
  BY <1>t DEF copyVars, CopySame
<1>p. ASSUME UNCHANGED parseVars, NEW e \in Dirs PROVE ParseSame(e)
  BY <1>p DEF parseVars, ParseSame
<1>1. CASE Read(d)
  <2>1. \A e \in Dirs : e # d => CopySame(e)
    BY <1>1 DEF Read, CopySame, TypeOK
  <2>. QED
    BY <1>1, <1>c, <2>1 DEF Read, Same, Told, parseVars
<1>2. CASE Write(d)
  <2>1. \A e \in Dirs : e # d => CopySame(e)
    BY <1>2 DEF Write, CopySame, TypeOK
  <2>. QED
    BY <1>2, <1>c, <2>1 DEF Write, Same, Told, parseVars
<1>3. CASE Return(d)
  <2>1. \A e \in Dirs : e # d => CopySame(e)
    BY <1>3 DEF Return, CopySame, TypeOK
  <2>. QED
    BY <1>3, <1>c, <2>1 DEF Return, Same, Told, parseVars
<1>4. CASE Submit(d)
  <2>1. \A e \in Dirs : e # d => CopySame(e)
    BY <1>4 DEF Submit, CopySame, TypeOK
  <2>2. \A e \in Dirs : e # d => TeeSame(e)
    BY <1>4 DEF Submit, TeeSame, TypeOK
  <2>. QED
    BY <1>4, <1>p, <2>1, <2>2 DEF Submit, Same, Told, parseVars
<1>5. CASE TellDetached(d)
  <2>1. \A e \in Dirs : e # d => CopySame(e)
    BY <1>5 DEF TellDetached, CopySame, TypeOK
  <2>2. opaque = 1 => opaque' = 1
    BY <1>5 DEF TellDetached, MarkOpaque
  <2>. QED
    BY <1>5, <1>c, <2>1, <2>2 DEF TellDetached, Same, Told, parseVars
<1>6. CASE CloseTee(d)
  <2>1. \A e \in Dirs : e # d => CopySame(e) /\ TeeSame(e)
    BY <1>6 DEF CloseTee, CopySame, TeeSame, TypeOK
  <2>. QED
    BY <1>6, <1>p, <2>1 DEF CloseTee, Same, Told, parseVars
<1>7. CASE Feeder(d)
  <2>1. UNCHANGED <<copyVars, parseVars, opaque, over>>
    BY <1>7 DEF Feeder, Feed, FeedFails, FeedEnds
  <2>2. ASSUME Feed(d), NEW e \in Dirs, e # d PROVE TeeSame(e)
    BY <2>2 DEF Feed, TeeSame, TypeOK
  <2>3. ASSUME FeedFails(d), NEW e \in Dirs, e # d PROVE TeeSame(e)
    BY <2>3 DEF FeedFails, TeeSame, TypeOK
  <2>4. ASSUME FeedEnds(d), NEW e \in Dirs, e # d PROVE TeeSame(e)
    BY <2>4 DEF FeedEnds, TeeSame, TypeOK
  <2>5. \A e \in Dirs : e # d => TeeSame(e)
    BY <1>7, <2>2, <2>3, <2>4 DEF Feeder
  <2>. QED
    BY <1>p, <1>t, <2>1, <2>5 DEF Same, Told, parseVars
<1>8. CASE Parse(d)
  <2>1. UNCHANGED <<copyVars, over>>
    BY <1>8 DEF Parse, ReadHead, HeadEOF, ReadBody, ParserDone, PopQueue
  <2>f. feeder \in [Dirs -> {"receive", "write", "eof", "aborted"}] /\ pipe \in [Dirs -> Chunk]
    BY DEF TypeOK
  <2>p. parser \in [Dirs -> {"head", "pop", "body", "return", "done"}]
        /\ msg \in [Dirs -> [id : Nat, body : BodyKinds, seq : Nat]]
    BY DEF TypeOK
  <2>2. \A e \in Dirs : e # d => TeeSame(e)
    <3>1. Take(d) \/ UNCHANGED teeVars
      BY <1>8 DEF Parse, ReadHead, HeadEOF, ReadBody, ParserDone, PopQueue, EOF
    <3>2. CASE Take(d)
      BY <2>f, <3>2 DEF Take, TeeSame
    <3>3. CASE UNCHANGED teeVars
      BY <3>3 DEF teeVars, TeeSame
    <3>. QED
      BY <3>1, <3>2, <3>3
  <2>3. \A e \in Dirs : e # d => ParseSame(e)
    <3>1. CASE ReadHead(d)
      <4>1. \A e \in Dirs : e # d => parser'[e] = parser[e]
        BY <2>p, <3>1 DEF ReadHead, GotHead, FramingLost
      <4>2. \A e \in Dirs : e # d => msg'[e] = msg[e]
        <5>1. msg' = msg \/ \E v : msg' = Set(msg, d, v)
          BY <3>1 DEF ReadHead, GotHead, FramingLost
        <5>. QED
          BY <2>p, <5>1
      <4>. QED
        BY <3>1, <4>1, <4>2 DEF ReadHead, ParseSame
    <3>2. CASE HeadEOF(d)
      BY <2>p, <3>2 DEF HeadEOF, ParseSame
    <3>3. CASE ReadBody(d)
      <4>0. DOMAIN events = Dirs
        BY DEF TypeOK
      <4>1. /\ parser' = parser \/ \E v : parser' = Set(parser, d, v)
            /\ events' = events \/ \E v : events' = Set(events, d, v)
        BY <3>3 DEF ReadBody, Publish
      <4>2. \A e \in Dirs : e # d => parser'[e] = parser[e] /\ events'[e] = events[e]
        BY <2>p, <4>0, <4>1
      <4>. QED
        BY <3>3, <4>2 DEF ReadBody, ParseSame
    <3>4. CASE ParserDone(d)
      BY <3>4 DEF ParserDone, ParseSame, TypeOK
    <3>5. CASE d = "response" /\ PopQueue
      <4>1. /\ \E v : parser' = Set(parser, d, v)
            /\ msg' = msg \/ msg' = [msg EXCEPT ![d].seq = queue[1]]
            /\ events' = events
        BY <3>5 DEF PopQueue
      <4>. QED
        BY <2>p, <4>1 DEF ParseSame
    <3>. QED
      BY <1>8, <3>1, <3>2, <3>3, <3>4, <3>5 DEF Parse
  <2>4. Told
    <3>1. UNCHANGED opaque \/ MarkOpaque
      BY <1>8 DEF Parse, ReadHead, GotHead, FramingLost, HeadEOF, ReadBody, ParserDone, PopQueue
    <3>2. derailed' = derailed \/ derailed' = (derailed \/ msg[d].body = "malformed")
      BY <1>8 DEF Parse, ReadHead, HeadEOF, ReadBody, ParserDone, PopQueue
    <3>3. opaque = 1 => opaque' = 1
      BY <3>1 DEF MarkOpaque
    <3>4. derailed => derailed'
      BY <3>2
    <3>. QED
      BY <3>3, <3>4 DEF Told
  <2>. QED
    BY <1>t, <2>1, <2>2, <2>3, <2>4 DEF Same
<1>. QED
  BY <1>1, <1>2, <1>3, <1>4, <1>5, <1>6, <1>7, <1>8 DEF DirStep, Copy

\* A direction of which nothing changes keeps its invariant.
LEMMA Stays ==
    ASSUME TypeOK, NEW e \in Dirs, DirInv(e), Same(e), Told, over' = over
    PROVE  DirInv(e)'
<1>1. Flow(e)'
  <2>1. SUFFICES ASSUME Stream(e) PROVE Stream(e)'
    BY DEF DirInv, Flow, Same, ParseSame
  <2>2. PICK k, c \in Place : \E at \in [1 .. Len(tee[e]) + 1 -> Place] :
                                 Path(e, k, at, c) /\ Reader(e, k) /\ Writer(e, c)
    BY <2>1 DEF Stream
  <2>3. PICK at \in [1 .. Len(tee[e]) + 1 -> Place] :
               Path(e, k, at, c) /\ Reader(e, k) /\ Writer(e, c)
    BY <2>2
  <2>4. Path(e, k, at, c)'
    BY <2>3 DEF Path, Same, TeeSame
  <2>5. Reader(e, k)'
    BY <2>3 DEF Reader, Same, TeeSame, ParseSame, Told
  <2>6. Writer(e, c)'
    BY <2>3 DEF Writer, Same, CopySame
  <2>7. at \in [1 .. Len(tee'[e]) + 1 -> Place]
    BY <2>3 DEF Same, TeeSame
  <2>. QED
    BY <2>4, <2>5, <2>6, <2>7 DEF Stream
<1>2. Ending(e)'
  BY DEF DirInv, Ending, Same, CopySame, TeeSame, ParseSame, Told
<1>3. Honest(e)'
  BY DEF DirInv, Honest, Same, CopySame, ParseSame, Told
<1>. QED
  BY <1>1, <1>2, <1>3 DEF DirInv

\* What the forwarding goroutine does changes what was delivered and what is on its way,
\* as long as the tee stays.
LEMMA WriterMoves ==
    ASSUME NEW d \in Dirs, Flow(d), TeeSame(d), ParseSame(d), Told,
           \A c \in Place : Writer(d, c) => Writer(d, c)'
    PROVE  Flow(d)'
<1>1. SUFFICES ASSUME Stream(d) PROVE Stream(d)'
  BY DEF Flow, ParseSame
<1>2. PICK k, c \in Place : \E at \in [1 .. Len(tee[d]) + 1 -> Place] :
                               Path(d, k, at, c) /\ Reader(d, k) /\ Writer(d, c)
  BY <1>1 DEF Stream
<1>3. PICK at \in [1 .. Len(tee[d]) + 1 -> Place] :
             Path(d, k, at, c) /\ Reader(d, k) /\ Writer(d, c)
  BY <1>2
<1>4. Path(d, k, at, c)'
  BY <1>3 DEF Path, TeeSame
<1>5. Reader(d, k)'
  BY <1>3 DEF Reader, TeeSame, ParseSame, Told
<1>6. at \in [1 .. Len(tee'[d]) + 1 -> Place] /\ Writer(d, c)'
  BY <1>3 DEF TeeSame
<1>. QED
  BY <1>4, <1>5, <1>6 DEF Stream

\* src.Read returns a chunk: the next one its sender may send.
LEMMA ReadKeeps ==
    ASSUME TypeOK, NEW d \in Dirs, Read(d), Flow(d), Ending(d)
    PROVE  Flow(d)' /\ Ending(d)'
<1>. USE DEF Set
<1>1. PICK s \in MaySend(d) :
          /\ chunk' = Set(chunk, d, s.chunk)
          /\ sender' = Set(sender, d, s.then)
          /\ heads' = Set(heads, d, heads[d] + IF s.chunk.kind = "head" THEN 1 ELSE 0)
  BY DEF Read
<1>2. /\ chunk'[d] = s.chunk /\ sender'[d] = s.then
      /\ heads'[d] = heads[d] + IF s.chunk.kind = "head" THEN 1 ELSE 0
  BY <1>1 DEF TypeOK
<1>3. /\ copier[d] = "read" /\ copier'[d] = "write" /\ detached' = detached
      /\ lost' = lost /\ crossed' = crossed
  BY DEF Read, TypeOK
<1>4. UNCHANGED <<teeVars, parseVars, opaque, over>>
  BY DEF Read
<1>5. TeeSame(d) /\ ParseSame(d) /\ Told
  BY <1>4 DEF TeeSame, ParseSame, Told, teeVars, parseVars
<1>6. heads[d] \in Nat
  BY DEF TypeOK
<1>7. ASSUME NEW c \in Place, Writer(d, c) PROVE Writer(d, c)'
  <2>1. CASE detached[d]
    BY <1>3, <1>7, <2>1 DEF Writer
  <2>2. CASE ~detached[d]
    <3>1. c.st = sender[d] /\ c.h = heads[d] /\ crossed[d] = c.h
      BY <1>3, <1>7, <2>2 DEF Writer
    <3>2. Moves(c, chunk'[d], [st |-> sender'[d], h |-> heads'[d]])
      BY <1>2, <1>6, <3>1, MaySendFacts DEF Moves, Mid
    <3>. QED
      BY <1>3, <2>2, <3>1, <3>2 DEF Writer
  <2>. QED
    BY <2>1, <2>2
<1>8. Ending(d)'
  BY <1>3, <1>4 DEF Ending, teeVars, parseVars
<1>. QED
  BY <1>5, <1>7, <1>8, WriterMoves

\* dst.Write delivers it, or the read or the write fails.
LEMMA WriteKeeps ==
    ASSUME TypeOK, NEW d \in Dirs, Write(d) \/ Return(d), Flow(d), Ending(d)
    PROVE  Flow(d)' /\ Ending(d)'
<1>. USE DEF Set
<1>1. /\ detached' = detached /\ lost' = lost /\ sender' = sender /\ heads' = heads
      /\ UNCHANGED <<teeVars, parseVars, opaque, over>>
  BY DEF Write, Return
<1>2. TeeSame(d) /\ ParseSame(d) /\ Told
  BY <1>1 DEF TeeSame, ParseSame, Told, teeVars, parseVars
<1>3. heads[d] \in Nat /\ crossed[d] \in Nat
  BY DEF TypeOK
<1>4. CASE Write(d)
  <2>1. /\ copier[d] = "write" /\ copier'[d] = "tee" /\ chunk' = chunk
        /\ crossed'[d] = crossed[d] + IF chunk[d].kind = "head" THEN 1 ELSE 0
    BY <1>4 DEF Write, TypeOK
  <2>2. ASSUME NEW c \in Place, Writer(d, c) PROVE Writer(d, c)'
    <3>0. c.h \in Nat
      BY DEF Place
    <3>1. CASE detached[d]
      BY <1>1, <1>3, <2>1, <2>2, <3>0, <3>1 DEF Writer
    <3>2. CASE ~detached[d]
      <4>1. Moves(c, chunk[d], [st |-> sender[d], h |-> heads[d]]) /\ crossed[d] = c.h
        BY <2>1, <2>2, <3>2 DEF Writer
      <4>2. crossed'[d] = heads[d]
        BY <1>3, <2>1, <3>0, <4>1 DEF Moves
      <4>. QED
        BY <1>1, <2>1, <3>2, <4>1, <4>2 DEF Writer
    <3>. QED
      BY <3>1, <3>2
  <2>3. Ending(d)'
    BY <1>1, <2>1 DEF Ending, teeVars, parseVars
  <2>. QED
    BY <1>2, <2>2, <2>3, WriterMoves
<1>5. CASE Return(d)
  <2>1. copier[d] \in {"read", "write"} /\ copier'[d] = "return" /\ crossed' = crossed
    BY <1>5 DEF Return, TypeOK
  <2>2. ASSUME NEW c \in Place, Writer(d, c) PROVE Writer(d, c)'
    BY <1>1, <2>1, <2>2 DEF Writer
  <2>3. Ending(d)'
    BY <1>1, <2>1 DEF Ending, teeVars, parseVars
  <2>. QED
    BY <1>2, <2>2, <2>3, WriterMoves
<1>. QED
  BY <1>4, <1>5

\* cp tells of a detached tee, and closes it.
LEMMA CloseKeeps ==
    ASSUME TypeOK, NEW d \in Dirs, TellDetached(d) \/ CloseTee(d), Flow(d), Ending(d)
    PROVE  Flow(d)' /\ Ending(d)'
<1>. USE DEF Set
<1>1. /\ chunk' = chunk /\ detached' = detached /\ lost' = lost /\ sender' = sender
      /\ heads' = heads /\ crossed' = crossed /\ over' = over
      /\ tee' = tee /\ feeder' = feeder /\ pipe' = pipe /\ UNCHANGED parseVars
  BY DEF TellDetached, CloseTee, teeVars
<1>2. \/ /\ copier[d] = "return" /\ copier'[d] = "close" /\ teeClosed' = teeClosed
         /\ (detached[d] => opaque' = 1)
      \/ /\ copier[d] = "close" /\ copier'[d] = "done" /\ teeClosed'[d] = TRUE
         /\ opaque' = opaque
  <2>1. CASE TellDetached(d)
    <3>1. detached[d] => opaque' = 1
      BY <2>1 DEF TellDetached, MarkOpaque, TypeOK
    <3>. QED
      BY <2>1, <3>1 DEF TellDetached, teeVars, TypeOK
  <2>2. CASE CloseTee(d)
    BY <2>2 DEF CloseTee, TypeOK
  <2>. QED
    BY <2>1, <2>2
<1>3. ParseSame(d) /\ Told
  <2>1. UNCHANGED opaque \/ MarkOpaque
    BY DEF TellDetached, CloseTee
  <2>. QED
    BY <1>1, <2>1 DEF ParseSame, Told, parseVars, MarkOpaque
<1>4. Flow(d)'
  <2>1. SUFFICES ASSUME Stream(d) PROVE Stream(d)'
    BY <1>3 DEF Flow, ParseSame
  <2>2. PICK k, c \in Place : \E at \in [1 .. Len(tee[d]) + 1 -> Place] :
                                 Path(d, k, at, c) /\ Reader(d, k) /\ Writer(d, c)
    BY <2>1 DEF Stream
  <2>3. PICK at \in [1 .. Len(tee[d]) + 1 -> Place] :
               Path(d, k, at, c) /\ Reader(d, k) /\ Writer(d, c)
    BY <2>2
  <2>4. Path(d, k, at, c)'
    BY <1>1, <2>3 DEF Path
  <2>5. Reader(d, k)'
    BY <1>1, <1>3, <2>3 DEF Reader, ParseSame, Told
  <2>6. Writer(d, c)'
    BY <1>1, <1>2, <2>3 DEF Writer
  <2>. QED
    BY <1>1, <2>4, <2>5, <2>6 DEF Stream
<1>5. Ending(d)'
  BY <1>1, <1>2, <1>3 DEF Ending, ParseSame, Told, parseVars
<1>. QED
  BY <1>4, <1>5

\* A chunk that takes the parser from one place to another leads there.
LEMMA MovesLeads ==
    ASSUME NEW k \in Place, NEW l \in Place, NEW c, Moves(k, c, l)
    PROVE  Leads(k, l)
  BY DEF Place, Moves, Leads, Between

\* Leading to a place is transitive.
LEMMA LeadsOn ==
    ASSUME NEW a \in Place, NEW b \in Place, NEW c \in Place, Leads(a, b), Leads(b, c)
    PROVE  Leads(a, c)
  BY DEF Place, Leads

\* tee.submit accepts the chunk, or the tee is detached, and this chunk is the first lost.
LEMMA SubmitKeeps ==
    ASSUME TypeOK, NEW d \in Dirs, Submit(d), Flow(d), Ending(d)
    PROVE  Flow(d)' /\ Ending(d)'
<1>. USE DEF Set
<1>1. /\ copier[d] = "tee" /\ copier'[d] = "read" /\ sender' = sender /\ heads' = heads
      /\ crossed' = crossed /\ teeClosed' = teeClosed /\ feeder' = feeder /\ pipe' = pipe
      /\ over' = over /\ opaque' = opaque /\ UNCHANGED parseVars
  BY DEF Submit, TypeOK
<1>2. ParseSame(d) /\ Told
  BY <1>1 DEF ParseSame, Told, parseVars
<1>3. heads[d] \in Nat /\ crossed[d] \in Nat
  BY DEF TypeOK
<1>4. Ending(d)'
  <2>1. ~over /\ ~teeClosed[d] /\ feeder[d] # "eof"
    BY <1>1 DEF Ending
  <2>2. ~detached'[d] => lost'[d] = 0
    BY DEF Ending, Submit, TypeOK
  <2>. QED
    BY <1>1, <1>2, <2>1, <2>2 DEF Ending, ParseSame
<1>5. CASE UNCHANGED tee /\ detached'[d] = TRUE
  <2>1. TeeSame(d)
    BY <1>1, <1>5 DEF TeeSame
  <2>2. lost'[d] = IF detached[d] \/ chunk[d].kind \notin {"head", "rest"} THEN lost[d] ELSE heads[d]
    <3>1. CASE /\ detached[d] \/ Len(tee[d]) = MaxTeeBacklogChunks
               /\ lost' = IF detached[d] \/ chunk[d].kind \notin {"head", "rest"}
                          THEN lost ELSE Set(lost, d, heads[d])
      BY <3>1 DEF TypeOK
    <3>2. detached' # detached \/ detached[d]
      BY <1>5
    <3>. QED
      BY <1>5, <3>1, <3>2 DEF Submit
  <2>3. ASSUME NEW c \in Place, Writer(d, c) PROVE Writer(d, c)'
    <3>0. c.h \in Nat
      BY DEF Place
    <3>1. CASE detached[d]
      BY <1>1, <1>5, <2>2, <2>3, <3>1 DEF Writer
    <3>2. CASE ~detached[d]
      <4>1. Moves(c, chunk[d], [st |-> sender[d], h |-> heads[d]]) /\ crossed[d] = heads[d]
        BY <1>1, <2>3, <3>2 DEF Writer
      <4>2. c.h <= crossed[d]
        BY <1>3, <3>0, <4>1 DEF Moves
      <4>3. lost'[d] # 0 => c.h < lost'[d] \/ (c.h = lost'[d] /\ ~Between(c))
        <5>1. CASE chunk[d].kind \notin {"head", "rest"}
          BY <2>2, <3>2, <5>1 DEF Ending
        <5>2. CASE chunk[d].kind = "head"
          BY <1>3, <2>2, <3>0, <3>2, <4>1, <5>2 DEF Moves
        <5>3. CASE chunk[d].kind = "rest"
          BY <1>3, <2>2, <3>0, <3>2, <4>1, <5>3 DEF Moves, Between
        <5>. QED
          BY <5>1, <5>2, <5>3
      <4>. QED
        BY <1>1, <1>5, <4>2, <4>3 DEF Writer
    <3>. QED
      BY <3>1, <3>2
  <2>. QED
    BY <1>2, <1>4, <2>1, <2>3, WriterMoves
<1>6. CASE /\ ~detached[d] /\ tee' = Set(tee, d, Append(tee[d], chunk[d]))
           /\ detached' = detached /\ lost' = lost
  <2>1. SUFFICES ASSUME Stream(d) PROVE Stream(d)'
    BY <1>2, <1>4 DEF Flow, ParseSame
  <2>2. PICK k, c \in Place : \E at \in [1 .. Len(tee[d]) + 1 -> Place] :
                                 Path(d, k, at, c) /\ Reader(d, k) /\ Writer(d, c)
    BY <2>1 DEF Stream
  <2>3. PICK at \in [1 .. Len(tee[d]) + 1 -> Place] :
               Path(d, k, at, c) /\ Reader(d, k) /\ Writer(d, c)
    BY <2>2
  <2>4. PICK n \in Nat : n = Len(tee[d])
    BY DEF TypeOK
  <2>5. /\ Len(tee'[d]) = n + 1 /\ tee'[d][n + 1] = chunk[d]
        /\ \A i \in 1 .. n : tee'[d][i] = tee[d][i]
    <3>1. PICK t \in Seq(Chunk) : t = tee[d]
      BY DEF TypeOK
    <3>2. PICK x \in Chunk : x = chunk[d]
      BY DEF TypeOK
    <3>3. tee'[d] = Append(t, x)
      BY <1>6, <3>1, <3>2 DEF TypeOK
    <3>. QED
      BY <2>4, <3>1, <3>2, <3>3
  <2>6. PICK e \in Place : e = [st |-> sender[d], h |-> heads[d]]
    BY DEF Place, TypeOK
  <2>7. Moves(c, chunk[d], e) /\ crossed[d] = heads[d]
    BY <1>1, <1>6, <2>3, <2>6 DEF Writer
  <2>8. Leads(c, e)
    BY <2>7, MovesLeads
  <2>9. at \in [1 .. n + 1 -> Place] /\ at[n + 1] = c
    BY <2>3, <2>4 DEF Path
  <2>. DEFINE to == [i \in 1 .. n + 2 |-> IF i <= n + 1 THEN at[i] ELSE e]
  <2>10. /\ to \in [1 .. n + 2 -> Place] /\ to[n + 2] = e
         /\ \A i \in 1 .. n + 1 : to[i] = at[i]
    BY <2>4, <2>9
  <2>. HIDE DEF to
  <2>11. Path(d, k, to, e)'
    <3>1. to[Len(tee'[d]) + 1] = e
      BY <2>4, <2>5, <2>10
    <3>2. IF feeder'[d] = "write" THEN Moves(k, pipe'[d], to[1]) ELSE to[1] = k
      BY <1>1, <2>3, <2>4, <2>10 DEF Path
    <3>3. ASSUME NEW i \in 1 .. n + 1 PROVE Moves(to[i], tee'[d][i], to[i + 1])
      <4>1. CASE i = n + 1
        BY <2>4, <2>5, <2>7, <2>9, <2>10, <4>1
      <4>2. CASE i \in 1 .. n
        <5>1. Moves(at[i], tee[d][i], at[i + 1])
          BY <2>3, <2>4, <4>2 DEF Path
        <5>2. to[i] = at[i] /\ to[i + 1] = at[i + 1] /\ tee'[d][i] = tee[d][i]
          BY <2>4, <2>5, <2>10, <4>2
        <5>. QED
          BY <5>1, <5>2
      <4>. QED
        BY <2>4, <4>1, <4>2
    <3>4. Leads(k, e)
      BY <2>3, <2>8, LeadsOn DEF Path
    <3>5. ASSUME NEW i \in 1 .. n + 2 PROVE Leads(to[i], e)
      <4>1. CASE i = n + 2
        BY <2>10, <4>1 DEF Leads
      <4>2. CASE i \in 1 .. n + 1
        <5>1. Leads(at[i], c) /\ at[i] \in Place /\ to[i] = at[i]
          BY <2>3, <2>4, <2>9, <2>10, <4>2 DEF Path
        <5>. QED
          BY <2>8, <5>1, LeadsOn
      <4>. QED
        BY <2>4, <4>1, <4>2
    <3>6. Len(tee'[d]) = n + 1 /\ Len(tee'[d]) + 1 = n + 2
      BY <2>4, <2>5
    <3>. QED
      BY <3>1, <3>2, <3>3, <3>4, <3>5, <3>6 DEF Path
  <2>12. Reader(d, k)'
    BY <1>1, <1>2, <2>3 DEF Reader, ParseSame, Told
  <2>13. Writer(d, e)'
    BY <1>1, <1>6, <2>6, <2>7 DEF Writer
  <2>14. to \in [1 .. Len(tee'[d]) + 1 -> Place]
    BY <2>4, <2>5, <2>10
  <2>. QED
    BY <2>11, <2>12, <2>13, <2>14 DEF Stream
<1>. QED
  <2>1. detached' = Set(detached, d, TRUE) => detached'[d] = TRUE
    BY DEF TypeOK
  <2>. QED
    BY <1>5, <1>6, <2>1 DEF Submit

\* The feeder takes the next chunk from the tee.
LEMMA FeedKeeps ==
    ASSUME TypeOK, NEW d \in Dirs, Feed(d), Flow(d), Ending(d)
    PROVE  Flow(d)' /\ Ending(d)'
<1>. USE DEF Set
<1>1. /\ feeder[d] = "receive" /\ feeder'[d] = "write" /\ pipe'[d] = tee[d][1]
      /\ tee[d] # << >> /\ tee'[d] = Tail(tee[d])
      /\ UNCHANGED <<copyVars, teeClosed, parseVars, opaque, over>>
  BY DEF Feed, TypeOK
<1>2. CopySame(d) /\ ParseSame(d) /\ Told
  BY <1>1 DEF CopySame, ParseSame, Told, copyVars, parseVars
<1>3. Ending(d)'
  BY <1>1, <1>2 DEF Ending, CopySame, ParseSame, Told
<1>4. Flow(d)'
  <2>1. SUFFICES ASSUME Stream(d) PROVE Stream(d)'
    BY <1>2 DEF Flow, ParseSame
  <2>2. PICK k, c \in Place : \E at \in [1 .. Len(tee[d]) + 1 -> Place] :
                                 Path(d, k, at, c) /\ Reader(d, k) /\ Writer(d, c)
    BY <2>1 DEF Stream
  <2>3. PICK at \in [1 .. Len(tee[d]) + 1 -> Place] :
               Path(d, k, at, c) /\ Reader(d, k) /\ Writer(d, c)
    BY <2>2
  <2>4. PICK t \in Seq(Chunk) : t = tee[d]
    BY DEF TypeOK
  <2>5. PICK n \in Nat : n + 1 = Len(t)
    <3>1. Len(t) \in Nat /\ Len(t) # 0
      BY <1>1, <2>4
    <3>2. Len(t) - 1 \in Nat /\ (Len(t) - 1) + 1 = Len(t)
      BY <3>1
    <3>. QED
      BY <3>2
  <2>6. /\ Len(tee'[d]) = n /\ pipe'[d] = t[1]
        /\ \A i \in 1 .. n : tee'[d][i] = t[i + 1]
    BY <1>1, <2>4, <2>5
  <2>7. /\ at \in [1 .. n + 2 -> Place] /\ at[n + 2] = c /\ at[1] = k
        /\ \A i \in 1 .. n + 1 : Moves(at[i], t[i], at[i + 1])
        /\ Leads(k, c) /\ \A i \in 1 .. n + 2 : Leads(at[i], c)
    <3>1. Len(tee[d]) = n + 1 /\ Len(tee[d]) + 1 = n + 2
      BY <2>4, <2>5
    <3>. QED
      BY <1>1, <2>3, <2>4, <3>1 DEF Path
  <2>. DEFINE to == [i \in 1 .. n + 1 |-> at[i + 1]]
  <2>8. to \in [1 .. n + 1 -> Place] /\ \A i \in 1 .. n + 1 : to[i] = at[i + 1]
    BY <2>5, <2>7
  <2>. HIDE DEF to
  <2>9. Path(d, k, to, c)'
    <3>1. to[n + 1] = c
      BY <2>5, <2>7, <2>8
    <3>2. Moves(k, pipe'[d], to[1])
      BY <2>5, <2>6, <2>7, <2>8
    <3>3. ASSUME NEW i \in 1 .. n PROVE Moves(to[i], tee'[d][i], to[i + 1])
      <4>1. Moves(at[i + 1], t[i + 1], at[(i + 1) + 1])
        BY <2>5, <2>7
      <4>2. to[i] = at[i + 1] /\ to[i + 1] = at[(i + 1) + 1] /\ tee'[d][i] = t[i + 1]
        BY <2>5, <2>6, <2>8
      <4>. QED
        BY <4>1, <4>2
    <3>4. ASSUME NEW i \in 1 .. n + 1 PROVE Leads(to[i], c)
      BY <2>5, <2>7, <2>8
    <3>. QED
      BY <1>1, <2>6, <2>7, <3>1, <3>2, <3>3, <3>4 DEF Path
  <2>10. Reader(d, k)'
    BY <1>1, <1>2, <2>3 DEF Reader, ParseSame, Told
  <2>11. Writer(d, c)'
    BY <1>2, <2>3 DEF Writer, CopySame
  <2>12. to \in [1 .. Len(tee'[d]) + 1 -> Place]
    BY <2>6, <2>8
  <2>. QED
    BY <2>9, <2>10, <2>11, <2>12 DEF Stream
<1>. QED
  BY <1>3, <1>4

\* Its write fails, or the tee is closed and empty.
LEMMA FeederEndKeeps ==
    ASSUME TypeOK, NEW d \in Dirs, FeedFails(d) \/ FeedEnds(d), Flow(d), Ending(d)
    PROVE  Flow(d)' /\ Ending(d)'
<1>. USE DEF Set
<1>1. UNCHANGED <<copyVars, tee, teeClosed, parseVars, opaque, over>>
  BY DEF FeedFails, FeedEnds
<1>2. CopySame(d) /\ ParseSame(d) /\ Told
  BY <1>1 DEF CopySame, ParseSame, Told, copyVars, parseVars
<1>3. CASE FeedFails(d)
  <2>1. parser[d] = "done" /\ feeder[d] = "write" /\ feeder'[d] = "aborted"
    BY <1>3 DEF FeedFails, TypeOK
  <2>2. Ending(d)'
    BY <1>1, <1>2, <2>1 DEF Ending, CopySame, ParseSame, Told
  <2>. QED
    BY <1>2, <2>1, <2>2 DEF Flow, ParseSame
<1>4. CASE FeedEnds(d)
  <2>1. /\ feeder[d] = "receive" /\ feeder'[d] = "eof" /\ tee[d] = << >> /\ teeClosed[d]
        /\ pipe' = pipe
    BY <1>4 DEF FeedEnds, TypeOK
  <2>2. Ending(d)'
    BY <1>1, <1>2, <2>1 DEF Ending, CopySame, ParseSame, Told
  <2>3. Flow(d)'
    <3>1. SUFFICES ASSUME Stream(d) PROVE Stream(d)'
      BY <1>2 DEF Flow, ParseSame
    <3>2. PICK k, c \in Place : \E at \in [1 .. Len(tee[d]) + 1 -> Place] :
                                   Path(d, k, at, c) /\ Reader(d, k) /\ Writer(d, c)
      BY <3>1 DEF Stream
    <3>3. PICK at \in [1 .. Len(tee[d]) + 1 -> Place] :
                 Path(d, k, at, c) /\ Reader(d, k) /\ Writer(d, c)
      BY <3>2
    <3>4. Path(d, k, at, c)'
      BY <1>1, <2>1, <3>3 DEF Path
    <3>5. Reader(d, k)'
      BY <1>2, <2>1, <3>3 DEF Reader, ParseSame, Told
    <3>6. Writer(d, c)'
      BY <1>2, <3>3 DEF Writer, CopySame
    <3>. QED
      BY <1>1, <3>3, <3>4, <3>5, <3>6 DEF Stream
  <2>. QED
    BY <2>2, <2>3
<1>. QED
  BY <1>3, <1>4

\* A parser that takes the chunk in the pipe moves to the place after it.
LEMMA TakeMoves ==
    ASSUME TypeOK, NEW d \in Dirs, Take(d), NEW k, NEW c,
           NEW at \in [1 .. Len(tee[d]) + 1 -> Place], Path(d, k, at, c)
    PROVE  /\ at[1] \in Place /\ Moves(k, pipe[d], at[1]) /\ Path(d, at[1], at, c)'
           /\ at \in [1 .. Len(tee'[d]) + 1 -> Place]
           /\ feeder[d] = "write" /\ feeder'[d] = "receive"
           /\ tee' = tee /\ teeClosed' = teeClosed
<1>1. /\ feeder[d] = "write" /\ feeder'[d] = "receive"
      /\ tee' = tee /\ teeClosed' = teeClosed
  BY DEF Take, Set, TypeOK
<1>2. Len(tee[d]) \in Nat /\ 1 \in 1 .. Len(tee[d]) + 1
  BY DEF TypeOK
<1>3. Moves(k, pipe[d], at[1]) /\ Leads(at[1], c)
  BY <1>1, <1>2 DEF Path
<1>4. Path(d, at[1], at, c)'
  BY <1>1, <1>3 DEF Path
<1>. QED
  BY <1>1, <1>2, <1>3, <1>4

\* The head of message n was read.
LEMMA GotHeadSays ==
    ASSUME TypeOK, NEW d \in Dirs, NEW n \in Nat, NEW b \in BodyKinds, GotHead(d, n, b)
    PROVE  \/ parser'[d] \in {"pop", "body"} /\ msg'[d].id = n /\ msg'[d].body = b
           \/ parser'[d] = "return" /\ opaque' = 1
<1>1. opaque \in 0 .. 1
  BY DEF TypeOK
<1>2. PICK r \in Msg : r = [id |-> n, body |-> b, seq |-> seq + 1]
  <2>1. seq + 1 \in Nat
    BY DEF TypeOK
  <2>. QED
    BY <2>1 DEF Msg
<1>3. PICK q \in Msg : q = [id |-> n, body |-> b, seq |-> 0]
  BY DEF Msg
<1>4. r.id = n /\ r.body = b /\ q.id = n /\ q.body = b
  BY <1>2, <1>3
<1>5. \/ parser' = Set(parser, d, "body") /\ msg' = Set(msg, d, r)
      \/ parser' = Set(parser, d, "return") /\ MarkOpaque
      \/ parser' = Set(parser, d, "pop") /\ msg' = Set(msg, d, q)
  BY <1>2, <1>3 DEF GotHead
<1>. QED
  BY <1>1, <1>4, <1>5 DEF Set, MarkOpaque, TypeOK

\* readRequestHead, readResponseHead.
LEMMA ReadHeadKeeps ==
    ASSUME TypeOK, NEW d \in Dirs, ReadHead(d), Flow(d), Ending(d)
    PROVE  Flow(d)' /\ Ending(d)'
<1>. USE DEF Set
<1>1. /\ parser[d] = "head" /\ Take(d) /\ events' = events /\ derailed' = derailed
      /\ over' = over /\ UNCHANGED copyVars
  BY DEF ReadHead
<1>2. CopySame(d) /\ opaque \in 0 .. 1 /\ parser \in [Dirs -> {"head", "pop", "body", "return", "done"}]
  BY <1>1 DEF CopySame, copyVars, TypeOK
<1>3. PICK k, c \in Place : \E at \in [1 .. Len(tee[d]) + 1 -> Place] :
                               Path(d, k, at, c) /\ Reader(d, k) /\ Writer(d, c)
  BY <1>1 DEF Flow, Stream
<1>4. PICK at \in [1 .. Len(tee[d]) + 1 -> Place] :
             Path(d, k, at, c) /\ Reader(d, k) /\ Writer(d, c)
  BY <1>3
<1>5. /\ at[1] \in Place /\ Moves(k, pipe[d], at[1]) /\ Path(d, at[1], at, c)'
      /\ at \in [1 .. Len(tee'[d]) + 1 -> Place]
      /\ feeder[d] = "write" /\ feeder'[d] = "receive"
      /\ tee' = tee /\ teeClosed' = teeClosed
  BY <1>1, <1>4, TakeMoves
<1>6. PICK l \in Place : l = at[1]
  BY <1>5
<1>7. k.h \in Nat /\ l.h \in Nat /\ pipe[d].id \in Nat /\ pipe[d].body \in BodyKinds
  BY ChunkFacts DEF Place, TypeOK
<1>8. \/ /\ pipe[d].kind = "head" /\ k.st = "idle" /\ l.st = Mid(pipe[d].body)
         /\ pipe[d].id = l.h /\ l.h = k.h + 1
         /\ \/ parser'[d] \in {"pop", "body"} /\ msg'[d].id = l.h /\ msg'[d].body = pipe[d].body
            \/ parser'[d] = "return" /\ opaque' = 1
      \/ /\ pipe[d].kind = "rest" /\ k.st = "malformed" /\ derailed /\ l.st = "idle" /\ l.h = k.h
         /\ \/ parser'[d] \in {"pop", "body"} /\ msg'[d].id = 0 /\ msg'[d].body = "none"
            \/ parser'[d] = "return" /\ opaque' = 1
      \/ /\ pipe[d].kind \in {"stray", "interim"} /\ l.st = k.st /\ l.st = "idle" /\ l.h = k.h
         /\ \/ parser'[d] = "return" /\ opaque' = 1
            \/ parser' = parser
  <2>1. CASE pipe[d].kind = "head"
    <3>1. GotHead(d, pipe[d].id, pipe[d].body)
      BY <2>1 DEF ReadHead
    <3>2. k.st = "idle" /\ l.st = Mid(pipe[d].body) /\ pipe[d].id = l.h /\ l.h = k.h + 1
      BY <1>5, <1>6, <2>1 DEF Moves
    <3>. QED
      BY <1>7, <2>1, <3>1, <3>2, GotHeadSays
  <2>2. CASE pipe[d].kind = "rest"
    <3>1. k.st # "idle" /\ l.h = k.h
      BY <1>5, <1>6, <2>2 DEF Moves
    <3>2. derailed /\ k.st = "malformed"
      BY <1>1, <1>4, <1>5, <3>1 DEF Reader
    <3>3. l.st = "idle"
      BY <1>5, <1>6, <2>2, <3>2 DEF Moves
    <3>4. GotHead(d, 0, "none") \/ FramingLost(d)
      BY <2>2 DEF ReadHead
    <3>5. CASE GotHead(d, 0, "none")
      <4>1. 0 \in Nat /\ "none" \in BodyKinds
        BY DEF BodyKinds
      <4>. QED
        BY <2>2, <3>1, <3>2, <3>3, <3>5, <4>1, GotHeadSays
    <3>6. CASE FramingLost(d)
      BY <1>2, <2>2, <3>1, <3>2, <3>3, <3>6 DEF FramingLost, MarkOpaque
    <3>. QED
      BY <3>4, <3>5, <3>6
  <2>3. CASE pipe[d].kind \in {"stray", "interim"}
    <3>1. l.st = k.st /\ l.st = "idle" /\ l.h = k.h
      BY <1>5, <1>6, <2>3 DEF Moves
    <3>2. FramingLost(d) \/ parser' = parser
      BY <2>3 DEF ReadHead
    <3>3. FramingLost(d) => parser'[d] = "return" /\ opaque' = 1
      BY <1>2 DEF FramingLost, MarkOpaque
    <3>. QED
      BY <2>3, <3>1, <3>2, <3>3
  <2>. QED
    BY <1>5, <2>1, <2>2, <2>3 DEF Moves
<1>9. Flow(d)'
  <2>1. SUFFICES ASSUME parser'[d] \in {"head", "pop", "body"} PROVE Stream(d)'
    BY DEF Flow
  <2>2. Writer(d, c)'
    BY <1>2, <1>4 DEF Writer, CopySame
  <2>3. Reader(d, l)'
    <3>1. parser'[d] = "head" => l.st = "idle"
      BY <1>8
    <3>2. parser'[d] \in {"pop", "body"} =>
            \/ /\ msg'[d].id = l.h
               /\ l.st = Mid(msg'[d].body) \/ (msg'[d].body = "untilEOF" /\ l.st = "finished")
            \/ derailed' /\ msg'[d].id = 0 /\ msg'[d].body = "none" /\ l.st = "idle"
      BY <1>1, <1>8
    <3>3. ASSUME NEW i \in DOMAIN events[d], events[d][i].state = "complete", events[d][i].msg # 0
          PROVE  events[d][i].msg < l.h \/ (events[d][i].msg = l.h /\ Between(l))
      <4>1. events[d][i].msg \in Nat
        <5>1. PICK es \in Seq(Event) : es = events[d]
          BY DEF TypeOK, Event
        <5>2. es[i] \in Event
          BY <5>1
        <5>. QED
          BY <5>1, <5>2 DEF Event
      <4>2. events[d][i].msg < k.h \/ (events[d][i].msg = k.h /\ (Between(k) \/ feeder[d] = "eof"))
        BY <1>4, <3>3 DEF Reader
      <4>3. feeder[d] # "eof" /\ (l.h = k.h + 1 \/ (l.h = k.h /\ Between(l)))
        BY <1>5, <1>8 DEF Between
      <4>. QED
        BY <1>7, <4>1, <4>2, <4>3
    <3>4. ~derailed => l.h = Len(events[d]) + IF parser'[d] \in {"pop", "body"} THEN 1 ELSE 0
      <4>1. ~derailed => k.h = Len(events[d]) + 0
        BY <1>1, <1>4 DEF Reader
      <4>2. Len(events[d]) \in Nat
        BY DEF TypeOK, Event
      <4>3. ~derailed => \/ l.h = k.h + 1 /\ parser'[d] \in {"pop", "body"}
                         \/ l.h = k.h /\ parser'[d] = "head"
        BY <1>1, <1>8, <2>1
      <4>4. CASE derailed
        BY <4>4
      <4>5. CASE ~derailed /\ parser'[d] \in {"pop", "body"}
        BY <1>7, <4>1, <4>2, <4>3, <4>5
      <4>6. CASE ~derailed /\ parser'[d] = "head"
        BY <1>7, <4>1, <4>2, <4>3, <4>6
      <4>. QED
        BY <2>1, <4>4, <4>5, <4>6
    <3>. QED
      BY <1>1, <3>1, <3>2, <3>3, <3>4 DEF Reader
  <2>. QED
    BY <1>5, <1>6, <2>2, <2>3 DEF Stream
<1>10. Ending(d)'
  <2>1. ~over
    BY <1>1 DEF Ending
  <2>2. parser'[d] # "done" /\ (parser'[d] = "return" => opaque' = 1)
    BY <1>1, <1>8
  <2>3. opaque = 1 => opaque' = 1
    BY <1>1 DEF ReadHead, GotHead, FramingLost, MarkOpaque
  <2>. QED
    BY <1>1, <1>2, <1>5, <2>1, <2>2, <2>3 DEF Ending, CopySame
<1>. QED
  BY <1>9, <1>10

\* The end of the stream where a head would begin, and the end of a parser.
LEMMA ParserEndKeeps ==
    ASSUME TypeOK, NEW d \in Dirs, HeadEOF(d) \/ ParserDone(d), Flow(d), Ending(d)
    PROVE  Flow(d)' /\ Ending(d)'
<1>. USE DEF Set
<1>1. UNCHANGED <<copyVars, teeVars, events, derailed, opaque, over>>
  BY DEF HeadEOF, EOF, ParserDone
<1>2. CopySame(d) /\ TeeSame(d) /\ events' = events /\ derailed' = derailed
      /\ opaque' = opaque /\ over' = over
  BY <1>1 DEF CopySame, TeeSame, copyVars, teeVars
<1>3. CASE ParserDone(d)
  <2>1. parser[d] = "return" /\ parser'[d] = "done"
    BY <1>3 DEF ParserDone, TypeOK
  <2>. QED
    BY <1>2, <2>1 DEF Flow, Ending, CopySame, TeeSame
<1>4. CASE HeadEOF(d)
  <2>1. parser[d] = "head" /\ feeder[d] = "eof" /\ parser'[d] = "return"
    BY <1>4 DEF HeadEOF, EOF, TypeOK
  <2>2. PICK k, c \in Place : \E at \in [1 .. Len(tee[d]) + 1 -> Place] :
                                 Path(d, k, at, c) /\ Reader(d, k) /\ Writer(d, c)
    BY <2>1 DEF Flow, Stream
  <2>3. PICK at \in [1 .. Len(tee[d]) + 1 -> Place] :
               Path(d, k, at, c) /\ Reader(d, k) /\ Writer(d, c)
    BY <2>2
  <2>4. tee[d] = << >> /\ teeClosed[d] /\ copier[d] = "done"
    BY <2>1 DEF Ending
  <2>5. k = c
    <3>1. Len(tee[d]) = 0 /\ Len(tee[d]) + 1 = 1
      BY <2>4
    <3>. QED
      BY <2>1, <2>3, <3>1 DEF Path
  <2>6. opaque = 1 \/ (~derailed => Len(events[d]) = crossed[d])
    <3>1. CASE detached[d]
      BY <2>4, <3>1 DEF Ending
    <3>2. CASE ~detached[d]
      <4>1. crossed[d] = c.h
        BY <2>3, <2>4, <3>2 DEF Writer
      <4>2. ~derailed => k.h = Len(events[d]) + 0
        BY <2>1, <2>3 DEF Reader
      <4>3. Len(events[d]) \in Nat
        BY DEF TypeOK
      <4>. QED
        BY <2>5, <4>1, <4>2, <4>3
    <3>. QED
      BY <3>1, <3>2
  <2>7. ~over
    BY <2>1 DEF Ending
  <2>. QED
    BY <1>2, <2>1, <2>6, <2>7 DEF Flow, Ending, CopySame, TeeSame
<1>. QED
  BY <1>3, <1>4

\* popQueue gives the response its number, or there is none for it.
LEMMA PopQueueKeeps ==
    ASSUME TypeOK, NEW d \in Dirs, d = "response", PopQueue, Flow(d), Ending(d)
    PROVE  Flow(d)' /\ Ending(d)'
<1>. USE DEF Set
<1>1. /\ parser[d] = "pop" /\ UNCHANGED <<copyVars, teeVars, events, derailed, over>>
  BY DEF PopQueue
<1>2. CopySame(d) /\ TeeSame(d) /\ events' = events /\ derailed' = derailed /\ over' = over
  BY <1>1 DEF CopySame, TeeSame, copyVars, teeVars
<1>3. \/ parser'[d] = "body" /\ msg'[d].id = msg[d].id /\ msg'[d].body = msg[d].body
         /\ opaque' = opaque
      \/ parser'[d] = "return" /\ opaque' = 1
  <2>1. CASE /\ msg' = [msg EXCEPT !["response"].seq = queue[1]]
             /\ parser' = Set(parser, "response", "body") /\ UNCHANGED opaque
    BY <2>1 DEF TypeOK
  <2>2. CASE MarkOpaque /\ parser' = Set(parser, "response", "return")
    BY <2>2 DEF MarkOpaque, TypeOK
  <2>. QED
    BY <2>1, <2>2 DEF PopQueue
<1>4. ~over
  BY <1>1 DEF Ending
<1>5. CASE parser'[d] = "return" /\ opaque' = 1
  BY <1>1, <1>2, <1>4, <1>5 DEF Flow, Ending, CopySame, TeeSame
<1>6. CASE parser'[d] = "body" /\ msg'[d].id = msg[d].id /\ msg'[d].body = msg[d].body
           /\ opaque' = opaque
  <2>1. PICK k, c \in Place : \E at \in [1 .. Len(tee[d]) + 1 -> Place] :
                                 Path(d, k, at, c) /\ Reader(d, k) /\ Writer(d, c)
    BY <1>1 DEF Flow, Stream
  <2>2. PICK at \in [1 .. Len(tee[d]) + 1 -> Place] :
               Path(d, k, at, c) /\ Reader(d, k) /\ Writer(d, c)
    BY <2>1
  <2>3. Path(d, k, at, c)'
    BY <1>2, <2>2 DEF Path, TeeSame
  <2>4. Reader(d, k)'
    BY <1>1, <1>2, <1>6, <2>2 DEF Reader, TeeSame
  <2>5. Writer(d, c)' /\ at \in [1 .. Len(tee'[d]) + 1 -> Place]
    BY <1>2, <2>2 DEF Writer, CopySame, TeeSame
  <2>6. Ending(d)'
    BY <1>1, <1>2, <1>4, <1>6 DEF Ending, CopySame, TeeSame
  <2>. QED
    BY <2>3, <2>4, <2>5, <2>6 DEF Flow, Stream
<1>. QED
  BY <1>3, <1>5, <1>6

\* readBody and publishMessage.
LEMMA ReadBodyKeeps ==
    ASSUME TypeOK, NEW d \in Dirs, ReadBody(d), Flow(d), Ending(d)
    PROVE  Flow(d)' /\ Ending(d)'
<1>. USE DEF Set
<1>1. /\ parser[d] = "body" /\ msg' = msg /\ opaque' = opaque /\ over' = over
      /\ derailed' = (derailed \/ msg[d].body = "malformed") /\ UNCHANGED copyVars
  BY DEF ReadBody
<1>2. CopySame(d)
  BY <1>1 DEF CopySame, copyVars
<1>3. PICK k, c \in Place : \E at \in [1 .. Len(tee[d]) + 1 -> Place] :
                               Path(d, k, at, c) /\ Reader(d, k) /\ Writer(d, c)
  BY <1>1 DEF Flow, Stream
<1>4. PICK at \in [1 .. Len(tee[d]) + 1 -> Place] :
             Path(d, k, at, c) /\ Reader(d, k) /\ Writer(d, c)
  BY <1>3
<1>5. \/ /\ msg[d].id = k.h
         /\ k.st = Mid(msg[d].body) \/ (msg[d].body = "untilEOF" /\ k.st = "finished")
      \/ derailed /\ msg[d].id = 0 /\ msg[d].body = "none" /\ k.st = "idle"
  BY <1>1, <1>4 DEF Reader
<1>6. PICK es \in Seq(Event) : es = events[d]
  BY DEF TypeOK, Event
<1>7. k.h \in Nat
  BY DEF Place
\* Where the parser gets to, and what it publishes.
<1>8. ASSUME UNCHANGED teeVars
      PROVE  /\ Path(d, k, at, c)' /\ at \in [1 .. Len(tee'[d]) + 1 -> Place]
             /\ feeder' = feeder /\ teeClosed' = teeClosed /\ tee' = tee
  BY <1>4, <1>8 DEF Path, teeVars
<1>9. PICK l \in Place :
         /\ Path(d, l, at, c)' /\ at \in [1 .. Len(tee'[d]) + 1 -> Place] /\ l.h = k.h
         /\ (Between(k) => Between(l)) /\ (feeder[d] = "eof" => feeder'[d] = "eof")
         /\ tee' = tee /\ teeClosed' = teeClosed
         /\ \/ /\ parser'[d] = "body" /\ events' = events
               /\ msg[d].body = "untilEOF" /\ l.st = "finished" /\ msg[d].id = l.h
            \/ /\ parser'[d] = "head"
               /\ \/ feeder'[d] = "eof" \/ l.st = "idle" \/ (derailed' /\ l.st = "malformed")
               /\ \E s \in {"complete", "partial"} :
                     /\ Publish(d, msg[d], s)
                     /\ s = "complete" /\ msg[d].id # 0 =>
                           msg[d].id = l.h /\ (Between(l) \/ feeder'[d] = "eof")
  <2>1. CASE /\ msg[d].body \in {"none", "malformed"} /\ UNCHANGED teeVars
             /\ Publish(d, msg[d], IF msg[d].body = "none" THEN "complete" ELSE "partial")
             /\ parser' = Set(parser, d, "head")
    <3>1. parser'[d] = "head"
      BY <2>1 DEF TypeOK
    <3>2. msg[d].body = "none" => k.st = "idle" /\ (msg[d].id # 0 => msg[d].id = k.h)
      BY <1>5 DEF Mid
    <3>3. msg[d].body = "malformed" => derailed' /\ k.st = "malformed"
      BY <1>1, <1>5 DEF Mid
    <3>4. \E s \in {"complete", "partial"} :
             /\ Publish(d, msg[d], s)
             /\ s = "complete" /\ msg[d].id # 0 =>
                   msg[d].id = k.h /\ (Between(k) \/ feeder'[d] = "eof")
      <4>1. CASE msg[d].body = "none"
        BY <2>1, <3>2, <4>1 DEF Between
      <4>2. CASE msg[d].body = "malformed"
        BY <2>1, <4>2
      <4>. QED
        BY <2>1, <4>1, <4>2
    <3>. QED
      BY <1>8, <2>1, <3>1, <3>2, <3>3, <3>4
  <2>2. CASE /\ msg[d].body = "framed" /\ Take(d) /\ Publish(d, msg[d], "complete")
             /\ parser' = Set(parser, d, "head")
    <3>1. /\ at[1] \in Place /\ Moves(k, pipe[d], at[1]) /\ Path(d, at[1], at, c)'
          /\ at \in [1 .. Len(tee'[d]) + 1 -> Place]
          /\ feeder[d] = "write" /\ tee' = tee /\ teeClosed' = teeClosed
      BY <1>4, <2>2, TakeMoves
    <3>2. parser'[d] = "head"
      BY <2>2 DEF TypeOK
    <3>3. k.st = "framed" /\ msg[d].id = k.h
      BY <1>5, <2>2 DEF Mid
    <3>4. at[1].st = "idle" /\ at[1].h = k.h
      BY <3>1, <3>3 DEF Moves
    <3>. QED
      BY <2>2, <3>1, <3>2, <3>3, <3>4 DEF Between
  <2>3. CASE msg[d].body = "untilEOF" /\ Take(d) /\ UNCHANGED <<events, parser>>
    <3>1. /\ at[1] \in Place /\ Moves(k, pipe[d], at[1]) /\ Path(d, at[1], at, c)'
          /\ at \in [1 .. Len(tee'[d]) + 1 -> Place]
          /\ feeder[d] = "write" /\ tee' = tee /\ teeClosed' = teeClosed
      BY <1>4, <2>3, TakeMoves
    <3>2. k.st \in {"untilEOF", "finished"} /\ msg[d].id = k.h
      BY <1>5, <2>3 DEF Mid
    <3>3. at[1].st = "finished" /\ at[1].h = k.h
      BY <3>1, <3>2 DEF Moves
    <3>. QED
      BY <1>1, <2>3, <3>1, <3>2, <3>3 DEF Between
  <2>4. CASE /\ msg[d].body \in {"framed", "untilEOF"} /\ EOF(d)
             /\ Publish(d, msg[d], IF msg[d].body = "framed" THEN "partial" ELSE "complete")
             /\ parser' = Set(parser, d, "head")
    <3>1. parser'[d] = "head" /\ feeder[d] = "eof" /\ UNCHANGED teeVars
      BY <2>4 DEF EOF, TypeOK
    <3>2. msg[d].id = k.h
      BY <1>5, <2>4
    <3>3. feeder'[d] = "eof"
      BY <1>8, <3>1
    <3>4. \E s \in {"complete", "partial"} :
             /\ Publish(d, msg[d], s)
             /\ s = "complete" /\ msg[d].id # 0 =>
                   msg[d].id = k.h /\ (Between(k) \/ feeder'[d] = "eof")
      <4>1. CASE msg[d].body = "framed"
        BY <2>4, <4>1
      <4>2. CASE msg[d].body = "untilEOF"
        BY <2>4, <3>2, <3>3, <4>2
      <4>. QED
        BY <2>4, <4>1, <4>2
    <3>. QED
      BY <1>8, <3>1, <3>3, <3>4
  <2>. QED
    BY <2>1, <2>2, <2>3, <2>4 DEF ReadBody
<1>10. l.h \in Nat /\ l.h = k.h
  BY <1>7, <1>9
<1>11. ASSUME NEW i \in DOMAIN es, es[i].state = "complete", es[i].msg # 0
       PROVE  es[i].msg < l.h \/ (es[i].msg = l.h /\ (Between(l) \/ feeder'[d] = "eof"))
  BY <1>4, <1>6, <1>9, <1>11 DEF Reader
<1>12. Writer(d, c)'
  BY <1>2, <1>4 DEF Writer, CopySame
<1>13. ~derailed => l.h = Len(es) + 1
  BY <1>1, <1>4, <1>6, <1>10 DEF Reader
<1>14. ~derailed' => ~derailed
  BY <1>1
<1>15. /\ ~over /\ feeder[d] # "aborted"
       /\ feeder'[d] = feeder[d] \/ feeder'[d] = "receive"
  <2>1. Take(d) \/ UNCHANGED teeVars
    BY DEF ReadBody, EOF
  <2>. QED
    BY <1>1, <2>1 DEF Ending, Take, teeVars, TypeOK
<1>16. CASE parser'[d] = "body"
  <2>1. /\ events' = events /\ msg[d].body = "untilEOF" /\ l.st = "finished" /\ msg[d].id = l.h
    BY <1>9, <1>16
  <2>2. Reader(d, l)'
    BY <1>1, <1>6, <1>11, <1>13, <1>14, <1>16, <2>1 DEF Reader
  <2>3. Flow(d)'
    BY <1>9, <1>12, <2>2 DEF Flow, Stream
  <2>. QED
    BY <1>1, <1>2, <1>9, <1>15, <1>16, <2>1, <2>3 DEF Ending, CopySame
<1>17. CASE parser'[d] = "head"
  <2>1. PICK s \in {"complete", "partial"} :
           /\ Publish(d, msg[d], s)
           /\ s = "complete" /\ msg[d].id # 0 =>
                 msg[d].id = l.h /\ (Between(l) \/ feeder'[d] = "eof")
    BY <1>9, <1>17
  <2>2. PICK x \in Event : x = [msg |-> msg[d].id, seq |-> msg[d].seq, state |-> s]
    BY DEF TypeOK, Event
  <2>3. events'[d] = Append(es, x)
    BY <1>6, <2>1, <2>2 DEF Publish, TypeOK
  <2>4. Len(Append(es, x)) = Len(es) + 1 /\ Len(es) \in Nat
        /\ \A i \in DOMAIN Append(es, x) : /\ i \in DOMAIN es => Append(es, x)[i] = es[i]
                                           /\ i \notin DOMAIN es => Append(es, x)[i] = x
    OBVIOUS
  <2>5. ASSUME NEW i \in DOMAIN events'[d], events'[d][i].state = "complete", events'[d][i].msg # 0
        PROVE  events'[d][i].msg < l.h
                  \/ (events'[d][i].msg = l.h /\ (Between(l) \/ feeder'[d] = "eof"))
    <3>1. CASE i \in DOMAIN es
      BY <1>11, <2>3, <2>4, <2>5, <3>1
    <3>2. CASE i \notin DOMAIN es
      <4>1. events'[d][i] = x /\ x.state = s /\ x.msg = msg[d].id
        BY <2>2, <2>3, <2>4, <3>2
      <4>. QED
        BY <2>1, <2>5, <4>1
    <3>. QED
      BY <3>1, <3>2
  <2>6. feeder'[d] = "eof" \/ l.st = "idle" \/ (derailed' /\ l.st = "malformed")
    BY <1>9, <1>17
  <2>7. ~derailed' => l.h = Len(events'[d]) + 0
    BY <1>13, <1>14, <2>3, <2>4
  <2>8. Reader(d, l)'
    BY <1>17, <2>5, <2>6, <2>7 DEF Reader
  <2>9. Flow(d)'
    BY <1>9, <1>12, <2>8 DEF Flow, Stream
  <2>. QED
    BY <1>1, <1>2, <1>9, <1>15, <1>17, <2>9 DEF Ending, CopySame
<1>. QED
  BY <1>9, <1>16, <1>17

-----------------------------------------------------------------------------
(* The numbers. *)

\* Until the capture derails, the message that is published next is the next one, it has
\* its number, and it was delivered.
LEMMA PublishesNext ==
    ASSUME TypeOK, NEW d \in Dirs, parser[d] = "body", Flow(d), Numbers, ~derailed
    PROVE  /\ msg[d].id = Len(events[d]) + 1 /\ msg[d].seq = Len(events[d]) + 1
           /\ Len(events[d]) + 1 <= crossed[d]
<1>1. PICK k, c \in Place : \E at \in [1 .. Len(tee[d]) + 1 -> Place] :
                               Path(d, k, at, c) /\ Reader(d, k) /\ Writer(d, c)
  BY DEF Flow, Stream
<1>2. Reader(d, k) /\ Writer(d, c) /\ Leads(k, c)
  BY <1>1 DEF Path
<1>3. k.h \in Nat /\ c.h \in Nat /\ crossed[d] \in Nat /\ heads[d] \in Nat
  BY DEF Place, TypeOK
<1>4. Len(events[d]) \in Nat
  BY DEF TypeOK
<1>5. msg[d].id = k.h /\ k.h = Len(events[d]) + 1
  BY <1>2 DEF Reader
<1>6. msg[d].seq = Len(events[d]) + 1
  BY DEF Numbers
<1>7. k.h <= c.h
  BY <1>2, <1>3 DEF Leads
<1>8. c.h <= crossed[d]
  <2>1. CASE detached[d]
    BY <1>2, <2>1 DEF Writer
  <2>2. CASE ~detached[d] /\ copier[d] # "tee"
    BY <1>2, <1>3, <2>2 DEF Writer
  <2>3. CASE ~detached[d] /\ copier[d] = "tee"
    <3>1. crossed[d] = heads[d] /\ Moves(c, chunk[d], [st |-> sender[d], h |-> heads[d]])
      BY <1>2, <2>3 DEF Writer
    <3>. QED
      BY <1>3, <3>1 DEF Moves
  <2>. QED
    BY <2>1, <2>2, <2>3
<1>. QED
  BY <1>3, <1>4, <1>5, <1>6, <1>7, <1>8

\* What readBody does to the events.
LEMMA ReadBodySays ==
    ASSUME TypeOK, NEW d \in Dirs, ReadBody(d)
    PROVE  /\ parser[d] = "body"
           /\ \/ parser' = parser /\ events' = events /\ derailed' = derailed
              \/ /\ parser' = Set(parser, d, "head")
                 /\ \E x \in Event : /\ x.msg = msg[d].id /\ x.seq = msg[d].seq
                                     /\ events' = Set(events, d, Append(events[d], x))
<1>1. ASSUME NEW s \in {"complete", "partial"}, Publish(d, msg[d], s)
      PROVE  \E x \in Event : /\ x.msg = msg[d].id /\ x.seq = msg[d].seq
                              /\ events' = Set(events, d, Append(events[d], x))
  <2>1. PICK x \in Event : x = [msg |-> msg[d].id, seq |-> msg[d].seq, state |-> s]
    BY DEF TypeOK, Event
  <2>2. x.msg = msg[d].id /\ x.seq = msg[d].seq
    BY <2>1
  <2>. QED
    BY <1>1, <2>1, <2>2 DEF Publish
<1>2. CASE /\ msg[d].body = "untilEOF" /\ UNCHANGED <<events, parser>>
           /\ derailed' = (derailed \/ msg[d].body = "malformed")
  <2>1. derailed' = derailed
    BY <1>2 DEF TypeOK
  <2>. QED
    BY <1>2, <2>1 DEF ReadBody
<1>. QED
  BY <1>1, <1>2 DEF ReadBody

\* How many messages were published, and how many numbers popped, are naturals.
LEMMA EventsCounted ==
    ASSUME TypeOK
    PROVE  (\A d \in Dirs : Len(events[d]) \in Nat) /\ Popped \in Nat
<1>1. \A d \in Dirs : Len(events[d]) \in Nat
  BY DEF TypeOK
<1>2. PICK n \in Nat : n = Len(events["response"])
  BY <1>1 DEF Dirs
<1>3. n + 1 \in Nat /\ n + 0 \in Nat
  OBVIOUS
<1>. QED
  BY <1>1, <1>2, <1>3 DEF Popped

\* Every step of the parsers keeps the numbering, until the capture derails.
LEMMA NumbersStep ==
    ASSUME TypeOK, [Next]_vars, parser["request"] # "pop", Numbers, \A d \in Dirs : Flow(d)
    PROVE  parser'["request"] # "pop" /\ Numbers'
<1>. DEFINE req == "request"  res == "response"
<1>0. req \in Dirs /\ res \in Dirs /\ req # res /\ \A d \in Dirs : d = req \/ d = res
  BY DEF Dirs
<1>1. CASE UNCHANGED parseVars
  BY <1>1 DEF parseVars, Numbers, Popped
<1>2. ASSUME NEW d \in Dirs, ReadHead(d)
      PROVE  parser'["request"] # "pop" /\ Numbers'
  <2>1. events' = events /\ derailed' = derailed /\ parser[d] = "head"
    BY <1>2 DEF ReadHead
  <2>2. PICK n, b : \/ GotHead(d, n, b) \/ FramingLost(d)
                    \/ UNCHANGED <<parser, msg, seq, queue>>
    BY <1>2 DEF ReadHead
  <2>p. parser \in [Dirs -> {"head", "pop", "body", "return", "done"}]
    BY DEF TypeOK
  <2>m. msg \in [Dirs -> [id : Nat, body : BodyKinds, seq : Nat]]
    BY DEF TypeOK
  <2>3. CASE UNCHANGED <<parser, msg, seq, queue>>
    BY <2>1, <2>3 DEF Numbers, Popped
  <2>4. CASE FramingLost(d)
    <3>1. parser' = Set(parser, d, "return") /\ UNCHANGED <<msg, seq, queue>>
      BY <2>4 DEF FramingLost
    <3>a. /\ parser'[d] = "return" /\ \A e \in Dirs : e # d => parser'[e] = parser[e]
      BY <1>0, <2>p, <3>1 DEF Set
    <3>2. Popped' = Popped
      BY <1>0, <2>1, <3>1, <3>a DEF Popped
    <3>. QED
      BY <1>0, <2>1, <3>1, <3>2, <3>a DEF Numbers
  <2>5. CASE GotHead(d, n, b) /\ d = res
    <3>1. parser' = Set(parser, d, "pop") /\ UNCHANGED <<seq, queue>>
          /\ \A e \in Dirs : e # d => msg'[e] = msg[e]
      BY <1>0, <2>m, <2>5 DEF GotHead, Set
    <3>3. parser'[req] = parser[req] /\ parser'[res] = "pop" /\ msg'[req] = msg[req]
      BY <1>0, <2>p, <2>5, <3>1 DEF Set
    <3>2. Popped' = Popped
      BY <1>0, <2>1, <2>5, <3>1, <3>3 DEF Popped
    <3>4. \A e \in Dirs : parser'[e] = "body" => e = req
      BY <1>0, <3>3
    <3>. QED
      BY <1>0, <2>1, <3>1, <3>2, <3>3, <3>4 DEF Numbers
  <2>6. CASE GotHead(d, n, b) /\ d = req
    <3>1. Popped' = Popped
      <4>0. \E v : parser' = Set(parser, req, v)
        BY <2>6 DEF GotHead
      <4>1. parser'[res] = parser[res]
        BY <1>0, <2>p, <4>0 DEF Set
      <4>. QED
        BY <1>0, <2>1, <4>1 DEF Popped
    <3>2. \A e \in Dirs : e # req => parser'[e] = parser[e] /\ msg'[e] = msg[e]
      <4>0. \E v : parser' = Set(parser, req, v)
        BY <1>0, <2>6 DEF GotHead
      <4>1. msg' = msg \/ \E v : msg' = Set(msg, req, v)
        BY <1>0, <2>6 DEF GotHead
      <4>. QED
        BY <1>0, <2>p, <2>m, <4>0, <4>1 DEF Set
    <3>3. CASE Len(queue) < MaxPipelinedRequests
      <4>1. /\ seq' = seq + 1 /\ queue' = Append(queue, seq + 1)
            /\ parser'[req] = "body" /\ msg'[req].seq = seq + 1
        <5>1. /\ seq' = seq + 1 /\ queue' = Append(queue, seq + 1)
              /\ parser' = Set(parser, req, "body")
              /\ msg' = Set(msg, req, [id |-> n, body |-> b, seq |-> seq + 1])
          BY <1>0, <2>6, <3>3 DEF GotHead
        <5>. QED
          BY <1>0, <2>p, <2>m, <5>1 DEF Set
      <4>2. /\ Len(queue) \in Nat /\ Len(queue') = Len(queue) + 1
            /\ \A i \in DOMAIN queue' : /\ i \in Nat
                                        /\ \/ i = Len(queue) + 1 /\ queue'[i] = seq + 1
                                           \/ i \in DOMAIN queue /\ queue'[i] = queue[i]
        <5>1. queue \in Seq(Nat) /\ seq + 1 \in Nat /\ queue' = Append(queue, seq + 1)
          BY <4>1 DEF TypeOK
        <5>2. /\ Len(queue) \in Nat /\ DOMAIN queue = 1 .. Len(queue)
              /\ Len(queue') = Len(queue) + 1 /\ DOMAIN queue' = 1 .. Len(queue) + 1
          BY <5>1
        <5>3. /\ \A i \in 1 .. Len(queue) : queue'[i] = queue[i]
              /\ queue'[Len(queue) + 1] = seq + 1
          BY <5>1
        <5>. QED
          BY <5>2, <5>3
      <4>9. Len(events[req]) \in Nat /\ seq \in Nat
        BY <1>0, EventsCounted DEF TypeOK
      <4>3. PICK p \in Nat : p = Popped
        BY EventsCounted
      <4>4. SUFFICES ASSUME ~derailed PROVE Numbers'
        BY <1>0, <2>1, <4>1 DEF Numbers
      <4>5. /\ \A i \in DOMAIN queue : queue[i] = Popped + i
            /\ seq = Popped + Len(queue) /\ seq = Len(events[req]) + 0
            /\ \A e \in Dirs : parser[e] = "body" => msg[e].seq = Len(events[e]) + 1
            /\ \A e \in Dirs, i \in Nat : i \in DOMAIN events[e] =>
                  events[e][i].msg = i /\ events[e][i].seq = i
        BY <2>1, <2>6, <4>4 DEF Numbers
      <4>10. seq = p + Len(queue) /\ seq = Len(events[req])
        BY <4>3, <4>5, <4>9
      <4>6. ASSUME NEW i \in DOMAIN queue' PROVE queue'[i] = Popped + i
        <5>1. CASE i = Len(queue) + 1 /\ queue'[i] = seq + 1
          <6>1. p + (Len(queue) + 1) = (p + Len(queue)) + 1
            BY <4>2
          <6>. QED
            BY <4>3, <4>10, <5>1, <6>1
        <5>2. CASE i \in DOMAIN queue /\ queue'[i] = queue[i]
          BY <4>5, <5>2
        <5>. QED
          BY <4>2, <5>1, <5>2
      <4>7. seq' = Popped + Len(queue') /\ seq' = Len(events[req]) + 1
        <5>1. p + (Len(queue) + 1) = (p + Len(queue)) + 1
          BY <4>2
        <5>. QED
          BY <4>1, <4>2, <4>3, <4>10, <5>1
      <4>8. \A e \in Dirs : parser'[e] = "body" => msg'[e].seq = Len(events[e]) + 1
        BY <1>0, <3>2, <4>1, <4>7, <4>5
      <4>. QED
        BY <2>1, <3>1, <4>1, <4>5, <4>6, <4>7, <4>8 DEF Numbers
    <3>4. CASE ~(Len(queue) < MaxPipelinedRequests)
      <4>0. queue' = queue /\ parser' = Set(parser, req, "return")
        BY <1>0, <2>6, <3>4 DEF GotHead
      <4>1. queue' = queue /\ parser'[req] = "return"
        BY <1>0, <2>p, <4>0 DEF Set
      <4>. QED
        BY <1>0, <2>1, <3>1, <3>2, <4>1 DEF Numbers
    <3>. QED
      BY <3>3, <3>4
  <2>. QED
    BY <1>0, <2>2, <2>3, <2>4, <2>5, <2>6
<1>3. ASSUME NEW d \in Dirs, HeadEOF(d) \/ ParserDone(d)
      PROVE  parser'["request"] # "pop" /\ Numbers'
  <2>1. /\ parser[d] \in {"head", "return"} /\ parser'[d] \in {"return", "done"}
        /\ \A e \in Dirs : e # d => parser'[e] = parser[e]
        /\ UNCHANGED <<msg, seq, queue, events, derailed>>
    <3>p. parser \in [Dirs -> {"head", "pop", "body", "return", "done"}]
      BY DEF TypeOK
    <3>1. \E v \in {"return", "done"} : parser' = Set(parser, d, v)
      BY <1>3 DEF HeadEOF, ParserDone
    <3>2. parser[d] \in {"head", "return"} /\ UNCHANGED <<msg, seq, queue, events, derailed>>
      BY <1>3 DEF HeadEOF, ParserDone
    <3>. QED
      BY <3>p, <3>1, <3>2 DEF Set
  <2>2. Popped' = Popped
    BY <1>0, <2>1 DEF Popped
  <2>. QED
    BY <1>0, <2>1, <2>2 DEF Numbers
<1>4. CASE PopQueue
  <2>1. /\ parser[res] = "pop" /\ parser'[req] = parser[req] /\ msg'[req] = msg[req]
        /\ UNCHANGED <<seq, events, derailed>>
    <3>p. parser \in [Dirs -> {"head", "pop", "body", "return", "done"}]
          /\ msg \in [Dirs -> [id : Nat, body : BodyKinds, seq : Nat]]
      BY DEF TypeOK
    <3>1. parser' = Set(parser, res, "body") \/ parser' = Set(parser, res, "return")
      BY <1>0, <1>4 DEF PopQueue
    <3>2. msg' = msg \/ msg' = [msg EXCEPT ![res].seq = queue[1]]
      BY <1>0, <1>4 DEF PopQueue
    <3>3. parser[res] = "pop" /\ UNCHANGED <<seq, events, derailed>>
      BY <1>0, <1>4 DEF PopQueue
    <3>4. parser'[req] = parser[req]
      BY <1>0, <3>p, <3>1 DEF Set
    <3>5. msg'[req] = msg[req]
      BY <1>0, <3>p, <3>2
    <3>. QED
      BY <3>3, <3>4, <3>5
  <2>2. CASE parser'[res] = "return" /\ queue' = queue
    <3>1. Popped' = Popped
      BY <1>0, <2>1, <2>2 DEF Popped
    <3>2. \A e \in Dirs : parser'[e] = "body" => parser[e] = "body" /\ msg'[e] = msg[e]
      BY <1>0, <2>1, <2>2
    <3>3. (~derailed /\ Numbers) => Numbers'
      BY <1>0, <2>1, <2>2, <3>1, <3>2 DEF Numbers
    <3>. QED
      BY <1>0, <2>1, <3>3 DEF Numbers
  <2>3. CASE /\ queue # << >> /\ queue' = Tail(queue) /\ parser'[res] = "body"
             /\ msg'[res].seq = queue[1]
    <3>1. Len(events[res]) \in Nat
      BY <1>0 DEF TypeOK
    <3>2. Popped = Len(events[res]) /\ Popped' = Popped + 1
      BY <1>0, <2>1, <2>3, <3>1 DEF Popped
    <3>3. /\ 1 \in DOMAIN queue /\ Len(queue) \in Nat /\ Len(queue) = Len(queue') + 1
          /\ Len(queue') \in Nat
          /\ \A i \in DOMAIN queue' : /\ i + 1 \in DOMAIN queue /\ queue'[i] = queue[i + 1]
                                      /\ i \in Nat
      BY <2>3 DEF TypeOK
    <3>4. SUFFICES ASSUME ~derailed PROVE Numbers'
      BY <1>0, <2>1 DEF Numbers
    <3>5. \A i \in DOMAIN queue : queue[i] = Popped + i
      BY <3>4 DEF Numbers
    <3>9. PICK p \in Nat : p = Popped /\ Popped' = p + 1
      BY <3>1, <3>2
    <3>6. ASSUME NEW i \in DOMAIN queue' PROVE queue'[i] = Popped' + i
      <4>1. i \in Nat /\ queue'[i] = p + (i + 1)
        BY <3>3, <3>5, <3>9
      <4>2. p + (i + 1) = (p + 1) + i
        BY <4>1
      <4>. QED
        BY <3>9, <4>1, <4>2
    <3>7. Popped' + Len(queue') = Popped + Len(queue)
      <4>1. (p + 1) + Len(queue') = p + (Len(queue') + 1)
        BY <3>3
      <4>. QED
        BY <3>3, <3>9, <4>1
    <3>8. msg'[res].seq = Len(events[res]) + 1
      BY <2>3, <3>2, <3>3, <3>5
    <3>10. parser'[req] \in {"head", "body"} =>
             /\ seq' = Popped' + Len(queue')
             /\ seq' = Len(events'[req]) + IF parser'[req] = "body" THEN 1 ELSE 0
      BY <2>1, <3>4, <3>7 DEF Numbers
    <3>11. \A e \in Dirs : parser'[e] = "body" => msg'[e].seq = Len(events'[e]) + 1
      BY <1>0, <2>1, <3>4, <3>8 DEF Numbers
    <3>12. \A e \in Dirs, i \in Nat : i \in DOMAIN events'[e] =>
              events'[e][i].msg = i /\ events'[e][i].seq = i
      BY <2>1, <3>4 DEF Numbers
    <3>. QED
      BY <3>6, <3>10, <3>11, <3>12 DEF Numbers
  <2>. QED
    <3>1. \/ queue' = queue /\ parser' = Set(parser, "response", "return")
          \/ /\ queue # << >> /\ queue' = Tail(queue) /\ parser' = Set(parser, "response", "body")
             /\ msg' = [msg EXCEPT !["response"].seq = queue[1]]
      BY <1>4 DEF PopQueue
    <3>2. CASE queue' = queue /\ parser' = Set(parser, "response", "return")
      BY <1>0, <2>2, <3>2 DEF Set, TypeOK
    <3>3. CASE /\ queue # << >> /\ queue' = Tail(queue) /\ parser' = Set(parser, "response", "body")
               /\ msg' = [msg EXCEPT !["response"].seq = queue[1]]
      BY <1>0, <2>3, <3>3 DEF Set, TypeOK
    <3>. QED
      BY <3>1, <3>2, <3>3
<1>5. ASSUME NEW d \in Dirs, ReadBody(d)
      PROVE  parser'["request"] # "pop" /\ Numbers'
  <2>1. msg' = msg /\ seq' = seq /\ queue' = queue /\ (derailed => derailed')
    BY <1>5 DEF ReadBody
  <2>2. parser[d] = "body"
    BY <1>5, ReadBodySays
  <2>3. CASE parser' = parser /\ events' = events
    BY <2>1, <2>3 DEF Numbers, Popped
  <2>4. CASE /\ parser' = Set(parser, d, "head")
             /\ \E x \in Event : /\ x.msg = msg[d].id /\ x.seq = msg[d].seq
                                 /\ events' = Set(events, d, Append(events[d], x))
    <3>1. PICK x \in Event : /\ x.msg = msg[d].id /\ x.seq = msg[d].seq
                             /\ events' = Set(events, d, Append(events[d], x))
      BY <2>4
    <3>2. PICK es \in Seq(Event) : es = events[d]
      BY DEF TypeOK, Event
    <3>3. /\ events'[d] = Append(es, x) /\ parser'[d] = "head"
          /\ \A e \in Dirs : e # d => events'[e] = events[e] /\ parser'[e] = parser[e]
      BY <2>4, <3>1, <3>2 DEF Set, TypeOK
    <3>4. /\ Len(es) \in Nat /\ Len(Append(es, x)) = Len(es) + 1
          /\ \A i \in DOMAIN Append(es, x) : IF i = Len(es) + 1 THEN Append(es, x)[i] = x
                                             ELSE i \in DOMAIN es /\ Append(es, x)[i] = es[i]
      BY <3>2
    <3>5. SUFFICES ASSUME ~derailed, ~derailed' PROVE Numbers'
      BY <1>0, <2>1, <3>3 DEF Numbers
    <3>6. msg[d].id = Len(es) + 1 /\ msg[d].seq = Len(es) + 1
      BY <2>2, <3>2, <3>5, PublishesNext
    <3>7. Popped' = Popped
      <4>1. CASE d = res
        <5>1. Popped = Len(es) + 1
          BY <2>2, <3>2, <4>1 DEF Popped
        <5>2. Popped' = Len(Append(es, x)) + 0
          BY <3>3, <4>1 DEF Popped
        <5>. QED
          BY <3>4, <5>1, <5>2
      <4>2. CASE d # res
        BY <1>0, <3>3, <4>2 DEF Popped
      <4>. QED
        BY <4>1, <4>2
    <3>8. parser'[req] \in {"head", "body"} =>
             seq = Len(events'[req]) + IF parser'[req] = "body" THEN 1 ELSE 0
      <4>1. CASE d = req
        <5>1. seq = Len(es) + 1
          BY <2>2, <3>2, <3>5, <4>1 DEF Numbers
        <5>2. parser'[req] = "head" /\ Len(events'[req]) = Len(es) + 1
          BY <3>3, <3>4, <4>1
        <5>3. seq = Len(events'[req]) + 0
          BY <3>4, <5>1, <5>2
        <5>. QED
          BY <5>2, <5>3
      <4>2. CASE d # req
        BY <1>0, <3>3, <3>5, <4>2 DEF Numbers
      <4>. QED
        BY <4>1, <4>2
    <3>9. parser'[req] \in {"head", "body"} => parser[req] \in {"head", "body"}
      BY <1>0, <2>2, <3>3
    <3>10. ASSUME NEW e \in Dirs, NEW i \in Nat, i \in DOMAIN events'[e]
           PROVE  events'[e][i].msg = i /\ events'[e][i].seq = i
      <4>1. CASE e = d /\ i = Len(es) + 1
        BY <3>1, <3>3, <3>4, <3>6, <3>10, <4>1
      <4>2. CASE e = d /\ i # Len(es) + 1
        <5>1. i \in DOMAIN es /\ events'[d][i] = es[i]
          BY <3>3, <3>4, <3>10, <4>2
        <5>2. events[d][i].msg = i /\ events[d][i].seq = i
          BY <3>2, <3>5, <5>1 DEF Numbers
        <5>. QED
          BY <3>2, <4>2, <5>1, <5>2
      <4>3. CASE e # d
        BY <3>3, <3>5, <3>10, <4>3 DEF Numbers
      <4>. QED
        BY <4>1, <4>2, <4>3
    <3>11. \A e \in Dirs : parser'[e] = "body" => msg'[e].seq = Len(events'[e]) + 1
      BY <2>1, <3>3, <3>5 DEF Numbers
    <3>12. \A i \in DOMAIN queue : queue[i] = Popped + i
      BY <3>5 DEF Numbers
    <3>13. parser'[req] \in {"head", "body"} => seq = Popped + Len(queue)
      BY <3>5, <3>9 DEF Numbers
    <3>14. Numbers'
      BY <2>1, <3>7, <3>8, <3>10, <3>11, <3>12, <3>13 DEF Numbers
    <3>. QED
      BY <3>14
  <2>. QED
    BY <1>5, <2>3, <2>4, ReadBodySays
<1>. QED
  <2>1. ASSUME NEW d \in Dirs, Read(d) \/ Write(d) \/ Return(d) \/ Copy(d) \/ Feeder(d)
        PROVE  UNCHANGED parseVars
    BY <2>1 DEF Read, Write, Return, Copy, Submit, TellDetached, CloseTee, Feeder, Feed, FeedFails, FeedEnds
  <2>2. RelayDone \/ Finished \/ UNCHANGED vars => UNCHANGED parseVars
    BY DEF RelayDone, Finished, vars
  <2>. QED
    BY <1>1, <1>2, <1>3, <1>4, <1>5, <2>1, <2>2 DEF Next, Parse

-----------------------------------------------------------------------------
(* A message that was lost is not published as complete. *)

\* The parser is behind the tee, and the tee ends before the end of the lost message: only
\* the end of the stream can stand for that, and it comes after the report.
LEMMA StreamIsHonest ==
    \A d \in Dirs : TypeOK /\ Stream(d) /\ Ending(d) => Honest(d)
<1>. SUFFICES ASSUME TypeOK, NEW d \in Dirs, Stream(d), Ending(d),
                     NEW i \in DOMAIN events[d], lost[d] # 0, events[d][i].msg = lost[d],
                     events[d][i].state = "complete"
              PROVE  opaque = 1
  BY DEF Honest
<1>1. PICK k, c \in Place : \E at \in [1 .. Len(tee[d]) + 1 -> Place] :
                               Path(d, k, at, c) /\ Reader(d, k) /\ Writer(d, c)
  BY DEF Stream
<1>2. Reader(d, k) /\ Writer(d, c) /\ Leads(k, c)
  BY <1>1 DEF Path
<1>3. k.h \in Nat /\ c.h \in Nat /\ lost[d] \in Nat
  BY DEF Place, TypeOK
<1>4. detached[d]
  BY DEF Ending
<1>5. lost[d] < k.h \/ (lost[d] = k.h /\ (Between(k) \/ feeder[d] = "eof"))
  BY <1>2 DEF Reader
<1>6. c.h < lost[d] \/ (c.h = lost[d] /\ ~Between(c))
  BY <1>2, <1>4 DEF Writer
<1>7. k.h < c.h \/ (k.h = c.h /\ (Between(k) => Between(c)))
  BY <1>2 DEF Leads
<1>8. feeder[d] = "eof"
  BY <1>3, <1>5, <1>6, <1>7
<1>. QED
  BY <1>4, <1>8 DEF Ending

\* The same, one step later.
LEMMA StreamIsHonestNext ==
    (\A d \in Dirs : TypeOK /\ Stream(d) /\ Ending(d) => Honest(d))'
  BY StreamIsHonest, PTL

\* A step of one direction's goroutines leaves that direction honest.
LEMMA StepIsHonest ==
    ASSUME TypeOK, TypeOK', NEW d \in Dirs, DirStep(d), DirInv(d), Flow(d)', Ending(d)'
    PROVE  Honest(d)'
<1>1. CASE parser'[d] \in {"head", "pop", "body"}
  BY <1>1, StreamIsHonestNext DEF Flow
<1>2. CASE parser'[d] \notin {"head", "pop", "body"}
  <2>1. parser'[d] \in {"return", "done"}
    BY <1>2 DEF TypeOK
  <2>2. CASE opaque' = 1
    BY <2>2 DEF Honest
  <2>3. CASE feeder'[d] = "eof"
    <3>1. copier'[d] = "done"
      BY <2>3 DEF Ending
    <3>2. lost' = lost
      <4>1. ~Submit(d)
        BY <3>1 DEF Submit, Set, TypeOK
      <4>. QED
        BY <4>1 DEF DirStep, Read, Write, Return, Copy, TellDetached, CloseTee, Feeder, Feed, FeedFails,
                    FeedEnds, Parse, ReadHead, HeadEOF, ReadBody, ParserDone, PopQueue, copyVars
    <3>3. events' = events
      <4>1. CASE ReadBody(d)
        <5>1. parser[d] = "body" /\ (parser' = parser \/ parser' = Set(parser, d, "head"))
          BY <4>1, ReadBodySays
        <5>. QED
          BY <1>2, <5>1 DEF Set, TypeOK
      <4>2. CASE ~ReadBody(d)
        BY <4>2 DEF DirStep, Read, Write, Return, Copy, Submit, TellDetached, CloseTee, Feeder, Feed,
                    FeedFails, FeedEnds, Parse, ReadHead, HeadEOF, ParserDone, PopQueue, parseVars
      <4>. QED
        BY <4>1, <4>2
    <3>4. opaque = 1 => opaque' = 1
      BY Frame DEF Told
    <3>. QED
      BY <3>2, <3>3, <3>4 DEF DirInv, Honest
  <2>. QED
    BY <2>1, <2>2, <2>3 DEF Ending
<1>. QED
  BY <1>1, <1>2

-----------------------------------------------------------------------------
(* The invariant. *)

\* PumpInv holds of a new relay.
LEMMA PumpInvInit == Init => PumpInv
<1>. SUFFICES ASSUME Init PROVE PumpInv
  OBVIOUS
<1>1. Len(<< >>) = 0 /\ DOMAIN << >> = {}
  OBVIOUS
<1>2. parser["request"] # "pop" /\ Numbers
  <2>1. Popped = 0 /\ seq = 0 /\ queue = << >>
    BY <1>1 DEF Init, Popped, Dirs
  <2>. QED
    BY <1>1, <2>1 DEF Init, Numbers, Dirs
<1>3. ASSUME NEW d \in Dirs PROVE DirInv(d)
  <2>. DEFINE k == [st |-> "idle", h |-> 0]
              at == [i \in 1 .. 1 |-> k]
  <2>1. k \in Place /\ k.st = "idle" /\ k.h = 0
    BY DEF Place
  <2>. HIDE DEF k
  <2>2. at \in [1 .. 1 -> Place] /\ at[1] = k
    BY <2>1
  <2>. HIDE DEF at
  <2>3. Len(tee[d]) + 1 = 1 /\ Len(tee[d]) = 0
    BY <1>1 DEF Init
  <2>4. Path(d, k, at, k)
    BY <2>1, <2>2, <2>3 DEF Path, Init, Leads
  <2>5. Reader(d, k)
    BY <1>1, <2>1 DEF Reader, Init
  <2>6. Writer(d, k)
    BY <2>1 DEF Writer, Init
  <2>7. Flow(d)
    BY <2>1, <2>2, <2>3, <2>4, <2>5, <2>6 DEF Flow, Stream
  <2>8. Ending(d) /\ Honest(d)
    BY <1>1 DEF Init, Ending, Honest
  <2>. QED
    BY <2>7, <2>8 DEF DirInv
<1>. QED
  BY <1>2, <1>3 DEF PumpInv

\* Each step of a direction keeps what holds of it.
LEMMA OwnStepKeeps ==
    ASSUME TypeOK, NEW d \in Dirs, DirStep(d), DirInv(d)
    PROVE  Flow(d)' /\ Ending(d)'
<1>1. Flow(d) /\ Ending(d)
  BY DEF DirInv
<1>2. CASE Read(d)
  BY <1>1, <1>2, ReadKeeps
<1>3. CASE Write(d) \/ Return(d)
  BY <1>1, <1>3, WriteKeeps
<1>4. CASE Copy(d)
  BY <1>1, <1>4, SubmitKeeps, CloseKeeps DEF Copy
<1>5. CASE Feeder(d)
  BY <1>1, <1>5, FeedKeeps, FeederEndKeeps DEF Feeder
<1>6. CASE Parse(d)
  BY <1>1, <1>6, ReadHeadKeeps, ParserEndKeeps, ReadBodyKeeps, PopQueueKeeps DEF Parse
<1>. QED
  BY <1>2, <1>3, <1>4, <1>5, <1>6 DEF DirStep

\* Every step of the six goroutines keeps PumpInv.
LEMMA PumpInvStep == TypeOK /\ TypeOK' /\ PumpInv /\ [Next]_vars => PumpInv'
<1>. SUFFICES ASSUME TypeOK, TypeOK', PumpInv, [Next]_vars PROVE PumpInv'
  OBVIOUS
<1>1. parser'["request"] # "pop" /\ Numbers'
  BY NumbersStep DEF PumpInv, DirInv
<1>2. ASSUME NEW d \in Dirs, DirStep(d), NEW e \in Dirs PROVE DirInv(e)'
  <2>1. DirInv(d) /\ DirInv(e)
    BY DEF PumpInv
  <2>2. CASE e = d
    <3>1. Flow(d)' /\ Ending(d)'
      BY <1>2, <2>1, OwnStepKeeps
    <3>2. Honest(d)'
      BY <1>2, <2>1, <3>1, StepIsHonest
    <3>. QED
      BY <2>2, <3>1, <3>2 DEF DirInv
  <2>3. CASE e # d
    BY <1>2, <2>1, <2>3, Frame, Stays
  <2>. QED
    BY <2>2, <2>3
<1>3. ASSUME NEW e \in Dirs, UNCHANGED <<copyVars, teeVars, parseVars, opaque>>,
             over' = over \/ RelayDone
      PROVE  DirInv(e)'
  <2>1. Same(e) /\ Told
    BY <1>3 DEF Same, CopySame, TeeSame, ParseSame, Told, copyVars, teeVars, parseVars
  <2>2. DirInv(e)
    BY DEF PumpInv
  <2>3. CASE over' = over
    BY <2>1, <2>2, <2>3, Stays
  <2>4. CASE RelayDone
    <3>1. copier[e] = "done" /\ parser[e] = "done" /\ feeder[e] \in {"eof", "aborted"}
      BY <2>4 DEF RelayDone
    <3>2. Ending(e)'
      BY <2>1, <2>2, <3>1 DEF DirInv, Ending, Same, CopySame, TeeSame, ParseSame, Told
    <3>3. Honest(e)'
      BY <2>1, <2>2 DEF DirInv, Honest, Same, CopySame, ParseSame, Told
    <3>. QED
      BY <2>1, <3>1, <3>2, <3>3 DEF DirInv, Flow, Same, ParseSame
  <2>. QED
    BY <1>3, <2>3, <2>4
<1>4. ASSUME NEW e \in Dirs PROVE DirInv(e)'
  <2>1. CASE \E d \in Dirs : DirStep(d)
    BY <1>2, <2>1
  <2>2. CASE RelayDone
    BY <1>3, <2>2 DEF RelayDone
  <2>3. CASE Finished \/ UNCHANGED vars
    BY <1>3, <2>3 DEF Finished, vars
  <2>. QED
    BY <2>1, <2>2, <2>3 DEF Next, DirStep
<1>. QED
  BY <1>1, <1>4 DEF PumpInv

\* PumpInv holds throughout.
LEMMA PumpKept == Spec => [](TypeOK /\ PumpInv)
<1>1. Init => TypeOK /\ PumpInv
  BY TypeInit, PumpInvInit
<1>2. TypeOK /\ PumpInv /\ [Next]_vars => (TypeOK /\ PumpInv)'
  BY TypeStep, PumpInvStep
<1>. QED
  BY <1>1, <1>2, PTL DEF Spec

\* The variables of a relay keep their types, and the tee and the queue their bounds.
THEOREM TypeCorrect == Spec => []TypeOK
  BY PumpKept, PTL

\* For every size of the tee and of the queue, any bodies and any stray bytes: a message of
\* which a part was forwarded but not captured is not published as complete before the
\* connection is reported opaque.
THEOREM NeverFalselyComplete == Spec => []NoFalseComplete
<1>1. PumpInv => NoFalseComplete
  BY DEF PumpInv, DirInv, Honest, NoFalseComplete
<1>. QED
  BY <1>1, PumpKept, PTL

-----------------------------------------------------------------------------
(* Pump implements Capture. *)

Shown(es) == [i \in DOMAIN es |-> [msg |-> es[i].msg, seq |-> es[i].seq]]

\* A function on 1 .. n is a sequence.
LEMMA IsASequence ==
    ASSUME NEW R, NEW n \in Nat, NEW v \in [1 .. n -> R]
    PROVE  v \in Seq(R)
<1>1. Seq(R) = UNION {[1 .. m -> R] : m \in Nat}
  BY SeqDef, Zenon
<1>2. \E T \in {[1 .. m -> R] : m \in Nat} : v \in T
  OBVIOUS
<1>. QED
  BY <1>1, <1>2, Zenon

\* What Capture sees of a direction's events: as many, and one more for one more.
LEMMA ShownFacts ==
    ASSUME NEW es \in Seq(Event)
    PROVE  /\ Shown(es) \in Seq([msg : Nat, seq : Nat]) /\ Len(Shown(es)) = Len(es)
           /\ \A x \in Event : Shown(Append(es, x)) = Append(Shown(es), [msg |-> x.msg, seq |-> x.seq])
<1>1. ASSUME NEW ts \in Seq(Event) 
      PROVE  /\ Shown(ts) \in Seq([msg : Nat, seq : Nat]) /\ Len(Shown(ts)) = Len(ts)
             /\ \A i \in 1 .. Len(ts) : Shown(ts)[i] = [msg |-> ts[i].msg, seq |-> ts[i].seq]
  <2>1. DOMAIN ts = 1 .. Len(ts) /\ Len(ts) \in Nat
    OBVIOUS
  <2>2. ASSUME NEW i \in 1 .. Len(ts)
        PROVE  [msg |-> ts[i].msg, seq |-> ts[i].seq] \in [msg : Nat, seq : Nat]
    <3>1. ts[i] \in Event
      BY <2>1
    <3>. QED
      BY <3>1 DEF Event
  <2>3. Shown(ts) = [i \in 1 .. Len(ts) |-> [msg |-> ts[i].msg, seq |-> ts[i].seq]]
    BY <2>1 DEF Shown
  <2>4. Shown(ts) \in [1 .. Len(ts) -> [msg : Nat, seq : Nat]]
    BY <2>2, <2>3
  <2>5. PICK n \in Nat : n = Len(ts)
    BY <2>1
  <2>6. PICK v \in [1 .. n -> [msg : Nat, seq : Nat]] : v = Shown(ts)
    BY <2>4, <2>5
  <2>7. v \in Seq([msg : Nat, seq : Nat]) /\ Len(v) = n
    <3>1. v \in Seq([msg : Nat, seq : Nat])
      BY IsASequence
    <3>2. DOMAIN v = 1 .. n /\ DOMAIN v = 1 .. Len(v) /\ Len(v) \in Nat
      BY <3>1
    <3>3. n <= Len(v) /\ Len(v) <= n
      BY <3>2
    <3>. QED
      BY <3>1, <3>2, <3>3
  <2>. QED
    BY <2>3, <2>5, <2>6, <2>7
<1>2. ASSUME NEW x \in Event
      PROVE  Shown(Append(es, x)) = Append(Shown(es), [msg |-> x.msg, seq |-> x.seq])
  <2>1. PICK ts \in Seq(Event) : ts = Append(es, x)
    <3>1. Append(es, x) \in Seq(Event)
      OBVIOUS
    <3>. QED
      BY <3>1
  <2>2. PICK r \in [msg : Nat, seq : Nat] : r = [msg |-> x.msg, seq |-> x.seq]
    BY DEF Event
  <2>3. PICK vs \in Seq([msg : Nat, seq : Nat]) : vs = Shown(es)
    BY <1>1
  <2>4. /\ Len(ts) = Len(es) + 1 /\ Len(es) \in Nat /\ ts[Len(es) + 1] = x
        /\ \A i \in 1 .. Len(es) : ts[i] = es[i]
    BY <2>1
  <2>5. /\ Len(vs) = Len(es)
        /\ \A i \in 1 .. Len(es) : vs[i] = [msg |-> es[i].msg, seq |-> es[i].seq]
    BY <1>1, <2>3
  <2>6. /\ Shown(ts) \in Seq([msg : Nat, seq : Nat]) /\ Len(Shown(ts)) = Len(es) + 1
        /\ \A i \in 1 .. Len(es) + 1 : Shown(ts)[i] = [msg |-> ts[i].msg, seq |-> ts[i].seq]
    BY <1>1, <2>4
  <2>7. /\ Append(vs, r) \in Seq([msg : Nat, seq : Nat]) /\ Len(Append(vs, r)) = Len(es) + 1
        /\ Append(vs, r)[Len(es) + 1] = r
        /\ \A i \in 1 .. Len(es) : Append(vs, r)[i] = vs[i]
    BY <2>5
  <2>8. ASSUME NEW i \in 1 .. Len(es) + 1 PROVE Shown(ts)[i] = Append(vs, r)[i]
    <3>1. CASE i = Len(es) + 1
      BY <2>2, <2>4, <2>6, <2>7, <3>1
    <3>2. CASE i \in 1 .. Len(es)
      BY <2>4, <2>5, <2>6, <2>7, <3>2
    <3>3. i = Len(es) + 1 \/ i \in 1 .. Len(es)
      BY <2>4
    <3>. QED
      BY <3>1, <3>2, <3>3
  <2>9. PICK us \in Seq([msg : Nat, seq : Nat]) : us = Shown(ts)
    BY <2>6
  <2>10. PICK ws \in Seq([msg : Nat, seq : Nat]) : ws = Append(vs, r)
    BY <2>7
  <2>11. us = ws
    <3>1. Len(us) = Len(es) + 1 /\ Len(ws) = Len(es) + 1
      BY <2>6, <2>7, <2>9, <2>10
    <3>2. \A i \in 1 .. Len(es) + 1 : us[i] = ws[i]
      BY <2>8, <2>9, <2>10
    <3>. QED
      BY <3>1, <3>2
  <2>. QED
    BY <2>1, <2>2, <2>3, <2>9, <2>10, <2>11
<1>. QED
  BY <1>1, <1>2

\* The events as Capture sees them.
View == [d \in Dirs |-> Shown(events[d])]


\* Capture's initial states, and its steps, in terms of Pump.
LEMMA CaptureInit == Init => C!Init
<1>. SUFFICES ASSUME Init PROVE C!Init
  OBVIOUS
<1>1. [i \in DOMAIN << >> |-> [msg |-> << >>[i].msg, seq |-> << >>[i].seq]] = << >>
  <2>1. Len(Shown(<< >>)) = 0 /\ Shown(<< >>) \in Seq([msg : Nat, seq : Nat])
    <3>1. << >> \in Seq(Event) /\ Len(<< >>) = 0
      OBVIOUS
    <3>. QED
      BY <3>1, ShownFacts
  <2>2. PICK v \in Seq([msg : Nat, seq : Nat]) : v = Shown(<< >>)
    BY <2>1
  <2>3. v = << >>
    BY <2>1, <2>2
  <2>. QED
    BY <2>2, <2>3 DEF Shown
<1>2. [d \in Dirs |-> [i \in DOMAIN events[d] |->
          [msg |-> events[d][i].msg, seq |-> events[d][i].seq]]] = [d \in Dirs |-> << >>]
  BY <1>1 DEF Init
<1>. QED
  BY <1>2 DEF Init, C!Init

\* A step that leaves the shared view alone is a stutter of Capture.
LEMMA SeesNothing ==
    ASSUME UNCHANGED <<crossed, View, opaque, derailed, over>>
    PROVE  UNCHANGED C!vars
  BY DEF C!vars, View, Shown

\* A head that is delivered is Capture's Cross.
LEMMA SeesCross ==
    ASSUME NEW d \in Dirs, ~over, crossed' = [crossed EXCEPT ![d] = @ + 1],
           UNCHANGED <<View, opaque, derailed, over>>
    PROVE  C!Cross(d)
  BY DEF C!Cross, View, Shown

\* An event with the next number, of a head that was delivered, is Capture's Publish.
LEMMA SeesPublish ==
    ASSUME NEW d \in Dirs, ~over, Len(View[d]) + 1 <= crossed[d],
           View' = [View EXCEPT ![d] =
                       Append(@, [msg |-> Len(View[d]) + 1, seq |-> Len(View[d]) + 1])],
           derailed' \in {derailed, TRUE}, UNCHANGED <<crossed, opaque, over>>
    PROVE  C!Publish(d)
  BY DEF C!Publish, View, Shown

\* The first opaque event is Capture's MarkOpaque.
LEMMA SeesMarkOpaque ==
    ASSUME ~over, opaque = 0, opaque' = 1, UNCHANGED <<crossed, View, derailed, over>>
    PROVE  C!MarkOpaque
  BY DEF C!MarkOpaque, View, Shown

\* A relay that ends with nothing missing, or reported opaque, is Capture's End.
LEMMA SeesEnd ==
    ASSUME ~over, over' = TRUE, opaque = 1 \/ \A d \in Dirs : Len(View[d]) = crossed[d],
           UNCHANGED <<crossed, View, opaque, derailed>>
    PROVE  C!End
  BY DEF C!End, View, Shown

\* A step of Pump that leaves the events, the heads and the end of the relay alone.
LEMMA QuietStep ==
    ASSUME TypeOK, UNCHANGED <<crossed, events, derailed, over>>,
           opaque' = opaque \/ (MarkOpaque /\ ~over)
    PROVE  [C!Next]_(C!vars)
<1>1. View' = View
  BY DEF View
<1>2. CASE opaque' = opaque
  BY <1>1, <1>2, SeesNothing
<1>3. CASE opaque = 0 /\ opaque' = 1 /\ ~over
  BY <1>1, <1>3, SeesMarkOpaque DEF C!Next
<1>. QED
  BY <1>2, <1>3 DEF MarkOpaque, TypeOK

\* A delivered chunk is a head, or nothing that Capture counts.
LEMMA WriteIsSeen ==
    ASSUME TypeOK, NEW d \in Dirs, Ending(d), Write(d)
    PROVE  [C!Next]_(C!vars)
<1>1. /\ copier[d] = "write" /\ ~over
      /\ crossed' = Set(crossed, d, crossed[d] + IF chunk[d].kind = "head" THEN 1 ELSE 0)
      /\ UNCHANGED <<events, opaque, derailed, over>>
  BY DEF Write, Ending, parseVars
<1>2. View' = View
  BY <1>1 DEF View
<1>3. CASE chunk[d].kind = "head"
  <2>1. crossed' = [crossed EXCEPT ![d] = @ + 1]
    BY <1>1, <1>3 DEF Set
  <2>. QED
    BY <1>1, <1>2, <2>1, SeesCross DEF C!Next
<1>4. CASE chunk[d].kind # "head"
  <2>1. crossed' = crossed
    BY <1>1, <1>4 DEF Set, TypeOK
  <2>. QED
    BY <1>1, <1>2, <2>1, SeesNothing
<1>. QED
  BY <1>3, <1>4

\* A published event is the next one, or the capture was derailed.
LEMMA PublishIsSeen ==
    ASSUME TypeOK, NEW d \in Dirs, Flow(d), Ending(d), Numbers, ReadBody(d)
    PROVE  [C!Next]_(C!vars)
<1>1. /\ crossed' = crossed /\ opaque' = opaque /\ over' = over
      /\ derailed' = (derailed \/ msg[d].body = "malformed")
  BY DEF ReadBody, copyVars
<1>2. parser[d] = "body" /\ ~over
  BY ReadBodySays DEF Ending
<1>3. CASE derailed
  <2>1. C!Lapsed
    BY <1>1, <1>2, <1>3 DEF C!Lapsed
  <2>. QED
    BY <2>1 DEF C!Next
<1>4. CASE events' = events /\ derailed' = derailed
  BY <1>1, <1>4, QuietStep
<1>5. CASE /\ ~derailed
           /\ \E x \in Event : /\ x.msg = msg[d].id /\ x.seq = msg[d].seq
                               /\ events' = Set(events, d, Append(events[d], x))
  <2>1. PICK x \in Event : /\ x.msg = msg[d].id /\ x.seq = msg[d].seq
                           /\ events' = Set(events, d, Append(events[d], x))
    BY <1>5
  <2>2. PICK es \in Seq(Event) : es = events[d]
    BY DEF TypeOK, Event
  <2>3. x.msg = Len(es) + 1 /\ x.seq = Len(es) + 1 /\ Len(es) + 1 <= crossed[d]
    BY <1>2, <1>5, <2>1, <2>2, PublishesNext
  <2>4. /\ Len(Shown(es)) = Len(es)
        /\ Shown(Append(es, x)) = Append(Shown(es), [msg |-> x.msg, seq |-> x.seq])
    BY ShownFacts
  <2>5. View[d] = Shown(es) /\ Len(View[d]) = Len(es)
    BY <2>2, <2>4 DEF View
  <2>6. View' = [View EXCEPT ![d] = Append(Shown(es), [msg |-> x.msg, seq |-> x.seq])]
    <3>1. View' = [e \in Dirs |-> Shown(events'[e])]
      BY DEF View
    <3>2. events'[d] = Append(es, x) /\ \A e \in Dirs : e # d => events'[e] = events[e]
      BY <2>1, <2>2 DEF Set, TypeOK
    <3>. HIDE DEF Shown
    <3>. QED
      BY <2>4, <3>1, <3>2 DEF View
  <2>7. View' = [View EXCEPT ![d] =
                    Append(@, [msg |-> Len(View[d]) + 1, seq |-> Len(View[d]) + 1])]
    BY <2>3, <2>5, <2>6
  <2>8. derailed' \in {derailed, TRUE}
    <3>1. CASE msg[d].body = "malformed"
      BY <1>1, <3>1
    <3>2. CASE msg[d].body # "malformed"
      BY <1>1, <3>2 DEF TypeOK
    <3>. QED
      BY <3>1, <3>2
  <2>9. Len(View[d]) + 1 <= crossed[d]
    BY <2>3, <2>5
  <2>10. C!Publish(d)
    BY <1>1, <1>2, <2>7, <2>8, <2>9, SeesPublish
  <2>. QED
    BY <2>10 DEF C!Next
<1>. QED
  BY <1>3, <1>4, <1>5, ReadBodySays

\* When the relay is over, every message delivered has its event, or the connection was
\* reported, or the capture was derailed.
LEMMA EndIsSeen ==
    ASSUME TypeOK, \A d \in Dirs : Ending(d), RelayDone
    PROVE  [C!Next]_(C!vars)
<1>1. /\ ~over /\ over' = TRUE /\ UNCHANGED <<crossed, events, opaque, derailed>>
      /\ \A d \in Dirs : parser[d] = "done"
  BY DEF RelayDone, copyVars, parseVars
<1>2. View' = View
  BY <1>1 DEF View
<1>3. CASE derailed
  <2>1. C!Lapsed
    BY <1>1, <1>3 DEF C!Lapsed
  <2>. QED
    BY <2>1 DEF C!Next
<1>4. CASE ~derailed
  <2>1. ASSUME NEW d \in Dirs PROVE Len(View[d]) = Len(events[d])
    <3>1. PICK es \in Seq(Event) : es = events[d]
      BY DEF TypeOK, Event
    <3>. QED
      BY <3>1, ShownFacts DEF View
  <2>2. opaque = 1 \/ \A d \in Dirs : Len(View[d]) = crossed[d]
    BY <1>1, <1>4, <2>1 DEF Ending
  <2>3. C!End
    BY <1>1, <1>2, <2>2, SeesEnd
  <2>. QED
    BY <2>3 DEF C!Next
<1>. QED
  BY <1>3, <1>4

\* Every step of Pump is one of Capture, or Capture does not see it.
LEMMA CaptureStep == TypeOK /\ PumpInv /\ [Next]_vars => [C!Next]_(C!vars)
<1>. SUFFICES ASSUME TypeOK, PumpInv, [Next]_vars PROVE [C!Next]_(C!vars)
  OBVIOUS
<1>1. Numbers /\ \A d \in Dirs : Flow(d) /\ Ending(d)
  BY DEF PumpInv, DirInv
<1>2. ASSUME NEW d \in Dirs, Write(d) PROVE [C!Next]_(C!vars)
  BY <1>1, <1>2, WriteIsSeen
<1>3. ASSUME NEW d \in Dirs, ReadBody(d) PROVE [C!Next]_(C!vars)
  BY <1>1, <1>3, PublishIsSeen
<1>4. CASE RelayDone
  BY <1>1, <1>4, EndIsSeen
<1>5. ASSUME NEW d \in Dirs, Read(d) \/ Return(d) \/ Copy(d) \/ Feeder(d)
      PROVE  [C!Next]_(C!vars)
  <2>1. UNCHANGED <<crossed, events, derailed, over>>
    BY <1>5 DEF Read, Return, Copy, Submit, TellDetached, CloseTee, Feeder, Feed, FeedFails, FeedEnds,
                copyVars, parseVars
  <2>2. opaque' = opaque \/ (MarkOpaque /\ ~over)
    <3>1. CASE TellDetached(d)
      BY <1>1, <3>1 DEF TellDetached, Ending
    <3>2. CASE ~TellDetached(d)
      BY <1>5, <3>2 DEF Read, Return, Copy, Submit, CloseTee, Feeder, Feed, FeedFails, FeedEnds
    <3>. QED
      BY <3>1, <3>2
  <2>. QED
    BY <2>1, <2>2, QuietStep
<1>6. ASSUME NEW d \in Dirs, ReadHead(d) \/ HeadEOF(d) \/ ParserDone(d) \/ (d = "response" /\ PopQueue)
      PROVE  [C!Next]_(C!vars)
  <2>1. UNCHANGED <<crossed, events, derailed, over>>
    BY <1>6 DEF ReadHead, HeadEOF, ParserDone, PopQueue, copyVars
  <2>2. parser[d] # "done"
    BY <1>6 DEF ReadHead, HeadEOF, ParserDone, PopQueue
  <2>3. opaque' = opaque \/ MarkOpaque
    BY <1>6 DEF ReadHead, GotHead, FramingLost, HeadEOF, ParserDone, PopQueue
  <2>. QED
    BY <1>1, <2>1, <2>2, <2>3, QuietStep DEF Ending
<1>7. CASE Finished \/ UNCHANGED vars
  BY <1>7, QuietStep DEF Finished, vars, copyVars, parseVars
<1>. QED
  BY <1>2, <1>3, <1>4, <1>5, <1>6, <1>7 DEF Next, Parse

\* Pump implements Capture, for every size of the tee and of the queue: events are numbered
\* in the order of the wire, a response carries the number of its request, and a connection
\* whose messages were not all captured was reported opaque when the relay is over.
THEOREM PumpCaptures == Spec => Captures
<1>1. Spec => C!Init
  BY CaptureInit DEF Spec
<1>2. Spec => [][C!Next]_(C!vars)
  BY CaptureStep, PumpKept, PTL DEF Spec
<1>. QED
  BY <1>1, <1>2 DEF Captures, C!Spec

-----------------------------------------------------------------------------
(* The relay goes on: somebody can always take a step, and each step brings the end nearer. *)

\* What each action needs, read off it: the goroutine that would take it goes on without
\* waiting for another one.
CopyGuard(d) == \/ copier[d] = "tee" /\ (detached[d] \/ Len(tee[d]) <= MaxTeeBacklogChunks)
                \/ copier[d] \in {"return", "close"}
FeederGuard(d) == \/ feeder[d] = "receive" /\ (tee[d] # << >> \/ teeClosed[d])
                  \/ feeder[d] = "write" /\ parser[d] = "done"
ReadGuard(d) == \/ feeder[d] = "write" /\ pipe[d].kind # "nothing"
                \/ feeder[d] = "eof"
ParseGuard(d) ==
    \/ parser[d] = "head" /\ ReadGuard(d)
    \/ parser[d] = "body" /\ (msg[d].body \in {"none", "malformed"} \/ ReadGuard(d))
    \/ parser[d] = "pop" /\ d = "response" /\ (queue # << >> \/ queueClosed)
    \/ parser[d] = "return"
DoneGuard == \A d \in Dirs : /\ copier[d] = "done" /\ parser[d] = "done"
                             /\ feeder[d] \in {"eof", "aborted"}

\* Reads fail and writes end sooner or later; otherwise a goroutine can go on, or all have ended.
NotStuck == \/ over \/ DoneGuard
            \/ \E d \in Dirs : \/ copier[d] \in {"read", "write"}
                               \/ CopyGuard(d) \/ FeederGuard(d) \/ ParseGuard(d)

\* What each goroutine of a direction has left to do, and what it may still cause others to do.
CopyWork(d) == CASE copier[d] = "write" -> 9 [] copier[d] = "tee" -> 8
                 [] copier[d] = "read" -> 3 [] copier[d] = "return" -> 2
                 [] copier[d] = "close" -> 1 [] OTHER -> 0
FeederWork(d) == CASE feeder[d] = "write" -> 4 [] feeder[d] = "receive" -> 1 [] OTHER -> 0
ParserWork(d) == CASE parser[d] = "pop" -> 4 [] parser[d] = "body" -> 3
                   [] parser[d] = "head" -> 2 [] parser[d] = "return" -> 1 [] OTHER -> 0
ReadWork(d) == 7 * (MaxChunks[d] - sent[d])
TeeWork(d) == 4 * Len(tee[d])
DirWork(d) == ReadWork(d) + CopyWork(d) + TeeWork(d) + FeederWork(d) + ParserWork(d)
Work == DirWork("request") + DirWork("response") + IF over THEN 0 ELSE 1

\* What a goroutine that waits knows of those it waits for.
Waits(d) ==
    /\ sent[d] <= MaxChunks[d]
    /\ copier[d] \in {"write", "tee"} => chunk[d].kind # "nothing"
    /\ \A i \in 1 .. Len(tee[d]) : tee[d][i].kind # "nothing"
    /\ feeder[d] = "write" => pipe[d].kind # "nothing"
    /\ feeder[d] = "aborted" => parser[d] = "done"
    /\ copier[d] = "done" => teeClosed[d]
    /\ d = "request" => /\ parser[d] # "pop"
                        /\ parser[d] = "done" => queueClosed

Waiting == \A d \in Dirs : Waits(d)

\* A step of one direction takes nothing from the other.
LEMMA OtherAlone ==
    ASSUME TypeOK, NEW d \in Dirs, DirStep(d), NEW e \in Dirs, e # d
    PROVE  Same(e) /\ sent'[e] = sent[e] /\ (queueClosed => queueClosed')
<1>1. sent'[e] = sent[e]
  BY DEF DirStep, Read, Write, Return, Copy, Submit, TellDetached, CloseTee, Feeder, Feed,
         FeedFails, FeedEnds, Parse, ReadHead, HeadEOF, ReadBody, ParserDone, PopQueue,
         copyVars, TypeOK, Set
<1>2. queueClosed => queueClosed'
  BY DEF DirStep, Read, Write, Return, Copy, Submit, TellDetached, CloseTee, Feeder, Feed,
         FeedFails, FeedEnds, Parse, ReadHead, HeadEOF, ReadBody, ParserDone, PopQueue, parseVars
<1>. QED
  BY <1>1, <1>2, Frame

\* Only chunks that are something enter the tee and the pipe.
LEMMA WaitsStep ==
    ASSUME TypeOK, NEW d \in Dirs, Waits(d), parser["request"] # "pop", DirStep(d)
    PROVE  Waits(d)'
<1>. USE DEF Set
<1>m. MaxChunks[d] \in Nat /\ sent[d] \in Nat
  BY PumpAssumption DEF TypeOK
<1>1. CASE Read(d)
  <2>1. PICK s \in MaySend(d) : chunk' = Set(chunk, d, s.chunk)
    BY <1>1 DEF Read
  <2>2. chunk'[d].kind # "nothing"
    <3>1. s.chunk.kind # "nothing"
      BY MaySendFacts
    <3>. QED
      BY <2>1, <3>1 DEF TypeOK
  <2>3. sent'[d] = sent[d] + 1 /\ sent[d] < MaxChunks[d] /\ copier'[d] = "write"
    BY <1>1 DEF Read, TypeOK
  <2>4. UNCHANGED <<teeVars, parseVars>>
    BY <1>1 DEF Read
  <2>. QED
    BY <1>m, <2>2, <2>3, <2>4 DEF Waits, teeVars, parseVars
<1>2. CASE Write(d) \/ Return(d) \/ TellDetached(d) \/ CloseTee(d)
  <2>1. /\ copier'[d] \in {"tee", "return", "close", "done"}
        /\ copier'[d] = "tee" => chunk' = chunk /\ copier[d] = "write"
        /\ copier'[d] = "done" => teeClosed'[d]
    BY <1>2 DEF Write, Return, TellDetached, CloseTee, TypeOK
  <2>2. UNCHANGED <<sent, tee, feeder, pipe, parseVars>>
    BY <1>2 DEF Write, Return, TellDetached, CloseTee, teeVars
  <2>. QED
    BY <2>1, <2>2 DEF Waits, parseVars
<1>3. CASE Submit(d)
  <2>1. UNCHANGED <<sent, teeClosed, feeder, pipe, parseVars>> /\ copier'[d] = "read"
    BY <1>3 DEF Submit, TypeOK
  <2>2. \A i \in 1 .. Len(tee'[d]) : tee'[d][i].kind # "nothing"
    <3>1. PICK t \in Seq(Chunk) : t = tee[d]
      BY DEF TypeOK
    <3>2. PICK c \in Chunk : c = chunk[d]
      BY DEF TypeOK
    <3>3. tee'[d] = t \/ tee'[d] = Append(t, c)
      <4>1. DOMAIN tee = Dirs
        BY DEF TypeOK
      <4>2. tee' = tee \/ tee' = [tee EXCEPT ![d] = Append(tee[d], chunk[d])]
        BY <1>3 DEF Submit, Set
      <4>. QED
        BY <3>1, <3>2, <4>1, <4>2
    <3>4. c.kind # "nothing" /\ \A i \in 1 .. Len(t) : t[i].kind # "nothing"
      BY <1>3, <3>1, <3>2 DEF Waits, Submit
    <3>5. CASE tee'[d] = t
      BY <3>4, <3>5
    <3>6. CASE tee'[d] = Append(t, c)
      <4>1. /\ Len(Append(t, c)) = Len(t) + 1 /\ Len(t) \in Nat /\ Append(t, c)[Len(t) + 1] = c
            /\ \A i \in 1 .. Len(t) : Append(t, c)[i] = t[i]
        OBVIOUS
      <4>2. \A i \in 1 .. Len(Append(t, c)) : i \in 1 .. Len(t) \/ i = Len(t) + 1
        BY <4>1
      <4>. QED
        BY <3>4, <3>6, <4>1, <4>2
    <3>. QED
      BY <3>3, <3>5, <3>6
  <2>. QED
    BY <2>1, <2>2 DEF Waits, parseVars
<1>4. CASE Feed(d)
  <2>1. UNCHANGED <<copyVars, teeClosed, parseVars>> /\ feeder'[d] = "write"
    BY <1>4 DEF Feed, TypeOK
  <2>2. PICK t \in Seq(Chunk) : t = tee[d]
    BY DEF TypeOK
  <2>3. t # << >> /\ tee'[d] = Tail(t) /\ pipe'[d] = t[1]
    BY <1>4, <2>2 DEF Feed, TypeOK
  <2>4. \A i \in 1 .. Len(t) : t[i].kind # "nothing"
    BY <2>2 DEF Waits
  <2>5. pipe'[d].kind # "nothing" /\ \A i \in 1 .. Len(tee'[d]) : tee'[d][i].kind # "nothing"
    <3>1. t[1].kind # "nothing"
      BY <2>3, <2>4
    <3>2. ASSUME NEW i \in 1 .. Len(Tail(t)) PROVE Tail(t)[i].kind # "nothing"
      <4>1. Tail(t)[i] = t[i + 1] /\ i + 1 \in 1 .. Len(t)
        BY <2>3
      <4>. QED
        BY <2>4, <4>1
    <3>. QED
      BY <2>3, <3>1, <3>2
  <2>. QED
    BY <2>1, <2>5 DEF Waits, copyVars, parseVars
<1>5. CASE FeedFails(d) \/ FeedEnds(d)
  <2>1. UNCHANGED <<copyVars, tee, teeClosed, parseVars>>
    BY <1>5 DEF FeedFails, FeedEnds
  <2>2. feeder'[d] = "eof" \/ (feeder'[d] = "aborted" /\ parser[d] = "done")
    BY <1>5 DEF FeedFails, FeedEnds, TypeOK
  <2>. QED
    BY <2>1, <2>2 DEF Waits, copyVars, parseVars
<1>6. CASE Parse(d)
  <2>1. UNCHANGED <<copyVars, tee, teeClosed>>
    BY <1>6 DEF Parse, ReadHead, HeadEOF, ReadBody, ParserDone, PopQueue, Take, EOF, teeVars
  <2>2. feeder'[d] = "receive" \/ (feeder'[d] = feeder[d] /\ pipe'[d] = pipe[d])
    BY <1>6 DEF Parse, ReadHead, HeadEOF, ReadBody, ParserDone, PopQueue, Take, EOF, teeVars, TypeOK
  <2>3. parser[d] # "done"
    BY <1>6 DEF Parse, ReadHead, HeadEOF, ReadBody, ParserDone, PopQueue
  <2>5. d = "request" => parser[d] # "pop"
    BY DEF Waits
  <2>4. d = "request" => parser'[d] # "pop" /\ (parser'[d] = "done" => queueClosed')
    <3>p. DOMAIN parser = Dirs
      BY DEF TypeOK
    <3>1. CASE \E v \in {"head", "body", "return"} : parser' = Set(parser, d, v)
      BY <3>p, <3>1
    <3>2. CASE ParserDone(d)
      BY <3>p, <3>2 DEF ParserDone
    <3>3. CASE parser' = parser
      BY <2>3, <2>5, <3>3
    <3>4. d = "request" /\ ~ParserDone(d) => \/ parser' = parser
                                             \/ \E v \in {"head", "body", "return"} : parser' = Set(parser, d, v)
      BY <1>6 DEF Parse, ReadHead, GotHead, FramingLost, HeadEOF, ReadBody
    <3>. QED
      BY <3>1, <3>2, <3>3, <3>4
  <2>. QED
    BY <2>1, <2>2, <2>3, <2>4 DEF Waits, copyVars
<1>. QED
  BY <1>1, <1>2, <1>3, <1>4, <1>5, <1>6 DEF DirStep, Copy, Feeder

\* At the start nobody waits for anything.
LEMMA WaitingInit == Init => Waiting
  BY PumpAssumption DEF Init, Waiting, Waits, TypeOK

\* A step of either direction keeps what both know.
LEMMA WaitingStep == TypeOK /\ PumpInv /\ Waiting /\ [Next]_vars => Waiting'
<1>. SUFFICES ASSUME TypeOK, PumpInv, Waiting, [Next]_vars, NEW e \in Dirs PROVE Waits(e)'
  BY DEF Waiting
<1>1. Waits(e) /\ parser["request"] # "pop"
  BY DEF Waiting, PumpInv
<1>2. ASSUME NEW d \in Dirs, DirStep(d) PROVE Waits(e)'
  <2>1. CASE d = e
    BY <1>1, <1>2, <2>1, WaitsStep
  <2>2. CASE d # e
    BY <1>1, <1>2, <2>2, OtherAlone DEF Waits, Same, CopySame, TeeSame, ParseSame
  <2>. QED
    BY <2>1, <2>2
<1>3. CASE UNCHANGED <<copyVars, teeVars, parseVars>>
  BY <1>1, <1>3 DEF Waits, copyVars, teeVars, parseVars
<1>. QED
  BY <1>2, <1>3 DEF Next, DirStep, RelayDone, Finished, vars

\* Waiting holds throughout.
LEMMA WaitingKept == Spec => [](TypeOK /\ PumpInv /\ Waiting)
<1>1. TypeOK /\ PumpInv /\ Waiting /\ [Next]_vars => Waiting'
  BY WaitingStep
<1>. QED
  BY <1>1, WaitingInit, PumpKept, PTL DEF Spec

\* For every size of the tee and of the queue: until runRelay has returned, one of its
\* goroutines can go on, or is in a read or a write that the peers and the deadlines end.  No
\* ring of a full tee, an unread pipe, an empty queue and an unclosed channel parks them all.
THEOREM RelayNeverStuck == Spec => []NotStuck
<1>. SUFFICES TypeOK /\ Waiting => NotStuck
  BY WaitingKept, PTL
<1>. SUFFICES ASSUME TypeOK, Waiting,
                     \A d \in Dirs : /\ copier[d] \notin {"read", "write"}
                                     /\ ~CopyGuard(d) /\ ~FeederGuard(d) /\ ~ParseGuard(d)
              PROVE  DoneGuard
  BY DEF NotStuck
<1>1. ASSUME NEW d \in Dirs PROVE copier[d] = "done" /\ teeClosed[d]
  BY DEF CopyGuard, Waiting, Waits, TypeOK
<1>2. ASSUME NEW d \in Dirs, parser[d] # "pop"
      PROVE  parser[d] = "done" /\ feeder[d] \in {"eof", "aborted"}
  BY <1>1, <1>2 DEF FeederGuard, ParseGuard, ReadGuard, Waiting, Waits, TypeOK
<1>3. parser["request"] = "done" /\ queueClosed
  BY <1>2 DEF Waiting, Waits, Dirs
<1>4. parser["response"] # "pop"
  BY <1>3 DEF ParseGuard, Dirs
<1>. QED
  BY <1>1, <1>2, <1>3, <1>4 DEF DoneGuard, Dirs

\* The parts of a direction's work are numbers, and so is the whole.
LEMMA WorkTypes ==
    TypeOK /\ Waiting =>
        \A d \in Dirs : /\ ReadWork(d) \in Nat /\ CopyWork(d) \in Nat /\ TeeWork(d) \in Nat
                        /\ FeederWork(d) \in Nat /\ ParserWork(d) \in Nat /\ DirWork(d) \in Nat
<1>. SUFFICES ASSUME TypeOK, Waiting, NEW d \in Dirs
              PROVE  /\ ReadWork(d) \in Nat /\ CopyWork(d) \in Nat /\ TeeWork(d) \in Nat
                     /\ FeederWork(d) \in Nat /\ ParserWork(d) \in Nat /\ DirWork(d) \in Nat
  OBVIOUS
<1>1. ReadWork(d) \in Nat
  BY PumpAssumption DEF TypeOK, Waiting, Waits, ReadWork
<1>2. CopyWork(d) \in Nat /\ FeederWork(d) \in Nat /\ ParserWork(d) \in Nat
  BY DEF CopyWork, FeederWork, ParserWork
<1>3. TeeWork(d) \in Nat
  BY DEF TypeOK, TeeWork
<1>. QED
  BY <1>1, <1>2, <1>3 DEF DirWork

\* The same, one step later.
LEMMA WorkTypesNext ==
    (TypeOK /\ Waiting =>
        \A d \in Dirs : /\ ReadWork(d) \in Nat /\ CopyWork(d) \in Nat /\ TeeWork(d) \in Nat
                        /\ FeederWork(d) \in Nat /\ ParserWork(d) \in Nat /\ DirWork(d) \in Nat)'
  BY WorkTypes, PTL

\* What a step of the forwarding goroutine lowers; the rest is what it leaves alone.
LEMMA CopyFalls ==
    ASSUME TypeOK, Waiting, NEW d \in Dirs, Read(d) \/ Write(d) \/ Return(d) \/ Copy(d)
    PROVE  /\ ReadWork(d)' + CopyWork(d)' + TeeWork(d)' < ReadWork(d) + CopyWork(d) + TeeWork(d)
           /\ FeederWork(d)' = FeederWork(d) /\ ParserWork(d)' = ParserWork(d)
<1>. USE DEF Set
<1>w. /\ ReadWork(d) \in Nat /\ CopyWork(d) \in Nat /\ TeeWork(d) \in Nat
      /\ MaxChunks[d] \in Nat /\ sent[d] \in Nat /\ sent[d] <= MaxChunks[d]
  BY WorkTypes, PumpAssumption DEF Waiting, Waits, TypeOK
<1>1. FeederWork(d)' = FeederWork(d) /\ ParserWork(d)' = ParserWork(d)
  <2>1. feeder' = feeder /\ parser' = parser
    BY DEF Read, Write, Return, Copy, Submit, TellDetached, CloseTee, teeVars, parseVars
  <2>. QED
    BY <2>1 DEF FeederWork, ParserWork
<1>2. CASE Read(d)
  <2>1. /\ copier[d] = "read" /\ copier'[d] = "write" /\ sent'[d] = sent[d] + 1 /\ tee' = tee
    BY <1>2 DEF Read, TypeOK, teeVars
  <2>2. CopyWork(d) = 3 /\ CopyWork(d)' = 9 /\ TeeWork(d)' = TeeWork(d)
    BY <2>1 DEF CopyWork, TeeWork
  <2>3. ReadWork(d)' = ReadWork(d) - 7
    BY <1>w, <2>1 DEF ReadWork
  <2>. QED
    BY <1>w, <1>1, <2>2, <2>3
<1>3. CASE Write(d) \/ Return(d) \/ TellDetached(d) \/ CloseTee(d)
  <2>1. /\ sent' = sent /\ tee' = tee
        /\ \/ copier[d] = "write" /\ copier'[d] = "tee"
           \/ copier[d] \in {"read", "write"} /\ copier'[d] = "return"
           \/ copier[d] = "return" /\ copier'[d] = "close"
           \/ copier[d] = "close" /\ copier'[d] = "done"
    BY <1>3 DEF Write, Return, TellDetached, CloseTee, TypeOK, teeVars
  <2>2. CopyWork(d)' < CopyWork(d) /\ CopyWork(d)' \in Nat
    BY <2>1 DEF CopyWork
  <2>3. ReadWork(d)' = ReadWork(d) /\ TeeWork(d)' = TeeWork(d)
    BY <2>1 DEF ReadWork, TeeWork
  <2>. QED
    BY <1>w, <1>1, <2>2, <2>3
<1>4. CASE Submit(d)
  <2>1. copier[d] = "tee" /\ copier'[d] = "read" /\ sent' = sent
    BY <1>4 DEF Submit, TypeOK
  <2>2. CopyWork(d) = 8 /\ CopyWork(d)' = 3 /\ ReadWork(d)' = ReadWork(d)
    BY <2>1 DEF CopyWork, ReadWork
  <2>3. Len(tee'[d]) \in {Len(tee[d]), Len(tee[d]) + 1} /\ Len(tee[d]) \in Nat
    <3>1. PICK t \in Seq(Chunk) : t = tee[d]
      BY DEF TypeOK
    <3>2. PICK c \in Chunk : c = chunk[d]
      BY DEF TypeOK
    <3>3. tee'[d] = t \/ tee'[d] = Append(t, c)
      BY <1>4, <3>1, <3>2 DEF Submit, TypeOK
    <3>. QED
      BY <3>1, <3>3
  <2>4. TeeWork(d)' \in {TeeWork(d), TeeWork(d) + 4}
    BY <2>3 DEF TeeWork
  <2>. QED
    BY <1>w, <1>1, <2>2, <2>4
<1>. QED
  BY <1>2, <1>3, <1>4 DEF Copy

\* What a step of the feeder lowers.
LEMMA FeederFalls ==
    ASSUME TypeOK, Waiting, NEW d \in Dirs, Feeder(d)
    PROVE  /\ TeeWork(d)' + FeederWork(d)' < TeeWork(d) + FeederWork(d)
           /\ ReadWork(d)' = ReadWork(d) /\ CopyWork(d)' = CopyWork(d)
           /\ ParserWork(d)' = ParserWork(d)
<1>. USE DEF Set
<1>1. ReadWork(d)' = ReadWork(d) /\ CopyWork(d)' = CopyWork(d) /\ ParserWork(d)' = ParserWork(d)
  <2>1. sent' = sent /\ copier' = copier /\ parser' = parser
    BY DEF Feeder, Feed, FeedFails, FeedEnds, copyVars, parseVars
  <2>. QED
    BY <2>1 DEF ReadWork, CopyWork, ParserWork
<1>2. CASE Feed(d)
  <2>1. feeder[d] = "receive" /\ feeder'[d] = "write"
    BY <1>2 DEF Feed, TypeOK
  <2>2. FeederWork(d) = 1 /\ FeederWork(d)' = 4
    BY <2>1 DEF FeederWork
  <2>3. Len(tee'[d]) = Len(tee[d]) - 1 /\ Len(tee[d]) \in Nat
    <3>1. PICK t \in Seq(Chunk) : t = tee[d]
      BY DEF TypeOK
    <3>2. t # << >> /\ tee'[d] = Tail(t)
      BY <1>2, <3>1 DEF Feed, TypeOK
    <3>. QED
      BY <3>1, <3>2
  <2>4. TeeWork(d)' = TeeWork(d) - 4 /\ TeeWork(d) \in Nat
    BY <2>3 DEF TeeWork
  <2>. QED
    BY <1>1, <2>2, <2>4
<1>3. CASE FeedFails(d) \/ FeedEnds(d)
  <2>1. tee' = tee /\ feeder[d] \in {"receive", "write"} /\ feeder'[d] \in {"eof", "aborted"}
    BY <1>3 DEF FeedFails, FeedEnds, TypeOK
  <2>2. FeederWork(d)' = 0 /\ FeederWork(d) \in {1, 4}
    BY <2>1 DEF FeederWork
  <2>3. TeeWork(d)' = TeeWork(d) /\ TeeWork(d) \in Nat
    BY <2>1, WorkTypes DEF TeeWork
  <2>. QED
    BY <1>1, <2>2, <2>3
<1>. QED
  BY <1>2, <1>3 DEF Feeder

\* What a step of the parser lowers.
LEMMA ParserFalls ==
    ASSUME TypeOK, Waiting, NEW d \in Dirs, Parse(d)
    PROVE  /\ FeederWork(d)' + ParserWork(d)' < FeederWork(d) + ParserWork(d)
           /\ ReadWork(d)' = ReadWork(d) /\ CopyWork(d)' = CopyWork(d) /\ TeeWork(d)' = TeeWork(d)
<1>. USE DEF Set
<1>1. ReadWork(d)' = ReadWork(d) /\ CopyWork(d)' = CopyWork(d) /\ TeeWork(d)' = TeeWork(d)
  <2>1. sent' = sent /\ copier' = copier /\ tee' = tee
    BY DEF Parse, ReadHead, HeadEOF, ReadBody, ParserDone, PopQueue, Take, EOF, copyVars, teeVars
  <2>. QED
    BY <2>1 DEF ReadWork, CopyWork, TeeWork
<1>2. \/ /\ feeder[d] = "write" /\ feeder'[d] = "receive"
         /\ \/ parser[d] = "head" /\ parser'[d] \in {"body", "pop", "return", "head"}
            \/ parser[d] = "body" /\ parser'[d] \in {"head", "body"}
      \/ /\ feeder'[d] = feeder[d]
         /\ \/ parser[d] = "head" /\ parser'[d] = "return"
            \/ parser[d] = "pop" /\ parser'[d] \in {"body", "return"}
            \/ parser[d] = "body" /\ parser'[d] = "head"
            \/ parser[d] = "return" /\ parser'[d] = "done"
  <2>1. CASE ReadHead(d)
    BY <2>1 DEF ReadHead, Take, GotHead, FramingLost, TypeOK
  <2>2. CASE ReadBody(d)
    BY <2>2 DEF ReadBody, Take, EOF, TypeOK, teeVars
  <2>3. CASE HeadEOF(d) \/ ParserDone(d)
    BY <2>3 DEF HeadEOF, EOF, ParserDone, TypeOK, teeVars
  <2>4. CASE d = "response" /\ PopQueue
    BY <2>4 DEF PopQueue, TypeOK, teeVars
  <2>. QED
    BY <2>1, <2>2, <2>3, <2>4 DEF Parse
<1>3. CASE feeder[d] = "write" /\ feeder'[d] = "receive"
  <2>1. FeederWork(d) = 4 /\ FeederWork(d)' = 1
    BY <1>3 DEF FeederWork
  <2>2. ParserWork(d) \in {2, 3} /\ ParserWork(d)' \in Nat /\ ParserWork(d)' <= ParserWork(d) + 2
    BY <1>2, <1>3 DEF ParserWork
  <2>. QED
    BY <1>1, <2>1, <2>2
<1>4. CASE feeder'[d] = feeder[d]
  <2>1. FeederWork(d)' = FeederWork(d) /\ FeederWork(d) \in Nat
    BY <1>4, WorkTypes DEF FeederWork
  <2>2. ParserWork(d)' < ParserWork(d) /\ ParserWork(d) \in Nat /\ ParserWork(d)' \in Nat
    BY <1>2, <1>4 DEF ParserWork
  <2>. QED
    BY <1>1, <2>1, <2>2
<1>. QED
  BY <1>2, <1>3, <1>4

\* A step of a direction lowers its work.
LEMMA DirDescends ==
    ASSUME TypeOK, Waiting, TypeOK', Waiting', NEW d \in Dirs, DirStep(d)
    PROVE  DirWork(d)' < DirWork(d)
<1>1. /\ ReadWork(d) \in Nat /\ CopyWork(d) \in Nat /\ TeeWork(d) \in Nat
      /\ FeederWork(d) \in Nat /\ ParserWork(d) \in Nat
  BY WorkTypes
<1>2. /\ ReadWork(d)' \in Nat /\ CopyWork(d)' \in Nat /\ TeeWork(d)' \in Nat
      /\ FeederWork(d)' \in Nat /\ ParserWork(d)' \in Nat
  BY WorkTypesNext
<1>3. CASE Read(d) \/ Write(d) \/ Return(d) \/ Copy(d)
  BY <1>1, <1>2, <1>3, CopyFalls DEF DirWork
<1>4. CASE Feeder(d)
  BY <1>1, <1>2, <1>4, FeederFalls DEF DirWork
<1>5. CASE Parse(d)
  BY <1>1, <1>2, <1>5, ParserFalls DEF DirWork
<1>. QED
  BY <1>3, <1>4, <1>5 DEF DirStep

\* The work is a number, before and after.
LEMMA WorkIsNat ==
    TypeOK /\ Waiting => DirWork("request") \in Nat /\ DirWork("response") \in Nat
  BY WorkTypes DEF Waiting, Dirs

\* The same, one step later.
LEMMA WorkIsNatNext ==
    (TypeOK /\ Waiting)' => (DirWork("request") \in Nat /\ DirWork("response") \in Nat)'
  BY WorkIsNat, PTL

\* Every step of the relay lowers the measure.
LEMMA WorkDescends ==
    ASSUME TypeOK, PumpInv, Waiting, TypeOK', Waiting', Next, vars' # vars
    PROVE  Work' < Work
<1>1. /\ DirWork("request") \in Nat /\ DirWork("response") \in Nat
      /\ DirWork("request")' \in Nat /\ DirWork("response")' \in Nat
  BY WorkIsNat, WorkIsNatNext
<1>2. ASSUME NEW d \in Dirs, DirStep(d) PROVE Work' < Work
  <2>1. DirWork(d)' < DirWork(d)
    BY <1>2, DirDescends DEF Waiting
  <2>2. ASSUME NEW e \in Dirs, e # d PROVE DirWork(e)' = DirWork(e)
    BY <1>2, <2>2, OtherAlone
       DEF Same, CopySame, TeeSame, ParseSame, DirWork, ReadWork, CopyWork, TeeWork,
           FeederWork, ParserWork
  <2>3. over' = over
    BY <1>2, Frame
  <2>4. CASE d = "request"
    <3>1. DirWork("response")' = DirWork("response") /\ DirWork("request")' < DirWork("request")
      BY <2>1, <2>2, <2>4 DEF Dirs
    <3>. QED
      BY <1>1, <2>3, <3>1 DEF Work
  <2>5. CASE d = "response"
    <3>1. DirWork("request")' = DirWork("request") /\ DirWork("response")' < DirWork("response")
      BY <2>1, <2>2, <2>5 DEF Dirs
    <3>. QED
      BY <1>1, <2>3, <3>1 DEF Work
  <2>. QED
    BY <2>4, <2>5 DEF Dirs
<1>3. CASE RelayDone
  <2>1. ~over /\ over' = TRUE /\ UNCHANGED <<copyVars, teeVars, parseVars>>
    BY <1>3 DEF RelayDone
  <2>2. /\ DirWork("request")' = DirWork("request")
        /\ DirWork("response")' = DirWork("response")
    BY <2>1 DEF DirWork, ReadWork, CopyWork, TeeWork, FeederWork, ParserWork, copyVars, teeVars, parseVars
  <2>. QED
    BY <1>1, <2>1, <2>2 DEF Work
<1>4. ~Finished
  BY DEF Finished
<1>. QED
  BY <1>2, <1>3, <1>4 DEF Next, DirStep

\* For every size of the tee and of the queue, and however many chunks the peers send: each
\* step of the relay, whichever goroutine takes it, lowers a natural number.  So no goroutine
\* of a relay spins, and none can keep it from its end by going on for ever.
THEOREM RelayDescends == Spec => [](Work \in Nat) /\ [][Work' < Work]_vars
<1>1. TypeOK /\ Waiting => Work \in Nat
  BY WorkIsNat DEF Work
<1>2. TypeOK /\ PumpInv /\ Waiting /\ TypeOK' /\ Waiting' /\ [Next]_vars => [Work' < Work]_vars
  BY WorkDescends
<1>. QED
  BY <1>1, <1>2, WaitingKept, PTL DEF Spec

\* For every size of the tee: the forwarding goroutine waits for nobody between two reads, when
\* its action is enabled whenever its guard says so.
THEOREM CopierNeverWaits ==
    Spec /\ [](\A d \in Dirs : CopyGuard(d) => ENABLED Copy(d)) => []Forwards
<1>1. TypeOK /\ (\A d \in Dirs : CopyGuard(d) => ENABLED Copy(d)) => Forwards
  BY DEF TypeOK, CopyGuard, Forwards
<1>. QED
  BY <1>1, TypeCorrect, PTL
=============================================================================
