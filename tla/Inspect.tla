------------------------------ MODULE Inspect -------------------------------
(***************************************************************************)
(* The inspection of one flow (liveInspector.Inspect in                    *)
(* src/inspect_adapter.go and the engine in internal/inspect): the packets *)
(* of its remote host are captured from /dev/bpf for a bounded time,       *)
(* correlated to the flow by its remote endpoint alone, and judged by what *)
(* their bytes look like.  The console's event loop waits for it.          *)
(*                                                                         *)
(* A direction's bytes are a sequence of chunks, the payloads of its       *)
(* segments: the two halves of a ClientHello, what begins with another TLS *)
(* record, text, and any other bytes (the middle of a record included).    *)
(***************************************************************************)
EXTENDS Naturals, Sequences, FiniteSets

CONSTANTS NoFlow,
          NoView,
          TlsFlows,         \* those to a well-known TLS port
          Traffic,          \* the packets that may be on the interface
          MaxPackets,       \* inspectMaxPackets
          MaxChunks         \* maxInspectBytes

Chunks == {"none", "hello1", "hello2", "record", "text", "binary"}

\* A packet is of the flow, of another connection (another process's, or from another
\* local port) to the same remote address and port, of another port of that host, of
\* another host, or is not a TCP segment; an ACK carries no chunk.
Packets == [of : {"flow", "twin", "host", "other", "junk"}, way : {"sent", "received"}, data : Chunks]

ASSUME InspectAssumption == /\ Traffic \subseteq Packets
                            /\ MaxPackets \in Nat \ {0} /\ MaxChunks \in Nat \ {0}

VARIABLES target,    \* InspectReq, then inspection.target: an app's name and a flow of it
          probe,     \* where Inspect is: "off", "open" or "capture"
          filtered,  \* the kernel drops what is not of the host
          buffered,  \* the device's buffer
          pend,      \* bpfCapture.pend
          late,      \* the deadline has passed
          taken,     \* Inspect's locals
          wire,      \* history: the packets Next has returned
          view       \* em.Inspection's view, or NoView while the pane is closed

captureVars == <<filtered, buffered, pend, late, taken, wire>>
inspectVars == <<target, probe, captureVars, view>>

Nothing == [seen |-> 0, sent |-> << >>, received |-> << >>, err |-> FALSE]

InspectTypeOK ==
    /\ probe \in {"off", "open", "capture"}
    /\ filtered \in BOOLEAN /\ late \in BOOLEAN
    /\ buffered \in Seq(Traffic) /\ pend \in Seq(Traffic) /\ wire \in Seq(Traffic)
    /\ Len(wire) <= MaxPackets
    /\ taken.seen <= Len(wire) /\ taken.err \in BOOLEAN
    /\ taken.sent \in Seq(Chunks) /\ taken.received \in Seq(Chunks)

InspectInit ==
    /\ target = NoFlow /\ probe = "off" /\ view = NoView
    /\ filtered = TRUE /\ buffered = << >> /\ pend = << >> /\ late = FALSE
    /\ taken = Nothing /\ wire = << >>

-----------------------------------------------------------------------------
(* What the bytes look like. *)

\* looksPlaintext: by the leading bytes.
LooksPlaintext(b) == b # << >> /\ b[1] = "text"

\* looksTLS: a record header comes first.
LooksTLS(b) == b # << >> /\ b[1] \in {"hello1", "record"}

\* ClientHelloSNI over what was accumulated in the order it came.
HasSNI(b) == Len(b) >= 2 /\ b[1] = "hello1" /\ b[2] = "hello2"

Encrypted(t) == HasSNI(t.sent) \/ LooksTLS(t.sent) \/ LooksTLS(t.received) \/ target.flow \in TlsFlows

Readable(t) == LooksPlaintext(t.sent) \/ LooksPlaintext(t.received)

Verdict(t) ==
    CASE Readable(t) -> "plaintext"
      [] ~Readable(t) /\ (t.sent # << >> \/ t.received # << >>) ->
            IF Encrypted(t) THEN "encrypted" ELSE "binary, not TLS"
      [] t.sent = << >> /\ t.received = << >> -> IF t.err THEN "failed" ELSE "no data"

\* renderFlowBytes: ciphertext is not shown, everything else is.
Rendered(b, t) == IF LooksPlaintext(b) \/ ~Encrypted(t) THEN b ELSE << >>

\* toInspectView
View(t) == [verdict |-> Verdict(t), sni |-> HasSNI(t.sent), encrypted |-> Encrypted(t),
            sent |-> Rendered(t.sent, t), received |-> Rendered(t.received, t),
            volume |-> <<Len(t.sent), Len(t.received)>>,
            seen |-> t.seen, err |-> t.err]

\* A view without a capture.
Refused == [View(Nothing) EXCEPT !.verdict = "refused", !.err = TRUE]

-----------------------------------------------------------------------------

\* The key `i` found a flow.
Request(app, flow) == /\ target' = [app |-> app, flow |-> flow] /\ probe' = "open"
                      /\ UNCHANGED <<captureVars, view>>

\* OpenLiveCapture.  With no filter installed the whole interface is captured.
CaptureFrom(scoped) ==
    /\ probe = "open" /\ probe' = "capture" /\ filtered' = scoped
    /\ buffered' = << >> /\ pend' = << >> /\ late' = FALSE
    /\ taken' = Nothing /\ wire' = << >>
    /\ UNCHANGED <<target, view>>

OpenCapture == CaptureFrom(TRUE)
FilterFails == CaptureFrom(FALSE)

\* --no-inspect, an endpoint that does not parse, or a device that cannot be opened.
OpenFails ==
    /\ probe = "open" /\ probe' = "off" /\ view' = Refused
    /\ UNCHANGED <<target, captureVars>>

\* A packet passes the interface, and the kernel's filter.  What comes after the
\* deadline is not read.
Arrive(pkt) ==
    /\ probe = "capture" /\ ~late
    /\ filtered => pkt.of \in {"flow", "twin", "host"}
    /\ buffered' = Append(buffered, pkt)
    /\ UNCHANGED <<target, probe, filtered, pend, late, taken, wire, view>>

Elapse == /\ probe = "capture" /\ ~late /\ late' = TRUE
          /\ UNCHANGED <<target, probe, filtered, buffered, pend, taken, wire, view>>

\* The loop's two limits.
Enough == Len(wire) >= MaxPackets \/ Len(taken.sent) + Len(taken.received) >= MaxChunks

\* The loop ends: by a limit, or because Next, which looks at the deadline only when
\* it has no packet left, returns io.EOF.
Over == Enough \/ (pend = << >> /\ late)

\* Next reads all there is.
Read == /\ probe = "capture" /\ ~Over /\ pend = << >> /\ buffered # << >>
        /\ pend' = buffered /\ buffered' = << >>
        /\ UNCHANGED <<target, probe, filtered, late, taken, wire, view>>

\* Mutant of Mine: the segments of the host.
MineByHost(pkt, way) == pkt.of \in {"flow", "twin", "host"} /\ pkt.way = way /\ pkt.data # "none"

\* A segment to, or from, the flow's remote address and port, with a payload; whose
\* connection it is of is not looked at.
Mine(pkt, way) == pkt.of \in {"flow", "twin"} /\ pkt.way = way /\ pkt.data # "none"

\* One turn of Inspect's loop.
Take ==
    /\ probe = "capture" /\ ~Over /\ pend # << >>
    /\ LET pkt == pend[1]
           Grown(way) == IF Mine(pkt, way) THEN Append(taken[way], pkt.data) ELSE taken[way]
       IN  /\ taken' = [taken EXCEPT !.seen = IF pkt.of = "junk" THEN @ ELSE @ + 1,
                                     !.sent = Grown("sent"), !.received = Grown("received")]
           /\ wire' = Append(wire, pkt)
    /\ pend' = Tail(pend)
    /\ UNCHANGED <<target, probe, filtered, buffered, late, view>>

\* Inspect judges what it has, and the pane opens.
Conclude(t) ==
    /\ taken' = t /\ view' = View(t) /\ probe' = "off"
    /\ UNCHANGED <<target, filtered, buffered, pend, late, wire>>

Ended == probe = "capture" /\ Over /\ Conclude(taken)

ReadFails == /\ probe = "capture" /\ ~Over /\ pend = << >>
             /\ Conclude([taken EXCEPT !.err = TRUE])

\* The pane is closed, and what it showed is gone.
ClosePane == /\ target' = NoFlow /\ view' = NoView
             /\ filtered' = TRUE /\ buffered' = << >> /\ pend' = << >> /\ late' = FALSE
             /\ taken' = Nothing /\ wire' = << >>
             /\ UNCHANGED probe

CaptureFault == OpenFails \/ FilterFails \/ ReadFails

\* What the inspection does on its own.
Probe == OpenCapture \/ Read \/ Take \/ Ended

-----------------------------------------------------------------------------
(* Properties. *)

\* The packets exchanged with the remote endpoint of the inspected flow that came one way
\* with a payload, by when they came.
Exchanged(way) == {i \in DOMAIN wire : /\ wire[i].of \in {"flow", "twin"} /\ wire[i].way = way
                                       /\ wire[i].data # "none"}

\* The bytes are those packets', in the order in which they came, and no others.
Crossed(bytes, way) ==
    /\ Len(bytes) = Cardinality(Exchanged(way))
    /\ \A i \in Exchanged(way) : bytes[Cardinality({j \in Exchanged(way) : j <= i})] = wire[i].data

\* The pane shows what crossed the wire with the endpoint of the inspected flow, the
\* flow's own packets and those of any other connection to it, and nothing else the
\* capture let through: each direction in order, as far as it was read, or nothing where
\* it is encrypted ("never hide what actually crossed the wire"); it is named only by a
\* ClientHello sent there, and called silent only if all of it was.
PaneShowsTheEndpoint ==
    (view # NoView /\ view.verdict # "refused") =>
        /\ \A way \in {"sent", "received"} : \/ Crossed(view[way], way)
                                            \/ (view[way] = << >> /\ view.encrypted)
        /\ view.volume = <<Cardinality(Exchanged("sent")), Cardinality(Exchanged("received"))>>
        /\ view.sni => \E i, j \in Exchanged("sent") :
                          /\ wire[i].data = "hello1" /\ wire[j].data = "hello2"
                          /\ i < j /\ \A k \in Exchanged("sent") : k = i \/ k >= j
        /\ view.verdict = "no data" => Exchanged("sent") = {} /\ Exchanged("received") = {} /\ ~view.err
        /\ view.verdict = "plaintext" => \E b \in {view.sent, view.received} :
                                            \E i \in DOMAIN b : b[i] = "text"
=============================================================================
