------------------------------ MODULE Console ------------------------------
(***************************************************************************)
(* The console's event loop (tui.RunConsole): one goroutine handles, one   *)
(* at a time, the events of tcell's bounded queue.  Keys come from the     *)
(* terminal; a sampler goroutine posts what the egress monitor saw, while  *)
(* the Exfiltration view is visible and not paused; a third goroutine      *)
(* posts the messages the intercept session captured.  An inspection runs  *)
(* in the loop itself, which handles nothing until it ends.  The findings  *)
(* view is module Quarantine's.                                            *)
(***************************************************************************)
EXTENDS ExfilView

CONSTANTS QueueCap,        \* of tcell's event queue
          MaxPerApp,       \* maxPerApp
          MaxTrackedPIDs,  \* maxTrackedPIDs
          NoPid, NoName,   \* of a message without an owner: pid 0, neither path nor name
          Notice,          \* the owner of a notice about the stream itself
          Senders,         \* the owners of captured messages: [pid, path, app], or Notice
          Bounds           \* bounds: how many events of each kind a run may have

ASSUME ConsoleAssumption == /\ QueueCap \in Nat \ {0}
                            /\ MaxPerApp \in Nat \ {0} /\ MaxTrackedPIDs \in Nat \ {0}
                            /\ \A s \in Senders \ {Notice} : s.pid \in Pids \cup {NoPid}

VARIABLES mode,        \* the face shown: "findings" or "exfil"
          paused,      \* em.Paused
          sampleNow,   \* the channel of capacity one holds a request
          queue,       \* tcell's event queue
          ui,          \* what the event loop is doing
          buffer,      \* em.Messages: by pid, only the tracked ones
          dropped,     \* em.MessageDropCount
          status,      \* em.InterceptStatus
          ingested,    \* history: the messages handed to withMessage that it accepted
          spent        \* how many events of each kind have happened

loopVars == <<mode, paused, sampleNow, ui>>
paneVars == <<exfilVars, inspectVars>>
messageVars == <<buffer, dropped, status, ingested>>
consoleVars == <<loopVars, queue, paneVars, messageVars, spent>>
allVars == <<egressVars, nameVars, consoleVars>>

\* The key that quits is Ctrl-C, which no overlay traps.
Keystrokes == {"tab", "pause", "escape", "quit", "zoom", "inspect", "focus", "up", "down",
               "open", "close", "sort"}

ConsoleTypeOK ==
    /\ EgressTypeOK /\ NameTypeOK /\ ViewTypeOK /\ InspectTypeOK
    /\ mode \in {"findings", "exfil"} /\ paused \in BOOLEAN /\ sampleNow \in BOOLEAN
    /\ Len(queue) <= QueueCap
    /\ ui \in {"poll", "done"}
    /\ status \in {"none", "notice", "full", "unattributed"}
    /\ DOMAIN buffer \subseteq Pids \cup {NoPid}
    /\ Cardinality(DOMAIN buffer) <= MaxTrackedPIDs
    /\ \A p \in DOMAIN buffer : Len(buffer[p]) \in 1 .. MaxPerApp
    /\ DOMAIN dropped \subseteq DOMAIN buffer

ConsoleInit ==
    /\ EgressInit /\ NameInit /\ ViewInit /\ InspectInit
    /\ mode = "findings" /\ paused = FALSE /\ sampleNow = FALSE
    /\ queue = << >> /\ ui = "poll"
    /\ buffer = None /\ dropped = None /\ status = "none" /\ ingested = None
    /\ spent = None

\* A map with one more entry, or a changed one.
With(f, k, v) == [j \in DOMAIN f \cup {k} |-> IF j = k THEN v ELSE f[j]]

\* The bound on what the outside does; a kind a bound does not name does not happen.
Spend(kind) == /\ \E b \in Bounds :
                     /\ DOMAIN spent \cup {kind} \subseteq DOMAIN b
                     /\ At(spent, kind) < b[kind]
                     /\ \A k \in DOMAIN spent : spent[k] <= b[k]
               /\ spent' = With(spent, kind, At(spent, kind) + 1)

-----------------------------------------------------------------------------
(* The goroutines that post. *)

\* PostEvent: with the queue full the event is lost, and nobody looks at the error.
Posted(ev) == queue' = IF Len(queue) < QueueCap THEN Append(queue, ev) ELSE queue

Sampling == mode = "exfil" /\ ~paused

\* The ticker finds the sampler waiting.
Tick ==
    /\ stage = "idle" /\ Sampling /\ stage' = "nettop"
    /\ Spend("samples")
    /\ UNCHANGED <<machineVars, monitorVars, nameVars, loopVars, queue, paneVars, messageVars>>

\* The request to sample at once.
Warm ==
    /\ stage = "idle" /\ sampleNow /\ stage' = "nettop" /\ sampleNow' = FALSE
    /\ Spend("samples")
    /\ UNCHANGED <<machineVars, monitorVars, nameVars, mode, paused, ui, queue, paneVars, messageVars>>

PostSample ==
    /\ stage = "post" /\ stage' = "idle"
    /\ Posted([type |-> "groups", groups |-> shown])
    /\ UNCHANGED <<machineVars, monitorVars, nameVars, loopVars, paneVars, messageVars, spent>>

Sampler == \/ Tick \/ Warm \/ PostSample
           \/ Sample(TRUE) /\ UNCHANGED <<nameVars, consoleVars>>
           \/ /\ Spend("failures") /\ Sample(FALSE)
              /\ UNCHANGED <<nameVars, loopVars, queue, paneVars, messageVars>>

\* The message after those read so far.
PostMessage(from) ==
    /\ Spend("messages")
    /\ Posted([type |-> "message", from |-> from, n |-> spent'.messages])
    /\ UNCHANGED <<egressVars, nameVars, loopVars, paneVars, messageVars>>

\* tcell's input goroutine waits for room.
Press(k) ==
    /\ Len(queue) < QueueCap
    /\ Spend(k)
    /\ queue' = Append(queue, [type |-> "key", key |-> k])
    /\ UNCHANGED <<egressVars, nameVars, loopVars, paneVars, messageVars>>

-----------------------------------------------------------------------------
(* RunConsole's loop. *)

\* The event the loop handles; there is none while it inspects.
Next1(type) == /\ ui = "poll" /\ probe = "off"
               /\ queue # << >> /\ queue[1].type = type /\ queue' = Tail(queue)

Key1(keys) == Next1("key") /\ queue[1].key \in keys

Unmoved == UNCHANGED <<egressVars, nameVars, messageVars, spent>>

\* Tab; on the way to Exfiltration it asks for a sample at once.
SwitchFace ==
    /\ Key1({"tab"}) /\ view = NoView /\ zoom = NoZoom
    /\ mode' = IF mode = "findings" THEN "exfil" ELSE "findings"
    /\ sampleNow' = (sampleNow \/ (mode = "findings" /\ ~paused))
    /\ UNCHANGED <<paused, ui, paneVars>> /\ Unmoved

\* Mutant of Quit: the overlays own every key.
QuitTrapped ==
    /\ Key1({"quit"}) /\ view = NoView /\ zoom = NoZoom /\ ui' = "done"
    /\ UNCHANGED <<mode, paused, sampleNow, paneVars>> /\ Unmoved

Quit ==
    /\ Key1({"quit"}) /\ ui' = "done"
    /\ UNCHANGED <<mode, paused, sampleNow, paneVars>> /\ Unmoved

\* The pane owns every key.
InspectionKey ==
    /\ Key1(Keystrokes \ {"quit"}) /\ view # NoView
    /\ IF queue[1].key \in {"escape", "inspect"} THEN ClosePane ELSE UNCHANGED inspectVars
    /\ UNCHANGED <<loopVars, exfilVars>> /\ Unmoved

ZoomKey ==
    /\ Key1(Keystrokes \ {"quit"}) /\ view = NoView /\ zoom # NoZoom
    /\ InDashboard(queue[1].key)
    /\ UNCHANGED loopVars /\ Unmoved

TreeKey ==
    /\ Key1(Keystrokes \ {"quit", "tab"}) /\ view = NoView /\ zoom = NoZoom /\ mode = "exfil"
    /\ InTree(queue[1].key)
    /\ paused' = (paused # (queue[1].key = "pause"))
    /\ UNCHANGED <<mode, sampleNow, ui>> /\ Unmoved

\* The findings view: module Quarantine.
FindingsKey ==
    /\ Key1(Keystrokes \ {"quit", "tab"}) /\ mode = "findings"
    /\ UNCHANGED <<loopVars, paneVars>> /\ Unmoved

\* The loop is in Inspect.
Inspection == Probe /\ UNCHANGED <<exfilVars, loopVars, queue>> /\ Unmoved

\* A sample arrives.
ShowSample ==
    /\ Next1("groups")
    /\ IF paused THEN UNCHANGED exfilVars ELSE WithGroups(queue[1].groups)
    /\ UNCHANGED <<inspectVars, loopVars>> /\ Unmoved

-----------------------------------------------------------------------------
(* withMessage *)

\* Mutant of SameProc: by the name alone, of which two executables may have one.
SameProcByName(a, b) == a.app = NoName \/ b.app = NoName \/ a.app = b.app

\* What a message is recognised by, and whether it has it.
Known(a, how) == IF how = "path" THEN a.path # NoPath ELSE a.app # NoName
Unowned(a) == ~Known(a, "path") /\ ~Known(a, "name")

\* sameProc: by the path if both have one, else by the name if both have one; against
\* one that has neither nothing can be disproved.
SameProc(a, b) ==
    \/ Unowned(a) \/ Unowned(b)
    \/ Known(a, "path") /\ Known(b, "path") /\ a.path = b.path
    \/ ~(Known(a, "path") /\ Known(b, "path")) /\ Known(a, "name") /\ a.app = b.app

Without(f, p) == [q \in DOMAIN f \ {p} |-> f[q]]

\* The buffer under m's pid is another process's.
Recycled(m) == /\ m.from.pid \in DOMAIN buffer
               /\ LET b == buffer[m.from.pid] IN ~SameProc(b[Len(b)].from, m.from)

\* Mutant of Kept: a full buffer loses messages uncounted.
KeptUncounted(p, m, buf, lost) ==
    /\ buffer' = With(buffer, p, Append(IF Len(buf) < MaxPerApp THEN buf ELSE Tail(buf), m))
    /\ dropped' = lost

\* The message goes to the end of buf, of which lost counts what it has lost; a full
\* buffer loses its oldest message.
Kept(p, m, buf, lost) ==
    /\ buffer' = With(buffer, p, Append(IF Len(buf) < MaxPerApp THEN buf ELSE Tail(buf), m))
    /\ dropped' = IF Len(buf) < MaxPerApp THEN lost ELSE With(lost, p, At(lost, p) + 1)

\* All buffers are taken: a message of another pid is refused, and the user is told.
Frozen(m) == m.from.pid \notin DOMAIN buffer /\ Cardinality(DOMAIN buffer) >= MaxTrackedPIDs

ShowNotice(m) == status' = "notice" /\ UNCHANGED <<buffer, dropped, ingested>>

Refuse(m) == status' = "full" /\ UNCHANGED <<buffer, dropped, ingested>>

Ingest(m) ==
    LET p == m.from.pid
        all == IF Recycled(m) THEN << >> ELSE Ring(ingested, p)
    IN  /\ IF Recycled(m) THEN Kept(p, m, << >>, Without(dropped, p))
           ELSE Kept(p, m, Ring(buffer, p), dropped)
        /\ ingested' = With(ingested, p, Append(all, m))
        /\ status' = IF p = NoPid THEN "unattributed" ELSE status

ShowMessage ==
    /\ Next1("message")
    /\ LET m == queue[1] IN \/ m.from = Notice /\ ShowNotice(m)
                            \/ m.from # Notice /\ Frozen(m) /\ Refuse(m)
                            \/ m.from # Notice /\ ~Frozen(m) /\ Ingest(m)
    /\ UNCHANGED <<egressVars, nameVars, loopVars, paneVars, spent>>

Loop == \/ SwitchFace \/ Quit \/ InspectionKey \/ ZoomKey \/ TreeKey \/ FindingsKey
        \/ Inspection \/ ShowSample \/ ShowMessage

-----------------------------------------------------------------------------

\* The machine and the network of which the console is told.  What the machine does
\* before the first sample is in Init.
World == \/ /\ "samples" \in DOMAIN spent
            /\ \/ Spend("traffic") /\ Activity
               \/ Spend("exits") /\ Exits
               \/ Spend("closes") /\ Closes
            /\ UNCHANGED <<nameVars, loopVars, queue, paneVars, messageVars>>
         \/ Spend("names") /\ NameNext
            /\ UNCHANGED <<egressVars, loopVars, queue, paneVars, messageVars>>
         \/ Spend("packets") /\ \E pkt \in Traffic : Arrive(pkt)
            /\ UNCHANGED <<egressVars, nameVars, exfilVars, loopVars, queue, messageVars>>

\* Of a capture, what the console does not decide.
Deadline == Elapse /\ UNCHANGED <<exfilVars, loopVars, queue>> /\ Unmoved
Failure == /\ Spend("faults") /\ CaptureFault
           /\ UNCHANGED <<egressVars, nameVars, exfilVars, loopVars, queue, messageVars>>

Next == /\ ui # "done"
        /\ \/ Sampler \/ \E s \in Senders : PostMessage(s) \/ \E k \in Keystrokes : Press(k)
           \/ Loop \/ World \/ Deadline \/ Failure

\* The loop and the sampler run on; nettop, lsof and ps end, and time passes.
Fairness == /\ WF_allVars(ui # "done" /\ Loop)
            /\ WF_allVars(ui # "done" /\ stage # "idle" /\ Sampler)
            /\ WF_allVars(ui # "done" /\ Deadline)

Spec == ConsoleInit /\ [][Next]_allVars /\ Fairness

-----------------------------------------------------------------------------
(* Properties. *)

\* The key `i` inspects what the cursor is on: the flow it starts to inspect is one of
\* the row that is highlighted, and the busiest of them; with such a row on the screen it
\* is never a silent no-op, although samples have come and groups, processes and
\* destinations gone since the cursor was placed ("a stale cursor would make `i` a
\* silent no-op"), and without one nothing is inspected.
InspectPressed == /\ queue # << >> /\ queue[1] = [type |-> "key", key |-> "inspect"]
                  /\ queue' = Tail(queue)
                  /\ mode = "exfil" /\ view = NoView

InspectsTheHighlighted ==
    [][InspectPressed =>
          IF Highlighted = {} THEN probe' = "off"
          ELSE /\ probe' = "open" /\ target'.flow \in Highlighted
               /\ \E a \in DOMAIN groups :
                     /\ target'.app = AppName[a] /\ Highlighted \subseteq DOMAIN groups[a].conns
                     /\ \A s \in Highlighted : groups[a].conns[s] <= groups[a].conns[target'.flow]
      ]_allVars

\* A quit key that was pressed ends the console, whatever the sampler, the capture
\* and the inspection do, and however many events are queued before it.
QuitEnds == (\E i \in DOMAIN queue : queue[i] = [type |-> "key", key |-> "quit"]) ~> ui = "done"

\* Nothing that was taken in is lost without a trace: the buffer of a pid is the end
\* of what came for the process that has it now, in order, and the number of its
\* lost messages is counted.
BufferAccounted ==
    /\ DOMAIN buffer = DOMAIN ingested
    /\ \A p \in DOMAIN buffer :
          LET b == buffer[p]  all == ingested[p]
          IN  /\ b = SubSeq(all, Len(all) - Len(b) + 1, Len(all))
              /\ At(dropped, p) = Len(all) - Len(b)

\* "A reused PID must not inherit the prior process's flows", as far as the messages
\* tell: among successive messages of a buffer that all have a path there is one path,
\* and among successive ones that have only a name, one name.  A message without a path
\* between two with different ones is what two processes may meet over.
Told(a, how) == Known(a, how) /\ (how = "name" => ~Known(a, "path"))
ToldBy(a, how) == IF how = "path" THEN a.path ELSE a.app

NeverMixed ==
    \A p \in DOMAIN buffer : \A i, j \in DOMAIN buffer[p] : \A how \in {"path", "name"} :
        i <= j /\ (\A k \in i .. j : Told(buffer[p][k].from, how))
            => ToldBy(buffer[p][i].from, how) = ToldBy(buffer[p][j].from, how)
=============================================================================
