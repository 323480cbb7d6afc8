------------------------------- MODULE Fanout -------------------------------
(***************************************************************************)
(* The outputs of an intercept session (publish.Fanout): the live stream,  *)
(* the message log, or both, chosen at launch.  The proxy's connections    *)
(* publish concurrently; each message passes the stream and then the log,  *)
(* whose order may therefore differ.  The teardown closes the outputs in   *)
(* the same order while connections still publish, and the process ends.   *)
(***************************************************************************)
EXTENDS SocketSink, LogSink

CONSTANTS Launches,    \* how a session may be launched: its outputs, and as bounds the
                       \* messages published and those between the stream and the log
          MaxSessions  \* bound: the sessions after the first

ASSUME FanoutAssumption ==
    /\ Launches \subseteq [outputs : SUBSET {"stream", "log"}, msgs : Nat, waiting : Nat]
    /\ MaxSessions \in Nat

VARIABLES launch,    \* how this one was
          waiting,   \* the messages that have passed the stream, and are to be logged
          logClosed, \* the teardown has closed the log
          sessions   \* the sessions that may still be started

fanoutVars == <<vars, logVars, launch, waiting, logClosed, sessions>>

outputs == launch.outputs

FanoutTypeOK == /\ TypeOK /\ LogTypeOK
                /\ launch \in Launches
                /\ waiting \subseteq 1 .. published
                /\ logClosed \in BOOLEAN /\ sessions \in 0 .. MaxSessions

FanoutInit == /\ Init /\ LogInit
              /\ launch \in Launches /\ waiting = {}
              /\ logClosed = FALSE /\ sessions = MaxSessions

-----------------------------------------------------------------------------
(* A session: the outputs are opened, messages pass through, the teardown closes
   the outputs. *)

OpenLog == /\ "log" \in outputs /\ ~logClosed
           /\ \E cut \in 1 .. Keep + 1 : \E gone \in SUBSET Gens : LogOpen(cut, gone)
           /\ UNCHANGED <<vars, launch, waiting, logClosed, sessions>>

\* A log that cannot be opened ends the session; the files may be pruned.
NoSession == /\ outputs = {"log"} /\ ~logClosed /\ sessions > 0
             /\ LogFaults \cap {"refuse", "crash"} # {}
             /\ \E cut \in 1 .. Keep + 1 : \E gone \in SUBSET Gens : LogOpenFails(cut, gone)
             /\ sessions' = sessions - 1
             /\ UNCHANGED <<vars, launch, waiting, logClosed>>

Serving == "log" \in outputs => log # "off"

\* A connection publishes a message: Fanout's first output takes it.
Offer ==
    /\ Serving /\ published < launch.msgs
    /\ "log" \in outputs => Cardinality(waiting) < launch.waiting
    /\ \/ "stream" \in outputs /\ Publish
       \/ /\ "stream" \notin outputs /\ published < MaxMsgs
          /\ published' = published + 1
          /\ UNCHANGED <<acceptor, conn, readers, chanVars, serveVars, closed, closer, listening,
                         dropped, historyVars, panicked>>
    /\ waiting' = IF "log" \in outputs THEN waiting \cup {published + 1} ELSE {}
    /\ UNCHANGED <<logVars, launch, logClosed, sessions>>

\* The next output: whichever message gets the log's mutex.
Log(m) == /\ m \in waiting /\ waiting' = waiting \ {m}
          /\ \E s \in Sizes : LogPublish(m, s)
          /\ UNCHANGED <<vars, launch, logClosed, sessions>>

StreamRuns ==
    /\ "stream" \in outputs
    /\ \/ \E r \in Readers : Connect(r) \/ Hangup(r) \/ Serve(r)
       \/ AcceptLoop \/ AcceptError \/ CloseListener
    /\ UNCHANGED <<logVars, launch, waiting, logClosed, sessions>>

\* sinks.Close: the stream ...
CloseStream == /\ Serving /\ "stream" \in outputs /\ CloseReaders
               /\ UNCHANGED <<logVars, launch, waiting, logClosed, sessions>>

\* ... and after it the log.
CloseLog == /\ "log" \in outputs /\ ~logClosed /\ logClosed' = TRUE
            /\ "stream" \in outputs => closer = "done"
            /\ LogClose
            /\ UNCHANGED <<vars, launch, waiting, sessions>>

\* The process is gone, with the messages that were not logged, and another session
\* starts.  Only sessions with a log alone are repeated: the stream starts anew.
NextSession == /\ outputs = {"log"} /\ log # "off"
               /\ sessions > 0 /\ sessions' = sessions - 1
               /\ logClosed \/ "crash" \in LogFaults
               /\ LogExit
               /\ logClosed' = FALSE /\ waiting' = {}
               /\ UNCHANGED <<vars, launch>>

LogRuns == LogStep /\ UNCHANGED <<vars, launch, waiting, logClosed, sessions>>

\* Every output of the session is closed.
Over == /\ "stream" \in outputs => closer = "done"
        /\ "log" \in outputs => logClosed
        /\ UNCHANGED fanoutVars

FanoutNext == \/ OpenLog \/ NoSession \/ Offer \/ (\E m \in waiting : Log(m)) \/ LogRuns
              \/ StreamRuns \/ CloseStream \/ CloseLog \/ NextSession \/ Over

ServeIsFair(r) == WF_fanoutVars(Serve(r) /\ StreamRuns)

FanoutFairness ==
    /\ \A r \in Readers : ServeIsFair(r)
    /\ WF_fanoutVars(AcceptLoop /\ StreamRuns) /\ WF_fanoutVars(CloseListener /\ StreamRuns)
    /\ WF_fanoutVars(LogRuns) /\ WF_fanoutVars(closed /\ CloseLog)

FanoutSpec == FanoutInit /\ [][FanoutNext]_fanoutVars /\ FanoutFairness
=============================================================================
