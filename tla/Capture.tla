------------------------------ MODULE Capture -------------------------------
(***************************************************************************)
(* What the capture of one relayed connection promises to whoever reads    *)
(* its events, without the machinery that keeps the promise: events        *)
(* number the messages of each direction 1, 2, 3, ... in the order in      *)
(* which they crossed the wire, so that a request and the response that    *)
(* answers it carry the same number; and when the connection is over,      *)
(* every message that crossed has its event, or the connection has been    *)
(* reported opaque.  All this holds until a message comes of which nobody  *)
(* can tell the end: it derails the capture, which promises nothing more.  *)
(***************************************************************************)
EXTENDS Naturals, Sequences

CONSTANT Dirs   \* the two directions

VARIABLES crossed,   \* the messages whose head was delivered, in each direction
          events,    \* the events published: the message each one shows and its number
          opaque,    \* the connection was reported opaque
          derailed,  \* the end of a message could not be told
          over

vars == <<crossed, events, opaque, derailed, over>>

Init == /\ crossed = [d \in Dirs |-> 0]
        /\ events = [d \in Dirs |-> << >>]
        /\ opaque = FALSE /\ derailed = FALSE /\ over = FALSE

Cross(d) == /\ ~over
            /\ crossed' = [crossed EXCEPT ![d] = @ + 1]
            /\ UNCHANGED <<events, opaque, derailed, over>>

Publish(d) == LET n == Len(events[d]) + 1 IN
              /\ ~over /\ n <= crossed[d]
              /\ events' = [events EXCEPT ![d] = Append(@, [msg |-> n, seq |-> n])]
              /\ derailed' \in {derailed, TRUE}
              /\ UNCHANGED <<crossed, opaque, over>>

MarkOpaque == /\ ~over /\ ~opaque /\ opaque' = TRUE
              /\ UNCHANGED <<crossed, events, derailed, over>>

End == /\ ~over /\ over' = TRUE
       /\ opaque \/ \A d \in Dirs : Len(events[d]) = crossed[d]
       /\ UNCHANGED <<crossed, events, opaque, derailed>>

\* Nothing is promised of a derailed capture, but that nothing follows its end.
Lapsed == /\ derailed /\ ~over
          /\ derailed' = TRUE

Next == \/ \E d \in Dirs : Cross(d) \/ Publish(d)
        \/ MarkOpaque \/ End \/ Lapsed

Spec == Init /\ [][Next]_vars
=============================================================================
