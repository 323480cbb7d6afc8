------------------------------- MODULE MCPump -------------------------------
(* Instances of Pump: a tee of one chunk and a queue of one request, so that   *)
(* both overflow.                                                              *)
EXTENDS Pump

\* Enough responses for one to follow an overflow of the tee.
MoreResponses == [request |-> 2, response |-> 3]
MixedBodies == [request |-> {"none", "framed"}, response |-> {"framed", "untilEOF", "malformed"}]

MoreRequests == [request |-> 3, response |-> 2]
MalformedBodies == [d \in Dirs |-> {"none", "malformed"}]
=============================================================================
