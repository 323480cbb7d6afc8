------------------------------ MODULE MCFanout ------------------------------
(* Instances of Fanout: two consoles with channels of one message on a live    *)
(* stream, a log of three files for two or three messages each, or both.       *)
EXTENDS Fanout, TLC

CONSTANTS r1, r2

MCLaunches == {[outputs |-> {"stream"}, msgs |-> 3, waiting |-> 0],
               [outputs |-> {"log"}, msgs |-> 7, waiting |-> 1],
               [outputs |-> {"log"}, msgs |-> 4, waiting |-> 2],
               [outputs |-> {"stream", "log"}, msgs |-> 1, waiting |-> 1]}
=============================================================================
