----------------------------- MODULE MCConsole -----------------------------
(* An instance of Console: two pids, of which the first has two sockets to one *)
(* address, two apps, of which one is trusted, and counterspy itself.          *)
EXTENDS Console, TLC

CONSTANTS A, B

Tcp1 == [pid |-> 1, ip |-> 1, proto |-> "tcp"]
Udp1 == [pid |-> 1, ip |-> 1, proto |-> "udp"]
Tcp2 == [pid |-> 2, ip |-> 2, proto |-> "tcp"]
MCSockets == {Tcp1, Udp1, Tcp2}
MCLsofOrder == Tcp1 :> 1 @@ Udp1 :> 2 @@ Tcp2 :> 3
MCTlsFlows == {Tcp2}
MCAppName == [a \in Pids \cup Paths |-> IF a = A THEN 4 ELSE IF a = B THEN 3 ELSE
                                          IF a = Own THEN 5 ELSE a]
MCTrustOf == [path \in Paths \cup {NoPath} |->
                 IF path = A THEN "notarized" ELSE IF path = NoPath THEN "unknown" ELSE "unsigned"]
MCCapsOf == [path \in Paths |-> IF path = A THEN {"screen"} ELSE {}]
MCNotice == [pid |-> NoPid, path |-> NoPath, app |-> NoName, notice |-> TRUE]

\* Two executables of one name, of which either may be known by it alone; another name.
MCSenders == [pid : {1}, path : {A, B, NoPath}, app : {"python"}]
             \cup [pid : {1}, path : {NoPath}, app : {"node", NoName}]
             \cup [pid : {NoPid}, path : {NoPath}, app : {NoName}] \cup {MCNotice}

\* Two apps with one process each, or one with two, of which the first may connect again.
Running(path1, path2) == [p \in Pids |-> IF p = 1 THEN path1 ELSE path2]
MCStart == {[proc |-> Running(A, B), open |-> MCSockets],
            [proc |-> Running(A, A), open |-> {Tcp1, Tcp2}]}

MCTraffic == {[of |-> "flow", way |-> "sent", data |-> "hello1"],
              [of |-> "flow", way |-> "sent", data |-> "hello2"],
              [of |-> "flow", way |-> "received", data |-> "record"],
              [of |-> "flow", way |-> "received", data |-> "text"],
              [of |-> "twin", way |-> "sent", data |-> "hello1"],
              [of |-> "twin", way |-> "received", data |-> "text"],
              [of |-> "host", way |-> "sent", data |-> "binary"],
              [of |-> "other", way |-> "received", data |-> "text"],
              [of |-> "junk", way |-> "received", data |-> "none"]}

\* Much of one or two things at a time.
Shown == [samples |-> 1, tab |-> 1]
Twice == [samples |-> 2, tab |-> 1]
MCBounds == {
    \* the machine changes; the tools fail; a named destination is sent to
    Twice @@ [traffic |-> 2, exits |-> 1],
    Twice @@ [traffic |-> 1, closes |-> 1],
    Twice @@ [traffic |-> 1, failures |-> 2],
    Twice @@ [traffic |-> 1, names |-> 1],
    \* the faces and the overlays
    [samples |-> 1, tab |-> 2, pause |-> 1, zoom |-> 1, escape |-> 1],
    \* the tree
    Shown @@ [open |-> 2, down |-> 2, close |-> 1, inspect |-> 1],
    Shown @@ [sort |-> 3, zoom |-> 1, up |-> 1],
    \* the dashboard, of which a process goes with its destination
    Twice @@ [exits |-> 1, zoom |-> 1, focus |-> 1, down |-> 1, inspect |-> 1],
    \* an inspection, another one, and what is pressed during one
    Shown @@ [zoom |-> 1, inspect |-> 1, packets |-> 3],
    Shown @@ [zoom |-> 1, inspect |-> 1, packets |-> 2, faults |-> 1],
    Shown @@ [zoom |-> 1, inspect |-> 3, packets |-> 1, faults |-> 1],
    Shown @@ [zoom |-> 1, inspect |-> 1, packets |-> 1, escape |-> 1, quit |-> 1],
    \* captured messages; names
    [messages |-> 4, quit |-> 1],
    [names |-> 4]}
=============================================================================
