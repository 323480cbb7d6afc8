------------------------------ MODULE NameCache ------------------------------
(***************************************************************************)
(* The names of destinations (internal/netname): the observer goroutine    *)
(* puts what it sees in DNS responses into a bounded map, from which the   *)
(* egress monitor's goroutine reads; one mutex covers each call.  The map  *)
(* keeps the addresses that were observed last, each with its last name.   *)
(***************************************************************************)
EXTENDS Naturals, Sequences, FiniteSets, FiniteSetsExt

CONSTANTS IPs,
          Names,      \* the names DNS responses carry
          Blank,      \* a response whose name is empty
          DnsCap      \* Cache.cap

ASSUME NameAssumption == /\ DnsCap \in Nat \ {0}
                         /\ Blank \notin Names

VARIABLES name,      \* Cache.m
          order,     \* Cache.order, the least recently written first
          observed   \* history: the address and name of every answer, oldest first

nameVars == <<name, order, observed>>

NameTypeOK == /\ DOMAIN name \subseteq IPs
              /\ \A i \in DOMAIN name : name[i] \in Names
              /\ order \in Seq(IPs)
              /\ observed \in Seq([ip : IPs, name : Names \cup {Blank}])

NameInit == name = << >> /\ order = << >> /\ observed = << >>

\* Mutant of Touched: eviction by age of the first observation.
TouchedNever(ip) == order

\* Cache.touch: the first place of the key is cut out, and the key goes to the end.
Touched(ip) == LET i == CHOOSE j \in DOMAIN order : /\ order[j] = ip
                                                     /\ \A k \in 1 .. j - 1 : order[k] # ip
               IN  SubSeq(order, 1, i - 1) \o SubSeq(order, i + 1, Len(order)) \o <<ip>>

\* The map with one entry set, over the given addresses.
Named(ip, n, domain) == [k \in domain |-> IF k = ip THEN n ELSE name[k]]

\* Observer.Run finds an answer: Cache.Put.
Put(ip, n) ==
    /\ observed' = Append(observed, [ip |-> ip, name |-> n])
    /\ \/ n = Blank /\ UNCHANGED <<name, order>>
       \/ /\ n # Blank /\ ip \in DOMAIN name
          /\ name' = Named(ip, n, DOMAIN name) /\ order' = Touched(ip)
       \/ /\ n # Blank /\ ip \notin DOMAIN name
          /\ LET old == IF Len(order) >= DnsCap THEN {order[1]} ELSE {}
             IN  /\ order' = Append(IF old = {} THEN order ELSE Tail(order), ip)
                 /\ name' = Named(ip, n, (DOMAIN name \ old) \cup {ip})

\* Cache.Lookup
Lookup(ip) == IF ip \in DOMAIN name THEN name[ip] ELSE Blank

NameNext == \E ip \in IPs, n \in Names \cup {Blank} : Put(ip, n)
NameSpec == NameInit /\ [][NameNext]_nameVars

-----------------------------------------------------------------------------
(* Properties. *)

\* When an address was last observed with a name; 0 if never.
LastSeen(ip) == Max({0} \cup {i \in DOMAIN observed : observed[i].ip = ip /\ observed[i].name # Blank})

\* "LRU-by-write, last-seen-wins": the cache holds the most recently observed
\* addresses, as many as fit, each with the name it was last observed with.
KeepsLatest ==
    LET seen == {ip \in IPs : LastSeen(ip) # 0}
    IN  /\ DOMAIN name \subseteq seen
        /\ Cardinality(DOMAIN name) = Min({DnsCap, Cardinality(seen)})
        /\ \A ip \in DOMAIN name : /\ name[ip] = observed[LastSeen(ip)].name
                                   /\ \A k \in seen \ DOMAIN name : LastSeen(k) < LastSeen(ip)
=============================================================================
