----------------------------- MODULE LeafCache ------------------------------
(***************************************************************************)
(* The cache of minted leaves (ca.CA): connection goroutines call LeafFor, *)
(* which looks in the cache under the lock, mints outside of it, and takes *)
(* the lock again to store.  The cache is bounded, evicts the host that    *)
(* was inserted first, and replaces a leaf when it nears its expiry.       *)
(*                                                                         *)
(* Time is counted in units of the renewal margin's order (days): a call   *)
(* and the handshake it serves are over before the second tick after the   *)
(* call began.                                                             *)
(***************************************************************************)
EXTENDS Naturals, Sequences

CONSTANTS Conns,            \* the connection goroutines
          Names,            \* host names as clients write them
          Hosts,            \* normalised hosts
          NoHost,           \* what an empty name normalises to
          NormalizeHost,    \* normalizeHost: trims, strips an IPv6 zone
          NoLeaf,
          Cap,              \* CA.cap
          LeafRenewBefore,  \* leafRenewBefore
          LeafLife,         \* the validity of a minted leaf
          MaxTime,          \* bound on the clock
          MaxMints          \* bound on the leaves minted

ASSUME CapAssumption == Cap \in Nat \ {0}
ASSUME NamesAssumption == /\ NoHost \notin Hosts
                          /\ NormalizeHost \in [Names -> Hosts \cup {NoHost}]
ASSUME TimeAssumption == /\ LeafRenewBefore \in Nat \ {0}
                         /\ LeafLife \in Nat /\ LeafLife > LeafRenewBefore
                         /\ MaxTime \in Nat /\ MaxMints \in Nat

Leaf == [host : Hosts, serial : Nat, notAfter : Nat]
ASSUME NoLeafAssumption == NoLeaf \notin Leaf

VARIABLES leaves,   \* CA.leaves
          order,    \* CA.order
          now,      \* the clock
          minted,   \* the leaves minted so far, which numbers them
          call,     \* where each goroutine is in LeafFor
          host,     \* its h
          leaf,     \* its lf
          began     \* history: when its call began

cacheVars == <<leaves, order>>
callVars == <<call, host, leaf, began>>
leafVars == <<leaves, order, now, minted, call, host, leaf, began>>

LeafTypeOK ==
    /\ leaves \in [Hosts -> Leaf \cup {NoLeaf}]
    /\ order \in Seq(Hosts)
    /\ now \in Nat /\ minted \in Nat
    /\ call \in [Conns -> {"idle", "check", "mint", "store", "return"}]
    /\ host \in [Conns -> Hosts \cup {NoHost}]
    /\ leaf \in [Conns -> Leaf \cup {NoLeaf}]
    /\ began \in [Conns -> Nat]

LeafInit == /\ leaves = [h \in Hosts |-> NoLeaf]
            /\ order = << >>
            /\ now = 0 /\ minted = 0
            /\ call = [c \in Conns |-> "idle"]
            /\ host = [c \in Conns |-> NoHost]
            /\ leaf = [c \in Conns |-> NoLeaf]
            /\ began = [c \in Conns |-> 0]

\* Mutant of Fresh: the margin is forgotten.
FreshWithoutMargin(l) == l # NoLeaf /\ l.notAfter > now

\* The leaf is there, and not about to expire.
Fresh(l) == l # NoLeaf /\ l.notAfter > now + LeafRenewBefore

-----------------------------------------------------------------------------

\* LeafFor is called with name n.  An empty host is refused.
LeafFor(c, n) ==
    /\ call[c] = "idle"
    /\ host' = [host EXCEPT ![c] = NormalizeHost[n]]
    /\ leaf' = [leaf EXCEPT ![c] = NoLeaf]
    /\ began' = [began EXCEPT ![c] = now]
    /\ call' = [call EXCEPT ![c] = IF NormalizeHost[n] = NoHost THEN "return" ELSE "check"]
    /\ UNCHANGED <<cacheVars, now, minted>>

CachedFresh(c) ==
    /\ call[c] = "check"
    /\ IF Fresh(leaves[host[c]])
       THEN /\ leaf' = [leaf EXCEPT ![c] = leaves[host[c]]]
            /\ call' = [call EXCEPT ![c] = "return"]
       ELSE /\ call' = [call EXCEPT ![c] = "mint"]
            /\ UNCHANGED leaf
    /\ UNCHANGED <<cacheVars, now, minted, host, began>>

Mint(c) ==
    /\ call[c] = "mint"
    /\ \/ /\ minted < MaxMints
          /\ minted' = minted + 1
          /\ leaf' = [leaf EXCEPT ![c] = [host |-> host[c], serial |-> minted + 1,
                                          notAfter |-> now + LeafLife]]
          /\ call' = [call EXCEPT ![c] = "store"]
       \/ /\ call' = [call EXCEPT ![c] = "return"]
          /\ UNCHANGED <<minted, leaf>>
    /\ UNCHANGED <<cacheVars, now, host, began>>

\* The order after host h was inserted, and the host evicted for it, if any.
Inserted(h) == Append(IF Len(order) >= Cap THEN Tail(order) ELSE order, h)
Evicted(h) == Len(order) >= Cap /\ order[1] = h

\* Mutant of Store: a leaf another goroutine stored meanwhile is replaced.
StoreChurns(c) ==
    /\ call[c] = "store"
    /\ IF leaves[host[c]] = NoLeaf
       THEN /\ order' = Inserted(host[c])
            /\ leaves' = [h \in Hosts |-> IF h = host[c] THEN leaf[c]
                                          ELSE IF Evicted(h) THEN NoLeaf ELSE leaves[h]]
       ELSE /\ leaves' = [leaves EXCEPT ![host[c]] = leaf[c]]
            /\ UNCHANGED order
    /\ call' = [call EXCEPT ![c] = "return"]
    /\ UNCHANGED <<leaf, now, minted, host, began>>

Store(c) ==
    /\ call[c] = "store"
    /\ \/ /\ Fresh(leaves[host[c]])
          /\ leaf' = [leaf EXCEPT ![c] = leaves[host[c]]]
          /\ UNCHANGED cacheVars
       \/ /\ leaves[host[c]] # NoLeaf /\ ~Fresh(leaves[host[c]])
          /\ leaves' = [leaves EXCEPT ![host[c]] = leaf[c]]
          /\ UNCHANGED <<order, leaf>>
       \/ /\ leaves[host[c]] = NoLeaf
          /\ order' = Inserted(host[c])
          /\ leaves' = [h \in Hosts |-> IF h = host[c] THEN leaf[c]
                                        ELSE IF Evicted(h) THEN NoLeaf ELSE leaves[h]]
          /\ UNCHANGED leaf
    /\ call' = [call EXCEPT ![c] = "return"]
    /\ UNCHANGED <<now, minted, host, began>>

\* The caller is done with the result, or panics.
EndCall(c) ==
    /\ call' = [call EXCEPT ![c] = "idle"]
    /\ host' = [host EXCEPT ![c] = NoHost]
    /\ leaf' = [leaf EXCEPT ![c] = NoLeaf]
    /\ began' = [began EXCEPT ![c] = 0]
    /\ UNCHANGED <<cacheVars, now, minted>>

LeafStep(c) == CachedFresh(c) \/ Mint(c) \/ Store(c)

Tick == /\ now < MaxTime
        /\ \A c \in Conns : call[c] # "idle" => began[c] = now
        /\ now' = now + 1
        /\ UNCHANGED <<cacheVars, minted, callVars>>

\* LeafCache on its own: goroutines that call LeafFor with any name, again and
\* again, and whose caller may panic before it returns.
LeafNext == \/ \E c \in Conns : \/ \E n \in Names : LeafFor(c, n)
                                \/ LeafStep(c)
                                \/ EndCall(c)
            \/ Tick

LeafSpec == LeafInit /\ [][LeafNext]_leafVars

-----------------------------------------------------------------------------
(* Properties. *)

\* CA.order lists exactly the cached hosts, each once, and no more than cap of
\* them: otherwise an eviction removes a host that is not the oldest, or none.
OrderListsCache ==
    /\ Len(order) <= Cap
    /\ \A i, j \in 1 .. Len(order) : order[i] = order[j] => i = j
    /\ \A h \in Hosts : leaves[h] # NoLeaf <=> \E i \in 1 .. Len(order) : order[i] = h

\* A leaf LeafFor returned is one for the host that was asked for, and it does
\* not expire before the handshake that presents it is over.
ServedIsValid ==
    \A c \in Conns : call[c] = "return" /\ leaf[c] # NoLeaf =>
        leaf[c].host = host[c] /\ now < leaf[c].notAfter

\* store does not churn: a leaf that is still fresh is never replaced by another
\* one, it can only be evicted; all who mint for a host at once end with one leaf.
FreshIsKept ==
    [][\A h \in Hosts : Fresh(leaves[h]) => leaves'[h] \in {leaves[h], NoLeaf}]_<<leaves>>
=============================================================================
