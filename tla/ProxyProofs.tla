---------------------------- MODULE ProxyProofs -----------------------------
(***************************************************************************)
(* Proofs about the proxy.  The leaf cache is proved on its own; that      *)
(* every step of a tunnel is a step of the cache or leaves it alone        *)
(* carries the results over to Tunnel, and from there to the proxy, whose  *)
(* steps are steps of Tunnel or leave the connections alone; and whoever   *)
(* a connection is attributed to held its port not long ago.               *)
(***************************************************************************)
EXTENDS Integers, Proxy, TLAPS

-----------------------------------------------------------------------------
(* The inductive invariant of the cache. *)

\* What a goroutine in a call holds: before the mint nothing, after it a leaf of
\* the host it asked for that outlives the time the call may take.
CallOK(c) ==
    /\ call[c] \in {"check", "mint", "store"} => host[c] \in Hosts
    /\ call[c] \in {"check", "mint"} => leaf[c] = NoLeaf
    /\ call[c] = "store" => leaf[c] # NoLeaf
    /\ call[c] # "idle" => began[c] <= now /\ now <= began[c] + 1
    /\ call[c] # "idle" /\ leaf[c] # NoLeaf =>
          leaf[c].host = host[c] /\ leaf[c].notAfter > began[c] + 1

CallsOK == \A c \in Conns : CallOK(c)

KeyedByHost == \A h \in Hosts : leaves[h] # NoLeaf => leaves[h].host = h

LeafInv == LeafTypeOK /\ OrderListsCache /\ KeyedByHost /\ CallsOK

-----------------------------------------------------------------------------

\* LeafInv holds of an empty cache.
LEMMA LeafInitInv == LeafInit => LeafInv
  BY CapAssumption, SMTT(30)
     DEF LeafInit, LeafInv, LeafTypeOK, OrderListsCache, KeyedByHost, CallsOK, CallOK

\* A minted leaf outlives the call it is minted in.
LEMMA MintedOutlives ==
  ASSUME NEW t \in Nat, NEW n \in Nat, t <= n
  PROVE  n + LeafLife > t + 1 /\ n + LeafLife \in Nat
  BY TimeAssumption

\* So does a leaf that is fresh when it is looked up.
LEMMA FreshOutlives ==
  ASSUME NEW l \in Leaf, now \in Nat, NEW t \in Nat, t <= now, Fresh(l)
  PROVE  l.notAfter > t + 1
  BY TimeAssumption DEF Fresh, Leaf

-----------------------------------------------------------------------------
(* The steps of a call, one by one: types. *)

\* LeafFor keeps the types.
LEMMA LeafForType ==
  ASSUME LeafTypeOK, NEW c \in Conns, NEW n \in Names, LeafFor(c, n) PROVE LeafTypeOK'
  BY NamesAssumption DEF LeafTypeOK, LeafFor, cacheVars

\* cachedFresh keeps the types.
LEMMA CachedFreshType ==
  ASSUME LeafTypeOK, CallsOK, NEW c \in Conns, CachedFresh(c) PROVE LeafTypeOK'
  BY DEF LeafTypeOK, CachedFresh, cacheVars, CallsOK, CallOK

\* mint keeps the types.
LEMMA MintType ==
  ASSUME LeafTypeOK, CallsOK, NEW c \in Conns, Mint(c) PROVE LeafTypeOK'
  <1>1. host[c] \in Hosts /\ now + LeafLife \in Nat /\ minted + 1 \in Nat
    BY TimeAssumption DEF LeafTypeOK, CallsOK, CallOK, Mint
  <1>2. [host |-> host[c], serial |-> minted + 1, notAfter |-> now + LeafLife] \in Leaf
    BY <1>1 DEF Leaf
  <1> QED
    BY <1>1, <1>2 DEF LeafTypeOK, Mint, cacheVars

\* The end of a call keeps the types.
LEMMA EndCallType ==
  ASSUME LeafTypeOK, NEW c \in Conns, EndCall(c) PROVE LeafTypeOK'
  BY DEF LeafTypeOK, EndCall, cacheVars

\* The passing of time keeps the types.
LEMMA TickType ==
  ASSUME LeafTypeOK, Tick PROVE LeafTypeOK'
  BY DEF LeafTypeOK, Tick, cacheVars, callVars

-----------------------------------------------------------------------------
(* Store. *)

\* Inserting a host that is not listed lists it, and drops the first host of a
\* full order.
LEMMA InsertedLists ==
  ASSUME order \in Seq(Hosts), NEW h \in Hosts, OrderListsCache, leaves[h] = NoLeaf
  PROVE  /\ Inserted(h) \in Seq(Hosts)
         /\ Len(Inserted(h)) <= Cap
         /\ \A i, j \in 1 .. Len(Inserted(h)) : Inserted(h)[i] = Inserted(h)[j] => i = j
         /\ \A g \in Hosts : (\E i \in 1 .. Len(Inserted(h)) : Inserted(h)[i] = g)
                                <=> (g = h \/ (leaves[g] # NoLeaf /\ ~Evicted(g)))
  <1>1. \A i \in 1 .. Len(order) : order[i] \in Hosts /\ order[i] # h
    BY DEF OrderListsCache
  <1>2. CASE Len(order) >= Cap
    <2>1. Len(order) = Cap /\ Len(order) \in Nat /\ order # << >> /\ Cap \in Nat /\ Cap >= 1
      BY <1>2, CapAssumption DEF OrderListsCache
    <2> DEFINE t == Tail(order)
    <2>2. t \in Seq(Hosts) /\ Len(t) = Cap - 1 /\ \A i \in 1 .. Cap - 1 : t[i] = order[i + 1]
      BY <2>1
    <2>3. Inserted(h) = Append(t, h)
      BY <1>2 DEF Inserted
    <2> HIDE DEF t
    <2>4. /\ Inserted(h) \in Seq(Hosts) /\ Len(Inserted(h)) = Cap
          /\ \A i \in 1 .. Cap - 1 : Inserted(h)[i] = order[i + 1]
          /\ Inserted(h)[Cap] = h
      BY <2>1, <2>2, <2>3
    <2>5. \A i, j \in 1 .. Cap : Inserted(h)[i] = Inserted(h)[j] => i = j
      <3> SUFFICES ASSUME NEW i \in 1 .. Cap, NEW j \in 1 .. Cap, Inserted(h)[i] = Inserted(h)[j]
                   PROVE  i = j
        OBVIOUS
      <3>1. CASE i = Cap \/ j = Cap
        BY <1>1, <2>1, <2>4, <3>1
      <3>2. CASE i # Cap /\ j # Cap
        <4>1. i \in 1 .. Cap - 1 /\ j \in 1 .. Cap - 1
          BY <2>1, <3>2
        <4>2. order[i + 1] = order[j + 1] /\ i + 1 \in 1 .. Len(order) /\ j + 1 \in 1 .. Len(order)
          BY <2>1, <2>4, <4>1
        <4> QED
          BY <4>1, <4>2 DEF OrderListsCache
      <3> QED
        BY <3>1, <3>2
    <2>6. ASSUME NEW g \in Hosts
          PROVE  (\E i \in 1 .. Cap : Inserted(h)[i] = g)
                    <=> (g = h \/ (leaves[g] # NoLeaf /\ ~Evicted(g)))
      <3>1. leaves[g] # NoLeaf <=> \E k \in 1 .. Cap : order[k] = g
        BY <2>1 DEF OrderListsCache
      <3>2. Evicted(g) <=> order[1] = g
        BY <1>2 DEF Evicted
      <3>3. (\E i \in 1 .. Cap : Inserted(h)[i] = g)
               <=> (g = h \/ \E i \in 1 .. Cap - 1 : order[i + 1] = g)
        <4>1. ASSUME NEW i \in 1 .. Cap, Inserted(h)[i] = g
              PROVE  g = h \/ \E k \in 1 .. Cap - 1 : order[k + 1] = g
          <5>1. i = Cap \/ i \in 1 .. Cap - 1
            BY <2>1
          <5> QED
            BY <2>4, <4>1, <5>1
        <4>2. ASSUME NEW k \in 1 .. Cap - 1, order[k + 1] = g
              PROVE  \E i \in 1 .. Cap : Inserted(h)[i] = g
          <5>1. k \in 1 .. Cap
            BY <2>1
          <5> QED
            BY <2>4, <4>2, <5>1
        <4>3. Cap \in 1 .. Cap
          BY <2>1
        <4> QED
          BY <2>4, <4>1, <4>2, <4>3
      <3>4. (\E i \in 1 .. Cap - 1 : order[i + 1] = g)
               <=> ((\E k \in 1 .. Cap : order[k] = g) /\ order[1] # g)
        <4>1. ASSUME NEW i \in 1 .. Cap - 1, order[i + 1] = g
              PROVE  (\E k \in 1 .. Cap : order[k] = g) /\ order[1] # g
          <5>1. i + 1 \in 1 .. Len(order) /\ 1 \in 1 .. Len(order) /\ i + 1 # 1
            BY <2>1, <4>1
          <5>2. order[1] # order[i + 1]
            BY <5>1 DEF OrderListsCache
          <5> QED
            BY <2>1, <4>1, <5>1, <5>2
        <4>2. ASSUME NEW k \in 1 .. Cap, order[k] = g, order[1] # g
              PROVE  \E i \in 1 .. Cap - 1 : order[i + 1] = g
          <5>1. k - 1 \in 1 .. Cap - 1 /\ (k - 1) + 1 = k
            BY <2>1, <4>2
          <5> QED
            BY <4>2, <5>1
        <4> QED
          BY <4>1, <4>2
      <3> QED
        BY <3>1, <3>2, <3>3, <3>4
    <2> QED
      BY <2>1, <2>4, <2>5, <2>6
  <1>3. CASE ~(Len(order) >= Cap)
    <2>1. Inserted(h) = Append(order, h) /\ Len(order) \in Nat /\ Cap \in Nat /\ Len(order) < Cap
      BY <1>3, CapAssumption DEF Inserted
    <2>2. /\ Inserted(h) \in Seq(Hosts) /\ Len(Inserted(h)) = Len(order) + 1
          /\ \A i \in 1 .. Len(order) : Inserted(h)[i] = order[i]
          /\ Inserted(h)[Len(order) + 1] = h
      BY <2>1
    <2>3. \A i, j \in 1 .. Len(order) + 1 : Inserted(h)[i] = Inserted(h)[j] => i = j
      BY <1>1, <2>1, <2>2 DEF OrderListsCache
    <2>4. ASSUME NEW g \in Hosts
          PROVE  (\E i \in 1 .. Len(order) + 1 : Inserted(h)[i] = g)
                    <=> (g = h \/ (leaves[g] # NoLeaf /\ ~Evicted(g)))
      <3>1. ~Evicted(g)
        BY <1>3 DEF Evicted
      <3>2. (\E i \in 1 .. Len(order) + 1 : Inserted(h)[i] = g)
               <=> (g = h \/ \E i \in 1 .. Len(order) : order[i] = g)
        BY <2>1, <2>2
      <3> QED
        BY <3>1, <3>2 DEF OrderListsCache
    <2> QED
      BY <2>1, <2>2, <2>3, <2>4
  <1> QED
    BY <1>2, <1>3

\* store keeps the cache and its order in step, and files a leaf under its host.
LEMMA StoreInv ==
  ASSUME LeafInv, NEW c \in Conns, Store(c) PROVE LeafInv'
  <1> DEFINE h == host[c]
             fresh == /\ Fresh(leaves[h])
                      /\ leaf' = [leaf EXCEPT ![c] = leaves[h]]
                      /\ UNCHANGED cacheVars
             renew == /\ leaves[h] # NoLeaf
                      /\ leaves' = [leaves EXCEPT ![h] = leaf[c]]
                      /\ UNCHANGED <<order, leaf>>
             insert == /\ leaves[h] = NoLeaf
                       /\ order' = Inserted(h)
                       /\ leaves' = [g \in Hosts |-> IF g = h THEN leaf[c]
                                                     ELSE IF Evicted(g) THEN NoLeaf ELSE leaves[g]]
                       /\ UNCHANGED leaf
  <1>1. /\ h \in Hosts /\ leaf[c] \in Leaf /\ leaf[c] # NoLeaf /\ leaf[c].host = h
        /\ leaf[c].notAfter > began[c] + 1
        /\ began[c] \in Nat /\ now \in Nat /\ began[c] <= now
        /\ leaves[h] \in Leaf \cup {NoLeaf}
        /\ leaves \in [Hosts -> Leaf \cup {NoLeaf}] /\ order \in Seq(Hosts)
    BY NoLeafAssumption DEF LeafInv, LeafTypeOK, CallsOK, CallOK, Store
  <1>2. /\ call' = [call EXCEPT ![c] = "return"]
        /\ UNCHANGED <<now, minted, host, began>>
        /\ fresh \/ renew \/ insert
    BY DEF Store
  <1>3. CASE fresh
    <2>1. leaves[h] \in Leaf /\ leaves[h] # NoLeaf /\ leaves[h].host = h
      BY <1>1, <1>3 DEF Fresh, LeafInv, KeyedByHost
    <2>2. leaves[h].notAfter > began[c] + 1
      BY <1>1, <1>3, <2>1, FreshOutlives
    <2>3. LeafTypeOK'
      BY <1>1, <1>2, <1>3, <2>1 DEF LeafInv, LeafTypeOK, cacheVars
    <2>4. CallsOK'
      <3> SUFFICES ASSUME NEW d \in Conns PROVE CallOK(d)'
        BY DEF CallsOK
      <3>1. CASE d = c
        <4>1. leaf'[d] = leaves[h] /\ call'[d] = "return" /\ host'[d] = h
              /\ began'[d] = began[c] /\ now' = now
          BY <1>2, <1>3, <3>1 DEF LeafInv, LeafTypeOK
        <4>2. began[c] <= now /\ now <= began[c] + 1
          BY <1>1 DEF LeafInv, CallsOK, CallOK, Store
        <4> QED
          BY <2>1, <2>2, <4>1, <4>2 DEF CallOK
      <3>2. CASE d # c
        <4>1. leaf'[d] = leaf[d] /\ call'[d] = call[d] /\ host'[d] = host[d]
              /\ began'[d] = began[d] /\ now' = now
          BY <1>2, <1>3, <3>2 DEF LeafInv, LeafTypeOK
        <4>2. CallOK(d)
          BY DEF LeafInv, CallsOK
        <4> QED
          BY <4>1, <4>2 DEF CallOK
      <3> QED
        BY <3>1, <3>2
    <2>5. OrderListsCache' /\ KeyedByHost'
      BY <1>3 DEF LeafInv, OrderListsCache, KeyedByHost, cacheVars
    <2> QED
      BY <2>3, <2>4, <2>5 DEF LeafInv
  <1>4. CASE ~fresh
    <2>1. renew \/ insert
      BY <1>2, <1>4
    <2> HIDE DEF fresh
    <2>2. leaf' = leaf
      BY <2>1
    <2>3. CallsOK'
      <3> SUFFICES ASSUME NEW d \in Conns PROVE CallOK(d)'
        BY DEF CallsOK
      <3>1. CallOK(d) /\ CallOK(c)
        BY DEF LeafInv, CallsOK
      <3>2. leaf'[d] = leaf[d] /\ host'[d] = host[d] /\ began'[d] = began[d] /\ now' = now
        BY <1>2, <2>2
      <3>3. IF d = c THEN call'[d] = "return" ELSE call'[d] = call[d]
        BY <1>2 DEF LeafInv, LeafTypeOK
      <3>4. call[c] = "store"
        BY DEF Store
      <3> QED
        BY <3>1, <3>2, <3>3, <3>4 DEF CallOK
    <2>4. LeafTypeOK' /\ OrderListsCache' /\ KeyedByHost'
      <3>1. CASE renew
        <4>1. leaves' \in [Hosts -> Leaf \cup {NoLeaf}]
          BY <1>1, <3>1
        <4>2. LeafTypeOK'
          BY <1>2, <2>2, <3>1, <4>1 DEF LeafInv, LeafTypeOK
        <4>3. \A g \in Hosts : leaves'[g] # NoLeaf <=> leaves[g] # NoLeaf
          BY <1>1, <3>1
        <4>4. OrderListsCache'
          BY <3>1, <4>3 DEF LeafInv, OrderListsCache
        <4>5. KeyedByHost'
          BY <1>1, <3>1 DEF LeafInv, KeyedByHost
        <4> QED
          BY <4>2, <4>4, <4>5
      <3>2. CASE insert
        <4>0. OrderListsCache
          BY DEF LeafInv
        <4>1. /\ Inserted(h) \in Seq(Hosts)
              /\ Len(Inserted(h)) <= Cap
              /\ \A i, j \in 1 .. Len(Inserted(h)) : Inserted(h)[i] = Inserted(h)[j] => i = j
              /\ \A g \in Hosts : (\E i \in 1 .. Len(Inserted(h)) : Inserted(h)[i] = g)
                                     <=> (g = h \/ (leaves[g] # NoLeaf /\ ~Evicted(g)))
          BY <1>1, <3>2, <4>0, InsertedLists
        <4>2. \A g \in Hosts : leaves'[g] # NoLeaf <=> (g = h \/ (leaves[g] # NoLeaf /\ ~Evicted(g)))
          BY <1>1, <3>2
        <4>3. leaves' \in [Hosts -> Leaf \cup {NoLeaf}]
          BY <1>1, <3>2
        <4>4. LeafTypeOK'
          BY <1>2, <2>2, <3>2, <4>1, <4>3 DEF LeafInv, LeafTypeOK
        <4>5. OrderListsCache'
          BY <3>2, <4>1, <4>2 DEF OrderListsCache
        <4>6. KeyedByHost'
          BY <1>1, <3>2 DEF LeafInv, KeyedByHost
        <4> QED
          BY <4>4, <4>5, <4>6
      <3> QED
        BY <2>1, <3>1, <3>2
    <2> QED
      BY <2>3, <2>4 DEF LeafInv
  <1> QED
    BY <1>3, <1>4

-----------------------------------------------------------------------------
(* The other steps. *)

\* A step that leaves the cache alone keeps what is said of the cache alone.
LEMMA CacheUnchanged ==
  ASSUME OrderListsCache, KeyedByHost, UNCHANGED cacheVars
  PROVE  OrderListsCache' /\ KeyedByHost'
  BY DEF OrderListsCache, KeyedByHost, cacheVars

\* LeafFor, which hands out a fresh leaf or goes on to mint, keeps LeafInv.
LEMMA LeafForInv ==
  ASSUME LeafInv, NEW c \in Conns, NEW n \in Names, LeafFor(c, n) PROVE LeafInv'
  <1>1. LeafTypeOK'
    BY LeafForType DEF LeafInv
  <1>2. OrderListsCache' /\ KeyedByHost'
    BY CacheUnchanged DEF LeafInv, LeafFor
  <1>3. CallsOK'
    <2> SUFFICES ASSUME NEW d \in Conns PROVE CallOK(d)'
      BY DEF CallsOK
    <2>1. CASE d = c
      BY <2>1, NamesAssumption DEF LeafInv, LeafTypeOK, LeafFor, CallOK
    <2>2. CASE d # c
      BY <2>2 DEF LeafInv, LeafTypeOK, LeafFor, CallsOK, CallOK
    <2> QED
      BY <2>1, <2>2
  <1> QED
    BY <1>1, <1>2, <1>3 DEF LeafInv

\* cachedFresh hands out only what is fresh under the lock.
LEMMA CachedFreshInv ==
  ASSUME LeafInv, NEW c \in Conns, CachedFresh(c) PROVE LeafInv'
  <1> DEFINE h == host[c]
  <1>1. LeafTypeOK'
    BY CachedFreshType DEF LeafInv
  <1>2. OrderListsCache' /\ KeyedByHost'
    BY CacheUnchanged DEF LeafInv, CachedFresh
  <1>3. CallsOK'
    <2> SUFFICES ASSUME NEW d \in Conns PROVE CallOK(d)'
      BY DEF CallsOK
    <2>1. CallOK(d) /\ CallOK(c)
      BY DEF LeafInv, CallsOK
    <2>2. CASE d = c
      <3>1. host'[d] = h /\ began'[d] = began[c] /\ now' = now
            /\ h \in Hosts /\ began[c] \in Nat /\ now \in Nat /\ began[c] <= now
            /\ now <= began[c] + 1 /\ leaf[c] = NoLeaf
        BY <2>1, <2>2 DEF LeafInv, LeafTypeOK, CachedFresh, CallOK
      <3>2. CASE Fresh(leaves[h])
        <4>1. leaf'[d] = leaves[h] /\ call'[d] = "return"
          BY <2>2, <3>2 DEF LeafInv, LeafTypeOK, CachedFresh
        <4>2. leaves[h] \in Leaf /\ leaves[h].host = h
          BY <3>1, <3>2 DEF LeafInv, LeafTypeOK, Fresh, KeyedByHost
        <4>3. leaves[h].notAfter > began[c] + 1
          BY <3>1, <3>2, <4>2, FreshOutlives
        <4> QED
          BY <3>1, <4>1, <4>2, <4>3 DEF CallOK
      <3>3. CASE ~Fresh(leaves[h])
        <4>1. leaf'[d] = NoLeaf /\ call'[d] = "mint"
          BY <2>2, <3>1, <3>3 DEF LeafInv, LeafTypeOK, CachedFresh
        <4> QED
          BY <3>1, <4>1 DEF CallOK
      <3> QED
        BY <3>2, <3>3
    <2>3. CASE d # c
      <3>1. leaf'[d] = leaf[d] /\ call'[d] = call[d] /\ host'[d] = host[d]
            /\ began'[d] = began[d] /\ now' = now
        BY <2>3 DEF LeafInv, LeafTypeOK, CachedFresh
      <3> QED
        BY <2>1, <3>1 DEF CallOK
    <2> QED
      BY <2>2, <2>3
  <1> QED
    BY <1>1, <1>2, <1>3 DEF LeafInv

\* mint makes a leaf of its host that outlives the call.
LEMMA MintInv ==
  ASSUME LeafInv, NEW c \in Conns, Mint(c) PROVE LeafInv'
  <1> DEFINE h == host[c]
             lf == [host |-> h, serial |-> minted + 1, notAfter |-> now + LeafLife]
  <1>1. LeafTypeOK'
    BY MintType DEF LeafInv
  <1>2. OrderListsCache' /\ KeyedByHost'
    BY CacheUnchanged DEF LeafInv, Mint
  <1>3. CallsOK'
    <2> SUFFICES ASSUME NEW d \in Conns PROVE CallOK(d)'
      BY DEF CallsOK
    <2>1. CallOK(d) /\ CallOK(c)
      BY DEF LeafInv, CallsOK
    <2>2. CASE d = c
      <3>1. host'[d] = h /\ began'[d] = began[c] /\ now' = now
            /\ h \in Hosts /\ began[c] \in Nat /\ now \in Nat /\ began[c] <= now
            /\ now <= began[c] + 1 /\ leaf[c] = NoLeaf /\ minted \in Nat
        BY <2>1, <2>2 DEF LeafInv, LeafTypeOK, Mint, CallOK
      <3>2. now + LeafLife > began[c] + 1 /\ now + LeafLife \in Nat
        BY <3>1, MintedOutlives
      <3>3. lf \in Leaf /\ lf # NoLeaf /\ lf.host = h /\ lf.notAfter = now + LeafLife
        BY <3>1, <3>2, NoLeafAssumption DEF Leaf
      <3>4. (leaf'[d] = lf /\ call'[d] = "store") \/ (leaf'[d] = NoLeaf /\ call'[d] = "return")
        BY <2>2, <3>1 DEF LeafInv, LeafTypeOK, Mint
      <3> HIDE DEF lf
      <3> QED
        BY <3>1, <3>2, <3>3, <3>4 DEF CallOK
    <2>3. CASE d # c
      <3>1. leaf'[d] = leaf[d] /\ call'[d] = call[d] /\ host'[d] = host[d]
            /\ began'[d] = began[d] /\ now' = now
        BY <2>3 DEF LeafInv, LeafTypeOK, Mint
      <3> QED
        BY <2>1, <3>1 DEF CallOK
    <2> QED
      BY <2>2, <2>3
  <1> QED
    BY <1>1, <1>2, <1>3 DEF LeafInv

\* The end of a call keeps LeafInv.
LEMMA EndCallInv ==
  ASSUME LeafInv, NEW c \in Conns, EndCall(c) PROVE LeafInv'
  <1>1. LeafTypeOK'
    BY EndCallType DEF LeafInv
  <1>2. OrderListsCache' /\ KeyedByHost'
    BY CacheUnchanged DEF LeafInv, EndCall
  <1>3. CallsOK'
    BY DEF LeafInv, LeafTypeOK, EndCall, CallsOK, CallOK
  <1> QED
    BY <1>1, <1>2, <1>3 DEF LeafInv

\* A call sees at most one tick: a leaf that is handed out outlives it.
LEMMA TickInv ==
  ASSUME LeafInv, Tick PROVE LeafInv'
  <1>1. LeafTypeOK'
    BY TickType DEF LeafInv
  <1>2. OrderListsCache' /\ KeyedByHost'
    BY CacheUnchanged DEF LeafInv, Tick
  <1>3. CallsOK'
    BY DEF LeafInv, LeafTypeOK, Tick, callVars, CallsOK, CallOK
  <1> QED
    BY <1>1, <1>2, <1>3 DEF LeafInv

\* Every step of the cache keeps LeafInv.
LEMMA LeafNextInv == LeafInv /\ [LeafNext]_leafVars => LeafInv'
  <1> SUFFICES ASSUME LeafInv, [LeafNext]_leafVars PROVE LeafInv'
    OBVIOUS
  <1>1. ASSUME NEW c \in Conns, NEW n \in Names, LeafFor(c, n) PROVE LeafInv'
    BY <1>1, LeafForInv
  <1>2. ASSUME NEW c \in Conns, LeafStep(c) PROVE LeafInv'
    BY <1>2, CachedFreshInv, MintInv, StoreInv DEF LeafStep
  <1>3. ASSUME NEW c \in Conns, EndCall(c) PROVE LeafInv'
    BY <1>3, EndCallInv
  <1>4. CASE Tick
    BY <1>4, TickInv
  <1>5. CASE UNCHANGED leafVars
    BY <1>5 DEF leafVars, LeafInv, LeafTypeOK, OrderListsCache, KeyedByHost, CallsOK, CallOK
  <1> QED
    BY <1>1, <1>2, <1>3, <1>4, <1>5 DEF LeafNext

-----------------------------------------------------------------------------
(* What the invariant gives. *)

\* LeafInv says of every call in progress what ServedIsValid says of what was served.
LEMMA InvServes == LeafInv => ServedIsValid
  BY TimeAssumption DEF LeafInv, LeafTypeOK, CallsOK, CallOK, ServedIsValid, Leaf

\* store looks at the cached leaf again under the lock, and replaces only one
\* that is not fresh.
LEMMA StepKeepsFresh ==
  ASSUME LeafInv, [LeafNext]_leafVars, NEW h \in Hosts, Fresh(leaves[h])
  PROVE  leaves'[h] \in {leaves[h], NoLeaf}
  <1>1. ASSUME NEW c \in Conns, Store(c) PROVE leaves'[h] \in {leaves[h], NoLeaf}
    BY <1>1 DEF Store, LeafInv, LeafTypeOK, cacheVars, Fresh
  <1>2. ASSUME UNCHANGED leaves PROVE leaves'[h] \in {leaves[h], NoLeaf}
    BY <1>2
  <1> QED
    BY <1>1, <1>2 DEF LeafNext, LeafStep, LeafFor, CachedFresh, Mint, EndCall, Tick,
                      cacheVars, leafVars

-----------------------------------------------------------------------------
(* The tunnels. *)

TunnelTypeOK ==
    /\ handler \in [Conns -> Handler]
    /\ target \in [Conns -> Names \cup {NoName}]
    /\ connID \in [Conns -> Nat]
    /\ connSeq \in Nat
    /\ client \in [Conns -> Socket]
    /\ upstream \in [Conns -> Socket]
    /\ told \in [Conns -> Seq(Status)]
    /\ pinned \in [Conns -> Leaf \cup {NoLeaf}]
    /\ excuse \in [Conns -> {"none", "relayed", "gone", "panic"}]

\* What has been told of a connection, and what it holds, wherever it is.
Story(c) ==
    /\ handler[c] \in {"idle", "identify", "connect", "establish", "peek", "record",
                       "hello", "handshake", "dial"} => told[c] = << >>
    /\ handler[c] \in {"bypassDial", "bypass"} => Len(told[c]) = 1
    /\ Len(told[c]) <= 1
    /\ handler[c] = "done" /\ excuse[c] = "none" => Len(told[c]) = 1
    /\ handler[c] \in {"hello", "record", "peek", "establish"} => target[c] \in Names
    /\ handler[c] \notin {"bypass", "relay"} => upstream[c] # "open"
    /\ handler[c] = "done" => client[c] = "closed"
    /\ told[c] = <<"pinned">> => pinned[c] # NoLeaf
    /\ handler[c] \in {"idle", "identify"} => connID[c] = 0
    /\ connID[c] <= connSeq

Stories == \A c \in Conns : Story(c)

Numbered == \A c, d \in Conns : connID[c] = connID[d] /\ connID[c] # 0 => c = d

TunnelInv == TunnelTypeOK /\ Stories /\ Numbered

\* TunnelInv holds before the first connection.
LEMMA TunnelInitInv == Init => TunnelInv
  BY DEF Init, TunnelInv, TunnelTypeOK, Stories, Story, Numbered, Handler, Socket

\* Telling adds one event to a connection's own.
LEMMA TellOnce ==
  ASSUME TunnelTypeOK, NEW c \in Conns, NEW s \in Status, Tell(c, s)
  PROVE  /\ told' \in [Conns -> Seq(Status)]
         /\ told'[c] = Append(told[c], s)
         /\ Len(told'[c]) = Len(told[c]) + 1
         /\ told[c] = << >> => told'[c] = <<s>> /\ Len(told'[c]) = 1
  <1>1. /\ told[c] \in Seq(Status) /\ Append(told[c], s) \in Seq(Status)
        /\ Len(Append(told[c], s)) = Len(told[c]) + 1
    BY DEF TunnelTypeOK
  <1>2. told'[c] = Append(told[c], s) /\ told' \in [Conns -> Seq(Status)]
    BY <1>1 DEF Tell, TunnelTypeOK
  <1>3. Append(<< >>, s) = <<s>> /\ Len(<<s>>) = 1
    OBVIOUS
  <1> QED
    BY <1>1, <1>2, <1>3

\* Every step of the handler of c keeps the types, ...
LEMMA HandlerTypes ==
  ASSUME LeafTypeOK, TunnelTypeOK, NEW c \in Conns,
         Accept(c) \/ NextConnID(c) \/ ReadConnect(c) \/ Establish(c) \/ Peek(c)
         \/ PeekRecord(c) \/ BypassDial(c) \/ BypassDone(c) \/ NoHello(c) \/ Hello(c)
         \/ Handshake(c) \/ Dial(c) \/ RelayOpaque(c) \/ RelayDone(c) \/ Panic(c)
  PROVE  TunnelTypeOK'
  <1>1. CASE Accept(c)
    BY <1>1 DEF Accept, TunnelTypeOK, At, Goto, Tell, CloseClient, Excuse, Handler, Socket, Status
  <1>2. CASE NextConnID(c)
    BY <1>2 DEF NextConnID, TunnelTypeOK, At, Goto, Tell, CloseClient, Excuse, Handler, Socket, Status
  <1>3. CASE ReadConnect(c)
    <2>1. Tell(c, "error") \/ UNCHANGED told
      BY <1>3 DEF ReadConnect
    <2>2. told' \in [Conns -> Seq(Status)]
      BY <2>1, TellOnce DEF Status, TunnelTypeOK
    <2>3. target' \in [Conns -> Names \cup {NoName}]
      BY <1>3 DEF ReadConnect, TunnelTypeOK
    <2> QED
      BY <1>3, <2>2, <2>3 DEF ReadConnect, TunnelTypeOK, At, Goto, CloseClient, Handler, Socket
  <1>4. CASE Establish(c)
    BY <1>4 DEF Establish, TunnelTypeOK, At, Goto, Tell, CloseClient, Excuse, Handler, Socket, Status
  <1>5. CASE PeekRecord(c)
    <2>1. Tell(c, "opaque") \/ UNCHANGED told
      BY <1>5 DEF PeekRecord
    <2>2. told' \in [Conns -> Seq(Status)]
      BY <2>1, TellOnce DEF Status, TunnelTypeOK
    <2> QED
      BY <1>5, <2>2 DEF PeekRecord, TunnelTypeOK, At, Goto, CloseClient, Excuse, Handler, Socket
  <1>6. CASE BypassDial(c)
    BY <1>6 DEF BypassDial, TunnelTypeOK, At, Goto, Tell, CloseClient, Excuse, Handler, Socket, Status
  <1>7. CASE BypassDone(c)
    BY <1>7 DEF BypassDone, TunnelTypeOK, At, Goto, Tell, CloseClient, Excuse, Handler, Socket, Status
  <1>8. CASE NoHello(c)
    <2>1. Tell(c, "opaque")
      BY <1>8 DEF NoHello
    <2>2. told' \in [Conns -> Seq(Status)]
      BY <2>1, TellOnce DEF Status, TunnelTypeOK
    <2> QED
      BY <1>8, <2>2 DEF NoHello, TunnelTypeOK, At, Goto, CloseClient, Excuse, Handler, Socket
  <1>9. CASE Hello(c)
    BY <1>9 DEF Hello, TunnelTypeOK, At, Goto, Tell, CloseClient, Excuse, Handler, Socket, Status
  <1>10. CASE Handshake(c)
    <2>1. Tell(c, "error") \/ Tell(c, "pinned") \/ UNCHANGED told
      BY <1>10 DEF Handshake, Refused
    <2>2. told' \in [Conns -> Seq(Status)]
      BY <2>1, TellOnce DEF Status, TunnelTypeOK
    <2>3. handler' \in [Conns -> Handler]
      <3>1. Goto(c, "dial") \/ Goto(c, "done")
        BY <1>10 DEF Handshake
      <3> QED
        BY <3>1 DEF Goto, TunnelTypeOK, Handler
    <2>4. client' \in [Conns -> Socket]
      <3>1. CloseClient(c) \/ UNCHANGED client
        BY <1>10 DEF Handshake
      <3> QED
        BY <3>1 DEF CloseClient, TunnelTypeOK, Socket
    <2>5. pinned' \in [Conns -> Leaf \cup {NoLeaf}]
      <3>1. pinned' = [pinned EXCEPT ![c] = leaf[c]] \/ UNCHANGED pinned
        BY <1>10 DEF Handshake, Refused
      <3>2. leaf[c] \in Leaf \cup {NoLeaf}
        BY DEF LeafTypeOK
      <3> QED
        BY <3>1, <3>2 DEF TunnelTypeOK
    <2>6. UNCHANGED <<target, connID, connSeq, upstream, excuse>>
      BY <1>10 DEF Handshake
    <2> QED
      BY <2>2, <2>3, <2>4, <2>5, <2>6 DEF TunnelTypeOK
  <1>11. CASE Dial(c)
    <2>1. Tell(c, "error") \/ UNCHANGED told
      BY <1>11 DEF Dial
    <2>2. told' \in [Conns -> Seq(Status)]
      BY <2>1, TellOnce DEF Status, TunnelTypeOK
    <2> QED
      BY <1>11, <2>2 DEF Dial, TunnelTypeOK, At, Goto, CloseClient, Excuse, Handler, Socket
  <1>12. CASE RelayOpaque(c)
    <2>1. Tell(c, "opaque")
      BY <1>12 DEF RelayOpaque
    <2>2. told' \in [Conns -> Seq(Status)]
      BY <2>1, TellOnce DEF Status, TunnelTypeOK
    <2> QED
      BY <1>12, <2>2 DEF RelayOpaque, TunnelTypeOK, At, Goto, CloseClient, Excuse, Handler, Socket
  <1>13. CASE RelayDone(c)
    BY <1>13 DEF RelayDone, TunnelTypeOK, At, Goto, Tell, CloseClient, Excuse, Handler, Socket, Status
  <1>14. CASE Panic(c)
    BY <1>14 DEF Panic, TunnelTypeOK, At, Goto, Tell, CloseClient, Excuse, Handler, Socket, Status
  <1>15. CASE Peek(c)
    BY <1>15 DEF Peek, TunnelTypeOK, At, Goto, Handler
  <1> QED
    BY <1>1, <1>2, <1>3, <1>4, <1>5, <1>6, <1>7, <1>8, <1>9, <1>10, <1>11, <1>12, <1>13, <1>14,
       <1>15

\* ... and tells the story of c on.
LEMMA HandlerStory ==
  ASSUME LeafTypeOK, TunnelTypeOK, NEW c \in Conns, Story(c),
         Accept(c) \/ NextConnID(c) \/ ReadConnect(c) \/ Establish(c) \/ Peek(c)
         \/ PeekRecord(c) \/ BypassDial(c) \/ BypassDone(c) \/ NoHello(c) \/ Hello(c)
         \/ Handshake(c) \/ Dial(c) \/ RelayOpaque(c) \/ RelayDone(c) \/ Panic(c)
  PROVE  Story(c)'
  <1>1. CASE Accept(c)
    BY <1>1 DEF Accept, TunnelTypeOK, Story, At, Goto, Tell, CloseClient, Excuse, Handler, Socket, Status
  <1>2. CASE NextConnID(c)
    BY <1>2 DEF NextConnID, TunnelTypeOK, Story, At, Goto, Tell, CloseClient, Excuse, Handler, Socket, Status
  <1>3. CASE ReadConnect(c)
    <2>1. told[c] = << >> /\ Len(told[c]) = 0 /\ handler[c] = "connect"
      BY <1>3 DEF ReadConnect, Story, At
    <2>3. <<"error">> # <<"pinned">> /\ <<"opaque">> # <<"pinned">> /\ << >> # <<"pinned">>
      OBVIOUS
    <2>4. \/ handler'[c] = "establish" /\ target'[c] \in Names /\ told'[c] = << >> /\ Len(told'[c]) = 0
          \/ handler'[c] = "done" /\ client'[c] = "closed" /\ told'[c] = <<"error">> /\ Len(told'[c]) = 1
      BY <1>3, <2>1, TellOnce DEF ReadConnect, TunnelTypeOK, Goto, CloseClient, Status
    <2>5. UNCHANGED <<connID, connSeq, upstream, pinned, excuse>>
      BY <1>3 DEF ReadConnect
    <2>6. CASE handler'[c] = "establish" /\ target'[c] \in Names /\ told'[c] = << >> /\ Len(told'[c]) = 0
      BY <2>1, <2>3, <2>5, <2>6 DEF Story
    <2>7. CASE handler'[c] = "done" /\ client'[c] = "closed" /\ told'[c] = <<"error">> /\ Len(told'[c]) = 1
      BY <2>1, <2>3, <2>5, <2>7 DEF Story
    <2> QED
      BY <2>4, <2>6, <2>7
  <1>4. CASE Establish(c)
    BY <1>4 DEF Establish, TunnelTypeOK, Story, At, Goto, Tell, CloseClient, Excuse, Handler, Socket, Status
  <1>5. CASE PeekRecord(c)
    <2>1. told[c] = << >> /\ Len(told[c]) = 0 /\ handler[c] = "record"
      BY <1>5 DEF PeekRecord, Story, At
    <2>3. <<"error">> # <<"pinned">> /\ <<"opaque">> # <<"pinned">> /\ << >> # <<"pinned">>
      OBVIOUS
    <2>4. \/ handler'[c] = "bypassDial" /\ told'[c] = <<"opaque">> /\ Len(told'[c]) = 1
          \/ handler'[c] = "hello" /\ told'[c] = << >> /\ Len(told'[c]) = 0
      BY <1>5, <2>1, TellOnce DEF PeekRecord, TunnelTypeOK, Goto, CloseClient, Status
    <2>5. UNCHANGED <<target, connID, connSeq, client, upstream, pinned, excuse>>
      BY <1>5 DEF PeekRecord
    <2>6. CASE handler'[c] = "bypassDial" /\ told'[c] = <<"opaque">> /\ Len(told'[c]) = 1
      BY <2>1, <2>3, <2>5, <2>6 DEF Story
    <2>7. CASE handler'[c] = "hello" /\ told'[c] = << >> /\ Len(told'[c]) = 0
      BY <2>1, <2>3, <2>5, <2>7 DEF Story
    <2> QED
      BY <2>4, <2>6, <2>7
  <1>6. CASE BypassDial(c)
    BY <1>6 DEF BypassDial, TunnelTypeOK, Story, At, Goto, Tell, CloseClient, Excuse, Handler, Socket, Status
  <1>7. CASE BypassDone(c)
    BY <1>7 DEF BypassDone, TunnelTypeOK, Story, At, Goto, Tell, CloseClient, Excuse, Handler, Socket, Status
  <1>8. CASE NoHello(c)
    <2>1. told[c] = << >>
      BY <1>8 DEF NoHello, Story, At
    <2>2. Tell(c, "opaque") /\ told'[c] = <<"opaque">> /\ Len(told'[c]) = 1
      BY <1>8, <2>1, TellOnce DEF NoHello, Status
    <2>3. <<"error">> # <<"pinned">> /\ <<"opaque">> # <<"pinned">> /\ << >> # <<"pinned">>
      OBVIOUS
    <2> QED
      BY <1>8, <2>1, <2>2, <2>3 DEF NoHello, TunnelTypeOK, Story, At, Goto, CloseClient, Excuse, Handler, Socket
  <1>9. CASE Hello(c)
    BY <1>9 DEF Hello, TunnelTypeOK, Story, At, Goto, Tell, CloseClient, Excuse, Handler, Socket, Status
  <1>10. CASE Handshake(c)
    <2>1. told[c] = << >> /\ Len(told[c]) = 0 /\ handler[c] = "handshake"
      BY <1>10 DEF Handshake, Story, At
    <2>3. <<"error">> # <<"pinned">> /\ <<"opaque">> # <<"pinned">> /\ << >> # <<"pinned">>
      OBVIOUS
    <2>4. \/ handler'[c] = "dial" /\ told'[c] = << >> /\ Len(told'[c]) = 0 /\ pinned' = pinned
          \/ handler'[c] = "done" /\ client'[c] = "closed" /\ told'[c] = <<"error">> /\ Len(told'[c]) = 1
          \/ handler'[c] = "done" /\ client'[c] = "closed" /\ told'[c] = <<"pinned">> /\ Len(told'[c]) = 1 /\ pinned'[c] # NoLeaf
      BY <1>10, <2>1, TellOnce DEF Handshake, TunnelTypeOK, Goto, CloseClient, Status, Refused
    <2>5. UNCHANGED <<target, connID, connSeq, upstream, excuse>>
      BY <1>10 DEF Handshake
    <2>6. CASE handler'[c] = "dial" /\ told'[c] = << >> /\ Len(told'[c]) = 0 /\ pinned' = pinned
      BY <2>1, <2>3, <2>5, <2>6 DEF Story
    <2>7. CASE handler'[c] = "done" /\ client'[c] = "closed" /\ told'[c] = <<"error">> /\ Len(told'[c]) = 1
      BY <2>1, <2>3, <2>5, <2>7 DEF Story
    <2>8. CASE handler'[c] = "done" /\ client'[c] = "closed" /\ told'[c] = <<"pinned">> /\ Len(told'[c]) = 1 /\ pinned'[c] # NoLeaf
      BY <2>1, <2>3, <2>5, <2>8 DEF Story
    <2> QED
      BY <2>4, <2>6, <2>7, <2>8
  <1>11. CASE Dial(c)
    <2>1. told[c] = << >> /\ Len(told[c]) = 0 /\ handler[c] = "dial"
      BY <1>11 DEF Dial, Story, At
    <2>3. <<"error">> # <<"pinned">> /\ <<"opaque">> # <<"pinned">> /\ << >> # <<"pinned">>
      OBVIOUS
    <2>4. \/ handler'[c] = "relay" /\ told'[c] = << >> /\ Len(told'[c]) = 0
          \/ handler'[c] = "done" /\ client'[c] = "closed" /\ told'[c] = <<"error">> /\ Len(told'[c]) = 1 /\ upstream' = upstream
      BY <1>11, <2>1, TellOnce DEF Dial, TunnelTypeOK, Goto, CloseClient, Status
    <2>5. UNCHANGED <<target, connID, connSeq, pinned, excuse>>
      BY <1>11 DEF Dial
    <2>6. CASE handler'[c] = "relay" /\ told'[c] = << >> /\ Len(told'[c]) = 0
      BY <2>1, <2>3, <2>5, <2>6 DEF Story
    <2>7. CASE handler'[c] = "done" /\ client'[c] = "closed" /\ told'[c] = <<"error">> /\ Len(told'[c]) = 1 /\ upstream' = upstream
      BY <2>1, <2>3, <2>5, <2>7 DEF Story
    <2> QED
      BY <2>4, <2>6, <2>7
  <1>12. CASE RelayOpaque(c)
    <2>1. told[c] = << >>
      BY <1>12 DEF RelayOpaque, Story, At
    <2>2. Tell(c, "opaque") /\ told'[c] = <<"opaque">> /\ Len(told'[c]) = 1
      BY <1>12, <2>1, TellOnce DEF RelayOpaque, Status
    <2>3. <<"error">> # <<"pinned">> /\ <<"opaque">> # <<"pinned">> /\ << >> # <<"pinned">>
      OBVIOUS
    <2> QED
      BY <1>12, <2>1, <2>2, <2>3 DEF RelayOpaque, TunnelTypeOK, Story, At, Goto, CloseClient, Excuse, Handler, Socket
  <1>13. CASE RelayDone(c)
    BY <1>13 DEF RelayDone, TunnelTypeOK, Story, At, Goto, Tell, CloseClient, Excuse, Handler, Socket, Status
  <1>14. CASE Panic(c)
    BY <1>14 DEF Panic, TunnelTypeOK, Story, At, Goto, Tell, CloseClient, Excuse, Handler, Socket, Status
  <1>15. CASE Peek(c)
    BY <1>15 DEF Peek, TunnelTypeOK, Story, At, Goto, Handler, Status
  <1> QED
    BY <1>1, <1>2, <1>3, <1>4, <1>5, <1>6, <1>7, <1>8, <1>9, <1>10, <1>11, <1>12, <1>13, <1>14,
       <1>15

\* It leaves the other connections alone, but for the numbers handed out.
LEMMA HandlerOthers ==
  ASSUME TunnelTypeOK, NEW c \in Conns, NEW d \in Conns, d # c,
         Accept(c) \/ NextConnID(c) \/ ReadConnect(c) \/ Establish(c) \/ Peek(c)
         \/ PeekRecord(c) \/ BypassDial(c) \/ BypassDone(c) \/ NoHello(c) \/ Hello(c)
         \/ Handshake(c) \/ Dial(c) \/ RelayOpaque(c) \/ RelayDone(c) \/ Panic(c)
  PROVE  /\ handler'[d] = handler[d] /\ target'[d] = target[d] /\ connID'[d] = connID[d]
         /\ client'[d] = client[d] /\ upstream'[d] = upstream[d] /\ told'[d] = told[d]
         /\ pinned'[d] = pinned[d] /\ excuse'[d] = excuse[d]
  <1>1. CASE Accept(c)
    BY <1>1 DEF Accept, TunnelTypeOK, Goto, Tell, CloseClient, Excuse
  <1>2. CASE NextConnID(c)
    BY <1>2 DEF NextConnID, TunnelTypeOK, Goto, Tell, CloseClient, Excuse
  <1>3. CASE ReadConnect(c)
    BY <1>3 DEF ReadConnect, TunnelTypeOK, Goto, Tell, CloseClient, Excuse
  <1>4. CASE Establish(c)
    BY <1>4 DEF Establish, TunnelTypeOK, Goto, Tell, CloseClient, Excuse
  <1>5. CASE PeekRecord(c)
    BY <1>5 DEF PeekRecord, TunnelTypeOK, Goto, Tell, CloseClient, Excuse
  <1>6. CASE BypassDial(c)
    BY <1>6 DEF BypassDial, TunnelTypeOK, Goto, Tell, CloseClient, Excuse
  <1>7. CASE BypassDone(c)
    BY <1>7 DEF BypassDone, TunnelTypeOK, Goto, Tell, CloseClient, Excuse
  <1>8. CASE NoHello(c)
    BY <1>8 DEF NoHello, TunnelTypeOK, Goto, Tell, CloseClient, Excuse
  <1>9. CASE Hello(c)
    BY <1>9 DEF Hello, TunnelTypeOK, Goto, Tell, CloseClient, Excuse
  <1>10. CASE Handshake(c)
    BY <1>10 DEF Handshake, TunnelTypeOK, Goto, Tell, CloseClient, Excuse, Refused
  <1>11. CASE Dial(c)
    BY <1>11 DEF Dial, TunnelTypeOK, Goto, Tell, CloseClient, Excuse
  <1>12. CASE RelayOpaque(c)
    BY <1>12 DEF RelayOpaque, TunnelTypeOK, Goto, Tell, CloseClient, Excuse
  <1>13. CASE RelayDone(c)
    BY <1>13 DEF RelayDone, TunnelTypeOK, Goto, Tell, CloseClient, Excuse
  <1>14. CASE Panic(c)
    BY <1>14 DEF Panic, TunnelTypeOK, Goto, Tell, CloseClient, Excuse
  <1>15. CASE Peek(c)
    BY <1>15 DEF Peek, TunnelTypeOK, Goto
  <1> QED
    BY <1>1, <1>2, <1>3, <1>4, <1>5, <1>6, <1>7, <1>8, <1>9, <1>10, <1>11, <1>12, <1>13, <1>14,
       <1>15

\* Numbers only grow, and the number handed out is new.
LEMMA HandlerNumbers ==
  ASSUME TunnelTypeOK, Stories, NEW c \in Conns,
         Accept(c) \/ NextConnID(c) \/ ReadConnect(c) \/ Establish(c) \/ Peek(c)
         \/ PeekRecord(c) \/ BypassDial(c) \/ BypassDone(c) \/ NoHello(c) \/ Hello(c)
         \/ Handshake(c) \/ Dial(c) \/ RelayOpaque(c) \/ RelayDone(c) \/ Panic(c)
  PROVE  /\ connSeq' >= connSeq /\ connSeq' \in Nat
         /\ connID'[c] = connID[c] \/ (connID'[c] = connSeq + 1 /\ connSeq' = connSeq + 1)
  <1>1. CASE NextConnID(c)
    BY <1>1 DEF NextConnID, TunnelTypeOK
  <1>2. CASE ~NextConnID(c)
    <2>1. UNCHANGED <<connID, connSeq>>
      BY <1>2 DEF Accept, ReadConnect, Establish, Peek, PeekRecord, BypassDial, BypassDone,
                  NoHello, Hello, Handshake, Dial, RelayOpaque, RelayDone, Panic
    <2> QED
      BY <2>1 DEF TunnelTypeOK
  <1> QED
    BY <1>1, <1>2

\* Every step of a handler keeps its story, and leaves those of the others.
LEMMA HandlerInv ==
  ASSUME LeafTypeOK, TunnelInv, NEW c \in Conns,
         Accept(c) \/ NextConnID(c) \/ ReadConnect(c) \/ Establish(c) \/ Peek(c)
         \/ PeekRecord(c) \/ BypassDial(c) \/ BypassDone(c) \/ NoHello(c) \/ Hello(c)
         \/ Handshake(c) \/ Dial(c) \/ RelayOpaque(c) \/ RelayDone(c) \/ Panic(c)
  PROVE  TunnelInv'
  <1>1. TunnelTypeOK'
    BY HandlerTypes DEF TunnelInv
  <1>2. /\ connSeq' >= connSeq /\ connSeq' \in Nat /\ connSeq \in Nat
        /\ connID'[c] = connID[c] \/ (connID'[c] = connSeq + 1 /\ connSeq' = connSeq + 1)
    BY HandlerNumbers DEF TunnelInv, TunnelTypeOK
  <1>3. Stories'
    <2> SUFFICES ASSUME NEW d \in Conns PROVE Story(d)'
      BY DEF Stories
    <2>1. Story(d) /\ connID[d] \in Nat
      BY DEF TunnelInv, Stories, TunnelTypeOK
    <2>2. CASE d = c
      BY <2>1, <2>2, HandlerStory DEF TunnelInv
    <2>3. CASE d # c
      <3>1. /\ handler'[d] = handler[d] /\ target'[d] = target[d] /\ connID'[d] = connID[d]
            /\ client'[d] = client[d] /\ upstream'[d] = upstream[d] /\ told'[d] = told[d]
            /\ pinned'[d] = pinned[d] /\ excuse'[d] = excuse[d]
        BY <2>3, HandlerOthers DEF TunnelInv
      <3> QED
        BY <1>2, <2>1, <3>1 DEF Story
    <2> QED
      BY <2>2, <2>3
  <1>4. Numbered'
    <2>1. \A d \in Conns : d # c => connID'[d] = connID[d]
      BY HandlerOthers DEF TunnelInv
    <2>2. \A d \in Conns : connID[d] <= connSeq /\ connID[d] \in Nat
      BY DEF TunnelInv, TunnelTypeOK, Stories, Story
    <2>3. \A d, e \in Conns : connID[d] = connID[e] /\ connID[d] # 0 => d = e
      BY DEF TunnelInv, Numbered
    <2> SUFFICES ASSUME NEW d \in Conns, NEW e \in Conns,
                        connID'[d] = connID'[e], connID'[d] # 0
                 PROVE  d = e
      BY DEF Numbered
    <2>4. CASE connID'[c] = connID[c]
      BY <2>1, <2>3, <2>4
    <2>5. CASE connID'[c] = connSeq + 1
      BY <1>2, <2>1, <2>2, <2>3, <2>5
    <2> QED
      BY <1>2, <2>4, <2>5
  <1> QED
    BY <1>1, <1>3, <1>4 DEF TunnelInv

\* What leaves the connections alone keeps TunnelInv.
LEMMA TunnelUnchanged == TunnelInv /\ UNCHANGED tunnelVars => TunnelInv'
  BY DEF TunnelInv, TunnelTypeOK, Stories, Story, Numbered, tunnelVars

-----------------------------------------------------------------------------
(* The tunnels use the cache as its specification says. *)

\* Every step of Tunnel is a step of LeafCache or leaves the cache alone.
LEMMA TunnelStepIsLeafStep ==
  ASSUME TunnelInv, [Next]_vars PROVE [LeafNext]_leafVars
  <1>1. ASSUME NEW c \in Conns, Hello(c) PROVE LeafNext
    <2>1. target[c] \in Names
      BY <1>1 DEF Hello, At, TunnelInv, Stories, Story
    <2>2. PICK sni \in Names \cup {NoName} : LeafFor(c, IF sni = NoName THEN target[c] ELSE sni)
      BY <1>1 DEF Hello
    <2> QED
      BY <2>1, <2>2 DEF LeafNext
  <1>2. ASSUME NEW c \in Conns, Handshake(c) \/ Panic(c) PROVE LeafNext
    BY <1>2 DEF Handshake, Panic, LeafNext
  <1>3. ASSUME NEW c \in Conns, LeafStep(c) PROVE LeafNext
    BY <1>3 DEF LeafNext
  <1>4. ASSUME NEW c \in Conns,
               Accept(c) \/ NextConnID(c) \/ ReadConnect(c) \/ Establish(c) \/ Peek(c)
               \/ PeekRecord(c) \/ BypassDial(c) \/ BypassDone(c) \/ NoHello(c) \/ Dial(c)
               \/ RelayOpaque(c) \/ RelayDone(c)
        PROVE  UNCHANGED leafVars
    BY <1>4 DEF Accept, NextConnID, ReadConnect, Establish, Peek, PeekRecord, BypassDial,
                BypassDone, NoHello, Dial, RelayOpaque, RelayDone, leafVars
  <1>5. CASE Tick
    BY <1>5 DEF LeafNext
  <1>6. CASE UNCHANGED vars
    BY <1>6 DEF vars, leafVars
  <1> QED
    BY <1>1, <1>2, <1>3, <1>4, <1>5, <1>6 DEF Next, Handle, PeerStep, Finished

\* Every step of Tunnel keeps TunnelInv.
LEMMA TunnelNextInv == LeafTypeOK /\ TunnelInv /\ [Next]_vars => TunnelInv'
  <1> SUFFICES ASSUME LeafTypeOK, TunnelInv, [Next]_vars PROVE TunnelInv'
    OBVIOUS
  <1>1. ASSUME NEW c \in Conns,
               Accept(c) \/ NextConnID(c) \/ ReadConnect(c) \/ Establish(c) \/ Peek(c)
               \/ PeekRecord(c) \/ BypassDial(c) \/ BypassDone(c) \/ NoHello(c) \/ Hello(c)
               \/ Handshake(c) \/ Dial(c) \/ RelayOpaque(c) \/ RelayDone(c) \/ Panic(c)
        PROVE  TunnelInv'
    BY <1>1, HandlerInv
  <1>2. ASSUME UNCHANGED tunnelVars PROVE TunnelInv'
    BY <1>2, TunnelUnchanged
  <1> QED
    BY <1>1, <1>2 DEF Next, Handle, PeerStep, Finished, vars, tunnelVars

-----------------------------------------------------------------------------
(* The theorems. *)

\* The invariants of the cache and of the connections hold throughout.
LEMMA InvHolds == Spec => [](LeafInv /\ TunnelInv)
  <1>1. Init => LeafInv /\ TunnelInv
    BY LeafInitInv, TunnelInitInv DEF Init
  <1>2. LeafInv /\ TunnelInv /\ [Next]_vars => (LeafInv /\ TunnelInv)'
    BY TunnelStepIsLeafStep, LeafNextInv, TunnelNextInv DEF LeafInv
  <1> QED
    BY <1>1, <1>2, PTL DEF Spec

\* The proxy uses the cache as LeafCache specifies it, whatever becomes of its
\* connections: tunnels that end, fail or panic in the middle of a call included.
THEOREM TunnelImplementsLeafCache == Spec => LeafSpec
  <1>1. Init => LeafInit
    BY DEF Init
  <1>2. LeafInv /\ TunnelInv /\ [Next]_vars => [LeafNext]_leafVars
    BY TunnelStepIsLeafStep
  <1> QED
    BY <1>1, <1>2, InvHolds, PTL DEF Spec, LeafSpec

\* Every variable keeps its type.
THEOREM TypeCorrect == Spec => []TypeOK
  <1>1. LeafInv /\ TunnelInv => TypeOK
    BY DEF LeafInv, TunnelInv, TunnelTypeOK, TypeOK
  <1> QED
    BY <1>1, InvHolds, PTL

\* For any number of connections, hosts and any capacity: the eviction order
\* lists exactly the cached hosts, once each, within the capacity (ca.CA.store).
THEOREM OrderAlwaysListsCache == Spec => []OrderListsCache
  <1>1. LeafInv => OrderListsCache
    BY DEF LeafInv
  <1> QED
    BY <1>1, InvHolds, PTL

\* LeafFor never hands out a leaf of another host or one that is expired by the
\* end of the handshake.
THEOREM AlwaysServedIsValid == Spec => []ServedIsValid
  BY InvServes, InvHolds, PTL

\* No goroutine ever replaces a fresh leaf that another one stored.
THEOREM FreshIsAlwaysKept == Spec => FreshIsKept
  <1>1. LeafInv /\ TunnelInv /\ [Next]_vars
          => [\A h \in Hosts : Fresh(leaves[h]) => leaves'[h] \in {leaves[h], NoLeaf}]_<<leaves>>
    BY TunnelStepIsLeafStep, StepKeepsFresh
  <1> QED
    BY <1>1, InvHolds, PTL DEF Spec, FreshIsKept

\* Every connection that ended is accounted for by exactly one connection event,
\* by its relay, or by a client that was gone; and numbers are never shared.
THEOREM AlwaysAccounted == Spec => []Accounted
  <1>1. TunnelInv => Accounted
    BY DEF TunnelInv, Stories, Story, Numbered, Accounted, At
  <1> QED
    BY <1>1, InvHolds, PTL

\* No path out of handle leaves a descriptor open.
THEOREM AlwaysEndsTidy == Spec => []EndsTidy
  <1>1. TunnelInv => EndsTidy
    BY DEF TunnelInv, Stories, Story, EndsTidy, At
  <1> QED
    BY <1>1, InvHolds, PTL

\* A client is reported as pinning only if it was shown a leaf.
THEOREM PinnedIsAlwaysHonest == Spec => []PinnedIsHonest
  <1>1. TunnelInv => PinnedIsHonest
    BY DEF TunnelInv, Stories, Story, PinnedIsHonest
  <1> QED
    BY <1>1, InvHolds, PTL

-----------------------------------------------------------------------------
(* Every connection ends. *)

\* A handler is in a call of LeafFor exactly while it is in the handshake.
InCall == \A c \in Conns : handler[c] = "handshake" <=> call[c] # "idle"

\* What Handle(c) needs, read off its disjuncts: to be under way, not to wait for a peer
\* and, in the handshake, to be in a call.
HandleGuard(c) == \/ handler[c] \notin {"idle", "handshake", "done"} /\ ~WaitsForPeer(c)
                  \/ handler[c] = "handshake" /\ call[c] # "idle"

\* The steps the handler of a connection has left, at most.
StepsLeft(c) ==
    CASE handler[c] = "identify" -> 12
      [] handler[c] = "connect" -> 11
      [] handler[c] = "establish" -> 10
      [] handler[c] = "peek" -> 9
      [] handler[c] = "record" -> 8
      [] handler[c] = "hello" -> 7
      [] handler[c] = "handshake" /\ call[c] = "check" -> 6
      [] handler[c] = "handshake" /\ call[c] = "mint" -> 5
      [] handler[c] = "handshake" /\ call[c] = "store" -> 4
      [] handler[c] = "handshake" /\ call[c] = "return" -> 3
      [] handler[c] \in {"bypassDial", "dial"} -> 2
      [] handler[c] \in {"bypass", "relay"} -> 1
      [] OTHER -> 0

\* The connection was accepted and its handler has at most n steps left.
Within(c, n) == handler[c] # "idle" /\ StepsLeft(c) <= n

\* HandleGuard(c) is when Handle(c) can be taken.  The prover knows nothing of ENABLED:
\* this is the one fact about it that the theorems below start from.
GuardIsEnabled(c) == HandleGuard(c) => ENABLED <<Handle(c)>>_vars

\* A call begins with the handshake and ends with it.
LEMMA InCallNext == LeafTypeOK /\ TunnelInv /\ InCall /\ [Next]_vars => InCall'
  <1> SUFFICES ASSUME LeafTypeOK, TunnelInv, InCall, [Next]_vars PROVE InCall'
    OBVIOUS
  <1>0. /\ handler \in [Conns -> Handler]
        /\ call \in [Conns -> {"idle", "check", "mint", "store", "return"}]
    BY DEF LeafTypeOK, TunnelInv, TunnelTypeOK
  <1>1. ASSUME NEW c \in Conns,
               Accept(c) \/ NextConnID(c) \/ ReadConnect(c) \/ Establish(c) \/ Peek(c)
               \/ PeekRecord(c) \/ BypassDial(c) \/ BypassDone(c) \/ NoHello(c) \/ Dial(c)
               \/ RelayOpaque(c) \/ RelayDone(c)
        PROVE  InCall'
    <2>1. call' = call
      BY <1>1 DEF Accept, NextConnID, ReadConnect, Establish, Peek, PeekRecord, BypassDial,
                  BypassDone, NoHello, Dial, RelayOpaque, RelayDone, leafVars
    <2>2. handler[c] # "handshake" /\ handler'[c] # "handshake"
      BY <1>0, <1>1 DEF Accept, NextConnID, ReadConnect, Establish, Peek, PeekRecord, BypassDial,
                  BypassDone, NoHello, Dial, RelayOpaque, RelayDone, At, Goto
    <2>3. \A d \in Conns : d # c => handler'[d] = handler[d]
      BY <1>1, HandlerOthers DEF TunnelInv
    <2> QED
      BY <2>1, <2>2, <2>3 DEF InCall
  <1>2. ASSUME NEW c \in Conns, Hello(c) PROVE InCall'
    <2>1. handler' = [handler EXCEPT ![c] = "handshake"]
      BY <1>2 DEF Hello, Goto
    <2>2. call' = [call EXCEPT ![c] = "return"] \/ call' = [call EXCEPT ![c] = "check"]
      BY <1>2 DEF Hello, LeafFor
    <2> QED
      BY <1>0, <2>1, <2>2 DEF InCall
  <1>3. ASSUME NEW c \in Conns, LeafStep(c), UNCHANGED tunnelVars PROVE InCall'
    <2>1. /\ call[c] # "idle"
          /\ \/ call' = [call EXCEPT ![c] = "mint"] \/ call' = [call EXCEPT ![c] = "store"]
             \/ call' = [call EXCEPT ![c] = "return"]
      BY <1>3 DEF LeafStep, CachedFresh, Mint, Store
    <2> QED
      BY <1>0, <1>3, <2>1 DEF InCall, tunnelVars
  <1>4. ASSUME NEW c \in Conns, Handshake(c) \/ Panic(c) PROVE InCall'
    <2>1. call' = [call EXCEPT ![c] = "idle"]
      BY <1>4 DEF Handshake, Panic, EndCall
    <2>2. handler' = [handler EXCEPT ![c] = "dial"] \/ handler' = [handler EXCEPT ![c] = "done"]
      BY <1>4 DEF Handshake, Panic, Goto
    <2> QED
      BY <1>0, <2>1, <2>2 DEF InCall
  <1>5. ASSUME (Tick /\ UNCHANGED tunnelVars) \/ UNCHANGED vars PROVE InCall'
    BY <1>5 DEF InCall, Tick, callVars, tunnelVars, vars, leafVars
  <1> QED
    BY <1>1, <1>2, <1>3, <1>4, <1>5 DEF Next, Handle, PeerStep, Finished

\* Where a connection is the steps of the others do not change.
LEMMA OthersStay ==
  ASSUME LeafTypeOK, TunnelInv, NEW c \in Conns, NEW d \in Conns, d # c,
         Accept(d) \/ Handle(d) \/ PeerStep(d) \/ RelayOpaque(d) \/ Panic(d)
  PROVE  handler'[c] = handler[c] /\ call'[c] = call[c]
  <1>0. /\ handler \in [Conns -> Handler]
        /\ call \in [Conns -> {"idle", "check", "mint", "store", "return"}]
    BY DEF LeafTypeOK, TunnelInv, TunnelTypeOK
  <1>1. CASE LeafStep(d) /\ UNCHANGED tunnelVars
    BY <1>0, <1>1 DEF LeafStep, CachedFresh, Mint, Store, tunnelVars
  <1>2. CASE Hello(d) \/ Handshake(d) \/ Panic(d)
    BY <1>0, <1>2 DEF Hello, Handshake, Panic, LeafFor, EndCall, Goto
  <1>3. CASE Accept(d) \/ NextConnID(d) \/ ReadConnect(d) \/ Establish(d) \/ Peek(d)
             \/ PeekRecord(d) \/ BypassDial(d) \/ BypassDone(d) \/ NoHello(d) \/ Dial(d)
             \/ RelayOpaque(d) \/ RelayDone(d)
    <2>1. handler'[c] = handler[c]
      BY <1>3, HandlerOthers DEF TunnelInv
    <2>2. call' = call
      BY <1>3 DEF Accept, NextConnID, ReadConnect, Establish, Peek, PeekRecord, BypassDial,
                  BypassDone, NoHello, Dial, RelayOpaque, RelayDone, leafVars
    <2> QED
      BY <2>1, <2>2
  <1> QED
    BY <1>1, <1>2, <1>3 DEF Handle, PeerStep

\* A step of a handler leaves it fewer steps, ...
LEMMA HandleDescends ==
  ASSUME LeafTypeOK, TunnelInv, InCall, NEW c \in Conns, Handle(c) \/ PeerStep(c)
  PROVE  handler'[c] # "idle" /\ StepsLeft(c)' < StepsLeft(c)
  <1>0. /\ handler \in [Conns -> Handler]
        /\ call \in [Conns -> {"idle", "check", "mint", "store", "return"}]
    BY DEF LeafTypeOK, TunnelInv, TunnelTypeOK
  <1>1. CASE NextConnID(c) \/ ReadConnect(c) \/ Establish(c)
    <2>1. \/ handler[c] = "identify" /\ handler'[c] = "connect"
          \/ handler[c] = "connect" /\ handler'[c] \in {"establish", "done"}
          \/ handler[c] = "establish" /\ handler'[c] \in {"peek", "done"}
      BY <1>0, <1>1 DEF NextConnID, ReadConnect, Establish, At, Goto
    <2> QED
      BY <2>1 DEF StepsLeft
  <1>2. CASE Peek(c) \/ BypassDial(c) \/ NoHello(c) \/ Dial(c) \/ PeerStep(c)
    <2>1. \/ handler[c] = "peek" /\ handler'[c] \in {"record", "hello"}
          \/ handler[c] = "record" /\ handler'[c] \in {"bypassDial", "hello"}
          \/ handler[c] = "bypassDial" /\ handler'[c] \in {"bypass", "done"}
          \/ handler[c] \in {"bypass", "hello", "relay"} /\ handler'[c] = "done"
          \/ handler[c] = "dial" /\ handler'[c] \in {"relay", "done"}
      BY <1>0, <1>2 DEF Peek, PeekRecord, BypassDial, BypassDone, NoHello, Dial, RelayDone,
                        PeerStep, At, Goto
    <2> QED
      BY <2>1 DEF StepsLeft
  <1>3. CASE Hello(c)
    <2>1. handler[c] = "hello" /\ handler'[c] = "handshake" /\ call'[c] \in {"check", "return"}
      BY <1>0, <1>3 DEF Hello, At, Goto, LeafFor
    <2> QED
      BY <2>1 DEF StepsLeft
  <1>4. CASE LeafStep(c) /\ UNCHANGED tunnelVars
    <2>1. /\ handler[c] = "handshake" /\ handler'[c] = "handshake"
          /\ \/ call[c] = "check" /\ call'[c] \in {"mint", "return"}
             \/ call[c] = "mint" /\ call'[c] \in {"store", "return"}
             \/ call[c] = "store" /\ call'[c] = "return"
      BY <1>0, <1>4 DEF LeafStep, CachedFresh, Mint, Store, InCall, tunnelVars
    <2> QED
      BY <2>1 DEF StepsLeft
  <1>5. CASE Handshake(c)
    <2>1. /\ handler[c] = "handshake" /\ call[c] = "return"
          /\ handler'[c] \in {"dial", "done"}
      BY <1>0, <1>5 DEF Handshake, At, Goto
    <2> QED
      BY <2>1 DEF StepsLeft
  <1> QED
    BY <1>1, <1>2, <1>3, <1>4, <1>5 DEF Handle

\* ... a step of any other kind no more than it had, ...
LEMMA NeverAscends ==
  ASSUME LeafTypeOK, TunnelInv, InCall, [Next]_vars, NEW c \in Conns, handler[c] # "idle"
  PROVE  handler'[c] # "idle" /\ StepsLeft(c)' <= StepsLeft(c)
  <1>0. /\ handler \in [Conns -> Handler]
        /\ call \in [Conns -> {"idle", "check", "mint", "store", "return"}]
        /\ StepsLeft(c) \in 0 .. 12
    BY DEF LeafTypeOK, TunnelInv, TunnelTypeOK, StepsLeft
  <1>1. ASSUME handler'[c] = handler[c], call'[c] = call[c]
        PROVE  handler'[c] # "idle" /\ StepsLeft(c)' <= StepsLeft(c)
    BY <1>0, <1>1 DEF StepsLeft
  <1>2. CASE Handle(c) \/ PeerStep(c)
    <2>1. StepsLeft(c)' < StepsLeft(c) /\ StepsLeft(c)' \in 0 .. 12
      BY <1>2, HandleDescends DEF StepsLeft
    <2> QED
      BY <1>0, <1>2, <2>1, HandleDescends
  <1>3. CASE Accept(c)
    BY <1>3 DEF Accept, At
  <1>4. CASE RelayOpaque(c)
    BY <1>1, <1>4 DEF RelayOpaque, leafVars
  <1>5. CASE Panic(c)
    <2>1. handler'[c] = "done"
      BY <1>0, <1>5 DEF Panic, Goto
    <2> QED
      BY <1>0, <2>1 DEF StepsLeft
  <1>6. ASSUME NEW d \in Conns, d # c, Accept(d) \/ Handle(d) \/ PeerStep(d) \/ RelayOpaque(d)
               \/ Panic(d)
        PROVE  handler'[c] = handler[c] /\ call'[c] = call[c]
    BY <1>6, OthersStay
  <1>7. CASE (Tick /\ UNCHANGED tunnelVars) \/ UNCHANGED vars
    BY <1>1, <1>7 DEF Tick, callVars, tunnelVars, vars, leafVars
  <1> QED
    BY <1>1, <1>2, <1>3, <1>4, <1>5, <1>6, <1>7 DEF Next, Finished

\* ... and unless it waits for a peer, with one or eight steps left, it can be taken.
LEMMA GuardHolds ==
  ASSUME LeafTypeOK, TunnelInv, InCall, NEW c \in Conns, handler[c] \notin {"idle", "done"}
  PROVE  /\ StepsLeft(c) \in 1 .. 12
         /\ WaitsForPeer(c) <=> StepsLeft(c) \in {1, 8}
         /\ HandleGuard(c) \/ WaitsForPeer(c)
  <1>0. /\ handler[c] \in Handler
        /\ call[c] \in {"idle", "check", "mint", "store", "return"}
        /\ handler[c] = "handshake" <=> call[c] # "idle"
    BY DEF LeafTypeOK, TunnelInv, TunnelTypeOK, InCall
  <1>1. CASE handler[c] = "handshake"
    BY <1>0, <1>1 DEF StepsLeft, WaitsForPeer, HandleGuard
  <1>2. CASE handler[c] # "handshake"
    BY <1>0, <1>2 DEF StepsLeft, WaitsForPeer, HandleGuard, Handler
  <1> QED
    BY <1>1, <1>2

\* With InCall too the invariant holds throughout.
LEMMA InCallHolds == Spec => [](LeafTypeOK /\ TunnelInv /\ InCall)
  <1>1. Init => InCall
    BY DEF Init, LeafInit, InCall
  <1>2. LeafInv /\ TunnelInv => LeafTypeOK /\ TunnelInv
    BY DEF LeafInv
  <1> QED
    BY <1>1, <1>2, InCallNext, InvHolds, PTL DEF Spec

\* The handler of c goes on as the specification's fairness has it.
HandlerRuns(c) == /\ [](LeafTypeOK /\ TunnelInv /\ InCall) /\ []GuardIsEnabled(c)
                  /\ [][Next]_vars /\ HandlerIsFair(c)

\* Once it has at most n steps left it comes to have at most m, or waits for ever.
Descends(c, n, m) == Within(c, n) ~> (Within(c, m) \/ []WaitsForPeer(c))

\* One step at a time is taken, whatever the others do.
LEMMA OneStepOn ==
  ASSUME NEW c \in Conns, NEW n \in Nat, NEW m \in Nat, n = m + 1
  PROVE  HandlerRuns(c) => Descends(c, n, m)
  <1> DEFINE I == LeafTypeOK /\ TunnelInv /\ InCall
  <1>1. I /\ Within(c, n) /\ [Next]_vars => Within(c, n)'
    <2> SUFFICES ASSUME I, Within(c, n), [Next]_vars PROVE Within(c, n)'
      OBVIOUS
    <2>1. StepsLeft(c) \in 0 .. 12 /\ StepsLeft(c)' \in 0 .. 12
      BY DEF StepsLeft
    <2> QED
      BY <2>1, NeverAscends DEF Within
  <1>2. I /\ Within(c, n) /\ <<Handle(c)>>_vars => Within(c, m)'
    <2> SUFFICES ASSUME I, Within(c, n), Handle(c) PROVE Within(c, m)'
      OBVIOUS
    <2>1. StepsLeft(c) \in 0 .. 12 /\ StepsLeft(c)' \in 0 .. 12
      BY DEF StepsLeft
    <2> QED
      BY <2>1, HandleDescends DEF Within
  <1>3. I /\ Within(c, n) =>
           \/ Within(c, m)
           \/ IF n \in {1, 8} THEN WaitsForPeer(c) ELSE HandleGuard(c)
    <2> SUFFICES ASSUME I, Within(c, n), ~Within(c, m)
                 PROVE  IF n \in {1, 8} THEN WaitsForPeer(c) ELSE HandleGuard(c)
      OBVIOUS
    <2>1. handler[c] # "done"
      BY DEF Within, StepsLeft
    <2>2. /\ StepsLeft(c) \in 1 .. 12
          /\ WaitsForPeer(c) <=> StepsLeft(c) \in {1, 8}
          /\ HandleGuard(c) \/ WaitsForPeer(c)
      BY <2>1, GuardHolds DEF Within
    <2>3. StepsLeft(c) = n
      BY <2>2 DEF Within
    <2> QED
      BY <2>2, <2>3
  <1>4. CASE n \in {1, 8}
    <2>1. I /\ Within(c, n) => Within(c, m) \/ WaitsForPeer(c)
      BY <1>3, <1>4
    <2> QED
      BY <1>1, <2>1, PTL DEF HandlerRuns, Descends
  <1>5. CASE n \notin {1, 8}
    <2>1. I /\ Within(c, n) => Within(c, m) \/ HandleGuard(c)
      BY <1>3, <1>5
    <2> QED
      BY <1>1, <1>2, <2>1, PTL DEF GuardIsEnabled, HandlerRuns, HandlerIsFair, Descends
  <1> QED
    BY <1>4, <1>5

\* An accepted connection ends, or waits for ever for one of its peers.
Stops(c) == At(c, "identify") ~> (At(c, "done") \/ []WaitsForPeer(c))

\* From any point on its way twelve steps suffice, and none waits for another connection.
LEMMA HandlerEnds ==
  ASSUME NEW c \in Conns
  PROVE  HandlerRuns(c) => Stops(c)
  <1>1. HandlerRuns(c) => /\ Descends(c, 12, 11) /\ Descends(c, 11, 10)
                          /\ Descends(c, 10, 9) /\ Descends(c, 9, 8)
                          /\ Descends(c, 8, 7) /\ Descends(c, 7, 6) /\ Descends(c, 6, 5)
                          /\ Descends(c, 5, 4) /\ Descends(c, 4, 3) /\ Descends(c, 3, 2)
                          /\ Descends(c, 2, 1) /\ Descends(c, 1, 0)
    BY OneStepOn
  <1>2. At(c, "identify") => Within(c, 12)
    BY DEF At, Within, StepsLeft
  <1>3. LeafTypeOK /\ TunnelInv /\ InCall /\ Within(c, 0) => At(c, "done")
    <2> SUFFICES ASSUME LeafTypeOK, TunnelInv, InCall, Within(c, 0), handler[c] # "done"
                 PROVE  FALSE
      BY DEF At
    <2> QED
      BY GuardHolds DEF Within
  <1> QED
    BY <1>1, <1>2, <1>3, PTL DEF HandlerRuns, Descends, Stops

\* Every connection that was accepted ends, on whichever of its paths, for any number of
\* connections, hosts and leaves (Proxy.handle), unless from some time on it waits for its
\* client or its upstream where the code sets no deadline: given when
\* ENABLED <<Handle(c)>>_vars holds.
THEOREM EveryTunnelEnds ==
    Spec /\ [](\A c \in Conns : GuardIsEnabled(c)) => TunnelEnds
  <1> DEFINE Given == Spec /\ [](\A c \in Conns : GuardIsEnabled(c))
  <1>1. ASSUME NEW d \in Conns PROVE Given => Stops(d)
    <2>1. (\A c \in Conns : GuardIsEnabled(c)) => GuardIsEnabled(d)
      OBVIOUS
    <2>2. Spec => HandlerIsFair(d)
      BY DEF Spec
    <2>3. HandlerRuns(d) => Stops(d)
      BY HandlerEnds
    <2>4. Spec => [][Next]_vars
      BY PTL DEF Spec
    <2>5. [](\A c \in Conns : GuardIsEnabled(c)) => []GuardIsEnabled(d)
      BY <2>1, PTL
    <2>6. Given => [](LeafTypeOK /\ TunnelInv /\ InCall)
      BY InCallHolds, PTL
    <2>7. Given => []GuardIsEnabled(d)
      BY <2>5, PTL
    <2>8. Given => HandlerIsFair(d)
      BY <2>2, PTL
    <2>9. Given => HandlerRuns(d)
      BY <2>6, <2>7, <2>8, <2>4, PTL DEF HandlerRuns
    <2> QED
      BY <2>9, <2>3
  <1>2. Given => \A c \in Conns : Stops(c)
    <2> HIDE DEF Given
    <2> QED
      BY <1>1
  <1> QED
    BY <1>2 DEF TunnelEnds, Stops

-----------------------------------------------------------------------------
(* The proxy. *)

(* The inductive invariant of owner attribution. *)

\* The process has the port, or had it at the given time or later.
HeldSince(p, q, t) == <<p, q>> \in sockets \/ \E h \in past : h[1] = p /\ h[2] = q /\ h[3] >= t

\* The map shows a moment in the time a sweep takes before it was stored.
MapIsFrom(map, t) == \A p \in DOMAIN map : HeldSince(p, map[p], t)

OwnerInv ==
    /\ OwnerTypeOK
    /\ ownerAt <= seconds /\ ownerLast <= seconds
    /\ MapIsFrom(ownerMap, ownerAt - LsofTimeout)
    /\ sweep.stage # "none" => /\ seconds - ownerLast <= LsofTimeout
                               /\ MapIsFrom(sweep.found, ownerLast)
    /\ OwnerIsRecent

\* No map of owners names the proxy itself.
LEMMA OwnersAreOthers == \A m \in Owners : \A p \in DOMAIN m : p \in Ports /\ m[p] \in Processes \ {Self}
  BY DEF Owners

\* The empty map names nobody.
LEMMA NothingOwned == NoOwners \in Owners /\ DOMAIN NoOwners = {}
  <1>1. NoOwners \in [{} -> Processes \ {Self}] /\ DOMAIN NoOwners = {}
    BY DEF NoOwners
  <1> QED
    BY <1>1 DEF Owners

\* What lsof lists it lists now.
LEMMA ListingsHeld == ASSUME NEW t \in Int, NEW m \in Listings
                      PROVE  m \in Owners /\ MapIsFrom(m, t)
  BY DEF Listings, Listed, Holders, MapIsFrom, HeldSince

\* OwnerInv holds before the first lookup.
LEMMA OwnerInitInv == OwnerInit => OwnerInv
  <1> SUFFICES ASSUME OwnerInit PROVE OwnerInv
    OBVIOUS
  <1>1. ownerMap \in Owners /\ MapIsFrom(ownerMap, ownerAt - LsofTimeout)
    <2>1. CASE swept
      <3>1. ownerMap \in Listings /\ ownerAt - LsofTimeout \in Int
        BY <2>1, OwnerAssumption DEF OwnerInit
      <3> QED
        BY <3>1, ListingsHeld
    <2>2. CASE ~swept
      BY <2>2, NothingOwned DEF OwnerInit, MapIsFrom
    <2> QED
      BY <2>1, <2>2
  <1>2. answer \in [Askers -> [owner : Processes \cup {Nobody}, recent : BOOLEAN, failed : BOOLEAN]]
    BY DEF OwnerInit, NoAnswer
  <1>3. OwnerIsRecent
    BY OwnerAssumption DEF OwnerInit, NoAnswer, OwnerIsRecent
  <1> QED
    BY <1>1, <1>2, <1>3, NothingOwned DEF OwnerInv, OwnerTypeOK, OwnerInit, NoSweep

-----------------------------------------------------------------------------
(* The machine's steps.  A port that is given up was held until now. *)

\* The same of the next state, for the same process and time.
HeldNext(p, q, t) == <<p, q>> \in sockets' \/ \E h \in past' : h[1] = p /\ h[2] = q /\ h[3] >= t

\* Who held a port since some time still did then, whatever opens or closes now.
LEMMA StillHeld ==
  ASSUME OwnerInv, NEW p, NEW q, NEW t \in Int, t <= seconds, HeldSince(p, q, t),
         NEW o \in Ports, NEW r \in Processes, Opens(o, r) \/ Closes(o, r)
  PROVE  HeldNext(p, q, t)
  <1>1. CASE Opens(o, r)
    BY <1>1 DEF Opens, HeldSince, HeldNext
  <1>2. CASE Closes(o, r)
    <2>1. CASE p = o /\ q = r
      <3>1. <<o, r, seconds>> \in past'
        BY <1>2 DEF Closes
      <3> QED
        BY <2>1, <3>1 DEF HeldNext
    <2>2. CASE ~(p = o /\ q = r)
      BY <1>2, <2>2 DEF Closes, HeldSince, HeldNext
    <2> QED
      BY <2>1, <2>2
  <1> QED
    BY <1>1, <1>2

\* A socket that opens or closes makes no map wrong: it was held until now.
LEMMA MoveInv ==
  ASSUME OwnerInv, NEW o \in Ports, NEW r \in Processes, Opens(o, r) \/ Closes(o, r)
  PROVE  OwnerInv'
  <1> USE DEF OwnerInv
  <1>1. /\ UNCHANGED <<seconds, ownerMap, swept, ownerAt, ownerLast, sweep, clientPort, answer>>
        /\ seconds \in Nat /\ ownerAt \in Nat /\ ownerLast \in Nat
    BY DEF Opens, Closes, sweepVars, OwnerTypeOK
  <1>2. OwnerTypeOK'
    <2>1. sockets' \subseteq Ports \X Processes /\ past' \subseteq Ports \X Processes \X Nat
      BY <1>1 DEF Opens, Closes, OwnerTypeOK
    <2> QED
      BY <1>1, <2>1 DEF OwnerTypeOK
  <1>3. ASSUME NEW map, NEW t \in Int, t <= seconds, MapIsFrom(map, t)
        PROVE  \A p \in DOMAIN map : HeldNext(p, map[p], t)
    BY <1>3, StillHeld DEF MapIsFrom
  <1>4. MapIsFrom(ownerMap, ownerAt - LsofTimeout)'
    <2>1. ownerAt - LsofTimeout \in Int /\ ownerAt - LsofTimeout <= seconds
      BY <1>1, OwnerAssumption
    <2>2. \A p \in DOMAIN ownerMap : HeldNext(p, ownerMap[p], ownerAt - LsofTimeout)
      BY <1>3, <2>1
    <2> QED
      BY <1>1, <2>2 DEF MapIsFrom, HeldSince, HeldNext
  <1>5. sweep.stage # "none" => MapIsFrom(sweep.found, ownerLast)'
    <2>1. sweep.stage # "none" =>
             \A p \in DOMAIN sweep.found : HeldNext(p, sweep.found[p], ownerLast)
      BY <1>1, <1>3
    <2> QED
      BY <1>1, <2>1 DEF MapIsFrom, HeldSince, HeldNext
  <1> QED
    BY <1>1, <1>2, <1>4, <1>5 DEF OwnerIsRecent

\* Another second ages the snapshot and the sweep, within their bounds.
LEMMA SecondInv == ASSUME OwnerInv, SecondPasses PROVE OwnerInv'
  <1>1. /\ UNCHANGED <<sockets, past, ownerMap, swept, ownerAt, ownerLast, sweep, clientPort, answer>>
        /\ seconds' = seconds + 1 /\ seconds \in Nat /\ ownerAt \in Nat /\ ownerLast \in Nat
    BY DEF SecondPasses, sweepVars, machineVars, OwnerInv, OwnerTypeOK
  <1>2. sweep.stage # "none" => seconds' - ownerLast <= LsofTimeout
    BY <1>1, OwnerAssumption DEF SecondPasses
  <1> QED
    BY <1>1, <1>2 DEF OwnerInv, OwnerTypeOK, MapIsFrom, HeldSince, OwnerIsRecent

-----------------------------------------------------------------------------
(* The steps of a lookup. *)

\* A sweep begins with nothing found and is stamped with the time.
LEMMA BeginSweepType ==
  ASSUME OwnerTypeOK, NEW c \in Askers, NEW why \in {"expired", "missed"}, BeginSweep(c, why)
  PROVE  /\ sweep'.by = c /\ sweep'.stage = "lsof" /\ sweep'.why = why
         /\ sweep'.found = NoOwners /\ sweep'.some = FALSE
         /\ ownerLast' = seconds
  BY DEF BeginSweep, NoSweep

\* A lookup answers from a recent snapshot or begins a sweep.
LEMMA LookUpInv == ASSUME OwnerInv, NEW c \in Askers, LookUp(c) PROVE OwnerInv'
  <1>1. /\ UNCHANGED <<sockets, past, seconds, ownerMap, swept, ownerAt, clientPort, answer>>
        /\ seconds \in Nat
    BY DEF LookUp, machineVars, OwnerInv, OwnerTypeOK
  <1>2. PICK why \in {"expired", "missed"} : BeginSweep(c, why)
    BY DEF LookUp
  <1>3. /\ sweep'.by = c /\ sweep'.stage = "lsof" /\ sweep'.why = why
        /\ sweep'.found = NoOwners /\ sweep'.some = FALSE
        /\ ownerLast' = seconds
    BY <1>2, BeginSweepType DEF OwnerInv
  <1>4. OwnerTypeOK'
    BY <1>1, <1>3, NothingOwned DEF OwnerInv, OwnerTypeOK
  <1>5. MapIsFrom(sweep.found, ownerLast)'
    BY <1>3, NothingOwned DEF MapIsFrom
  <1>6. seconds' - ownerLast' <= LsofTimeout
    BY <1>1, <1>3, OwnerAssumption
  <1> QED
    BY <1>1, <1>3, <1>4, <1>5, <1>6 DEF OwnerInv, MapIsFrom, HeldSince, OwnerIsRecent

\* An answer from a map whose processes held their ports recently, or that is excused.
LEMMA AnswerInv ==
  ASSUME OwnerTypeOK, OwnerIsRecent, NEW c \in Askers, NEW map \in Owners,
         NEW failed \in BOOLEAN, Answer(c, map, failed),
         failed \/ \A p \in DOMAIN map : Recent(p, map[p])
  PROVE  /\ answer' \in [Askers -> [owner : Processes \cup {Nobody}, recent : BOOLEAN,
                                    failed : BOOLEAN]]
         /\ OwnerIsRecent'
  <1> DEFINE p == clientPort[c]
             known == [owner |-> map[p], recent |-> Recent(p, map[p]), failed |-> failed]
             unknown == [owner |-> Nobody, recent |-> TRUE, failed |-> failed]
  <1>1. Knows(map, c) => map[p] \in Processes \ {Self}
    BY OwnersAreOthers DEF Knows
  <1>2. answer' = [answer EXCEPT ![c] = IF Knows(map, c) THEN known ELSE unknown]
    BY DEF Answer
  <1>3. Recent(p, map[p]) \in BOOLEAN
    BY DEF Recent
  <1>4. CASE Knows(map, c)
    <2>1. answer' = [answer EXCEPT ![c] = known]
      BY <1>2, <1>4
    <2>2. known \in [owner : Processes \cup {Nobody}, recent : BOOLEAN, failed : BOOLEAN]
      BY <1>1, <1>3, <1>4
    <2>3. known.owner # Self /\ (known.recent \/ known.failed)
      BY <1>1, <1>4 DEF Knows
    <2> QED
      BY <2>1, <2>2, <2>3 DEF OwnerTypeOK, OwnerIsRecent
  <1>5. CASE ~Knows(map, c)
    <2>1. answer' = [answer EXCEPT ![c] = unknown]
      BY <1>2, <1>5
    <2>2. unknown.owner # Self /\ unknown.recent
      BY OwnerAssumption
    <2> QED
      BY <2>1, <2>2 DEF OwnerTypeOK, OwnerIsRecent
  <1> QED
    BY <1>4, <1>5

\* What was held in the time of the sweep, at most OwnerTTL ago, was held recently.
LEMMA HeldIsRecent ==
  ASSUME OwnerTypeOK, NEW p, NEW q, NEW t \in Int, HeldSince(p, q, t),
         seconds - t <= OwnerTTL + LsofTimeout
  PROVE  Recent(p, q)
  <1>1. CASE <<p, q>> \in sockets
    BY <1>1 DEF Recent
  <1>2. ASSUME NEW h \in past, h[1] = p, h[2] = q, h[3] >= t PROVE Recent(p, q)
    <2>1. h[3] \in Nat /\ seconds \in Nat
      BY DEF OwnerTypeOK
    <2>2. seconds - h[3] <= OwnerTTL + LsofTimeout
      BY <1>2, <2>1, OwnerAssumption
    <2> QED
      BY <1>2, <2>2 DEF Recent
  <1> QED
    BY <1>1, <1>2 DEF HeldSince

\* An answer without a sweep comes from a snapshot that is recent enough.
LEMMA AnswerKnownInv == ASSUME OwnerInv, NEW c \in Askers, AnswerKnown(c) PROVE OwnerInv'
  <1>1. /\ OwnerTypeOK /\ OwnerIsRecent
        /\ ownerMap \in Owners /\ seconds \in Nat /\ ownerAt \in Nat
    BY DEF OwnerInv, OwnerTypeOK
  <1>4. /\ UNCHANGED <<sockets, past, seconds, ownerMap, swept, ownerAt, ownerLast, sweep, clientPort>>
        /\ Answer(c, ownerMap, FALSE)
    BY DEF AnswerKnown, machineVars, sweepVars
  <1>5. seconds - ownerAt <= OwnerTTL
    BY <1>1, OwnerAssumption DEF AnswerKnown, Expired
  <1>2. \A p \in DOMAIN ownerMap : Recent(p, ownerMap[p])
    <2> SUFFICES ASSUME NEW p \in DOMAIN ownerMap PROVE Recent(p, ownerMap[p])
      OBVIOUS
    <2>1. HeldSince(p, ownerMap[p], ownerAt - LsofTimeout)
      BY DEF OwnerInv, MapIsFrom
    <2>2. /\ ownerAt - LsofTimeout \in Int
          /\ seconds - (ownerAt - LsofTimeout) <= OwnerTTL + LsofTimeout
      BY <1>1, <1>5, OwnerAssumption
    <2> QED
      BY <1>1, <2>1, <2>2, HeldIsRecent
  <1>3. /\ answer' \in [Askers -> [owner : Processes \cup {Nobody}, recent : BOOLEAN,
                                   failed : BOOLEAN]]
        /\ OwnerIsRecent'
    BY <1>1, <1>2, <1>4, AnswerInv
  <1> QED
    BY <1>3, <1>4 DEF OwnerInv, OwnerTypeOK, MapIsFrom, HeldSince

\* What lsof lists was held at the moment it looked.
LEMMA RunLsofInv == ASSUME OwnerInv, NEW c \in Askers, RunLsof(c) PROVE OwnerInv'
  <1>1. /\ UNCHANGED <<sockets, past, seconds, ownerMap, swept, ownerAt, ownerLast, clientPort, answer>>
        /\ sweep.stage = "lsof" /\ ownerLast \in Int
    BY DEF RunLsof, machineVars, OwnerInv, OwnerTypeOK
  <1>2. PICK m \in Listings, some \in BOOLEAN :
            sweep' = [sweep EXCEPT !.stage = "listed", !.found = m, !.some = some]
    BY DEF RunLsof
  <1>3. m \in Owners /\ MapIsFrom(m, ownerLast)
    BY <1>1, ListingsHeld
  <1>4. /\ sweep'.by = sweep.by /\ sweep'.why = sweep.why /\ sweep'.stage = "listed"
        /\ sweep'.found = m /\ sweep'.some = some
    BY <1>2 DEF OwnerInv, OwnerTypeOK
  <1> QED
    BY <1>1, <1>3, <1>4 DEF OwnerInv, OwnerTypeOK, MapIsFrom, HeldSince, OwnerIsRecent

\* What a sweep leaves in the map: what it listed, or, if that was nothing, what was there.
LEMMA StoredMap ==
  ASSUME OwnerInv, NEW c \in Askers, SweepEnds(c)
  PROVE  /\ UNCHANGED <<sockets, past, seconds, clientPort>>
         /\ swept' = TRUE
         /\ ownerMap' \in Owners /\ ownerAt' \in Nat /\ ownerAt' <= seconds
         /\ \A p \in DOMAIN ownerMap' : HeldSince(p, ownerMap'[p], ownerAt' - LsofTimeout)
         /\ sweep.some => \A p \in DOMAIN ownerMap' : Recent(p, ownerMap'[p])
  <1>1. /\ UNCHANGED <<sockets, past, seconds, clientPort>> /\ swept' = TRUE
        /\ sweep.stage = "listed" /\ StoreSweep
    BY DEF SweepEnds, StoreSweep, machineVars
  <1>2. /\ OwnerTypeOK /\ seconds \in Nat /\ ownerAt \in Nat /\ ownerLast \in Nat
        /\ ownerMap \in Owners /\ sweep.found \in Owners
    BY DEF OwnerInv, OwnerTypeOK
  <1>3. seconds - ownerLast <= LsofTimeout /\ MapIsFrom(sweep.found, ownerLast)
    BY <1>1 DEF OwnerInv
  <1>4. CASE sweep.some \/ ~swept
    <2>1. ownerMap' = sweep.found /\ ownerAt' = seconds
      BY <1>1, <1>4 DEF StoreSweep
    <2>2. \A p \in DOMAIN sweep.found : HeldSince(p, sweep.found[p], seconds - LsofTimeout)
      <3>1. \A h \in past : h[3] \in Nat
        BY <1>2 DEF OwnerTypeOK
      <3>2. \A h \in past : h[3] >= ownerLast => h[3] >= seconds - LsofTimeout
        BY <3>1, <1>2, <1>3, OwnerAssumption
      <3> QED
        BY <1>3, <3>2 DEF MapIsFrom, HeldSince
    <2>3. \A p \in DOMAIN sweep.found : Recent(p, sweep.found[p])
      <3>1. ownerLast \in Int /\ seconds - ownerLast <= OwnerTTL + LsofTimeout
        BY <1>2, <1>3, OwnerAssumption
      <3> QED
        BY <1>2, <1>3, <3>1, HeldIsRecent DEF MapIsFrom
    <2> QED
      BY <1>1, <1>2, <2>1, <2>2, <2>3
  <1>5. CASE ~(sweep.some \/ ~swept)
    <2>1. ownerMap' = ownerMap /\ ownerAt' = ownerAt /\ sweep.some # TRUE
      BY <1>1, <1>5 DEF StoreSweep
    <2> QED
      BY <1>1, <1>2, <1>5, <2>1 DEF OwnerInv, MapIsFrom
  <1> QED
    BY <1>4, <1>5

\* A second sweep of one lookup begins as the first did.
LEMMA SweepAgainInv == ASSUME OwnerInv, NEW c \in Askers, SweepAgain(c) PROVE OwnerInv'
  <1>1. /\ UNCHANGED <<sockets, past, seconds, clientPort>>
        /\ swept' = TRUE
        /\ ownerMap' \in Owners /\ ownerAt' \in Nat /\ ownerAt' <= seconds
        /\ \A p \in DOMAIN ownerMap' : HeldSince(p, ownerMap'[p], ownerAt' - LsofTimeout)
    BY StoredMap DEF SweepAgain
  <1>2. /\ sweep'.by = c /\ sweep'.stage = "lsof" /\ sweep'.why = "missed"
        /\ sweep'.found = NoOwners /\ sweep'.some = FALSE
        /\ ownerLast' = seconds
    BY BeginSweepType DEF SweepAgain, OwnerInv
  <1>3. answer' = answer /\ seconds \in Nat
    BY DEF SweepAgain, OwnerInv, OwnerTypeOK
  <1>4. OwnerTypeOK'
    BY <1>1, <1>2, <1>3, NothingOwned DEF OwnerInv, OwnerTypeOK
  <1>5. MapIsFrom(sweep.found, ownerLast)'
    BY <1>2, NothingOwned DEF MapIsFrom
  <1>6. seconds' - ownerLast' <= LsofTimeout
    BY <1>1, <1>2, <1>3, OwnerAssumption
  <1> QED
    BY <1>1, <1>2, <1>3, <1>4, <1>5, <1>6
       DEF OwnerInv, MapIsFrom, HeldSince, OwnerIsRecent

\* An answer after a sweep comes from what it stored, or the sweep brought nothing.
LEMMA AnswerSweptInv == ASSUME OwnerInv, NEW c \in Askers, AnswerSwept(c) PROVE OwnerInv'
  <1>1. /\ UNCHANGED <<sockets, past, seconds, clientPort>>
        /\ swept' = TRUE
        /\ ownerMap' \in Owners /\ ownerAt' \in Nat /\ ownerAt' <= seconds
        /\ \A p \in DOMAIN ownerMap' : HeldSince(p, ownerMap'[p], ownerAt' - LsofTimeout)
        /\ sweep.some => \A p \in DOMAIN ownerMap' : Recent(p, ownerMap'[p])
    BY StoredMap DEF AnswerSwept
  <1>2. Answer(c, ownerMap', ~sweep.some) /\ sweep' = NoSweep /\ ownerLast' = ownerLast
    BY DEF AnswerSwept
  <1>3. OwnerTypeOK /\ OwnerIsRecent /\ sweep.some \in BOOLEAN /\ (~sweep.some) \in BOOLEAN
    BY DEF OwnerInv, OwnerTypeOK
  <1>4. ~sweep.some \/ \A p \in DOMAIN ownerMap' : Recent(p, ownerMap'[p])
    BY <1>1
  <1>5. /\ answer' \in [Askers -> [owner : Processes \cup {Nobody}, recent : BOOLEAN,
                                   failed : BOOLEAN]]
        /\ OwnerIsRecent'
    BY <1>1, <1>2, <1>3, <1>4, AnswerInv
  <1>6. OwnerTypeOK'
    BY <1>1, <1>2, <1>5, NothingOwned DEF OwnerInv, OwnerTypeOK, NoSweep
  <1> QED
    BY <1>1, <1>2, <1>5, <1>6 DEF OwnerInv, NoSweep, MapIsFrom, HeldSince

-----------------------------------------------------------------------------
(* The proxy. *)

\* What leaves sockets, map and sweep alone keeps OwnerInv.
LEMMA OwnerUnchanged == OwnerInv /\ UNCHANGED ownerVars => OwnerInv'
  BY DEF OwnerInv, OwnerTypeOK, ownerVars, sweepVars, MapIsFrom, HeldSince, OwnerIsRecent

\* Every step of Proxy keeps OwnerInv.
LEMMA OwnerStepInv == OwnerInv /\ [ProxyNext]_proxyVars => OwnerInv'
  <1> SUFFICES ASSUME OwnerInv, [ProxyNext]_proxyVars PROVE OwnerInv'
    OBVIOUS
  <1>1. ASSUME NEW c \in Conns, Attribute(c) PROVE OwnerInv'
    BY <1>1, ProxyAssumption, LookUpInv, RunLsofInv, SweepAgainInv DEF Attribute
  <1>2. ASSUME NEW c \in Conns, Identify(c) PROVE OwnerInv'
    BY <1>2, ProxyAssumption, AnswerKnownInv, AnswerSweptInv DEF Identify
  <1>3. ASSUME Move PROVE OwnerInv'
    BY <1>3, MoveInv DEF Move
  <1>4. ASSUME Second PROVE OwnerInv'
    BY <1>4, SecondInv DEF Second
  <1>5. ASSUME NEW c \in Conns, AcceptFrom(c) \/ Continue(c) \/ Goes(c) PROVE OwnerInv'
    BY <1>5, OwnerUnchanged DEF AcceptFrom, Continue, Goes
  <1>6. ASSUME Days \/ Quiet \/ UNCHANGED proxyVars PROVE OwnerInv'
    BY <1>6, OwnerUnchanged DEF Days, Quiet, proxyVars
  <1> QED
    BY <1>1, <1>2, <1>3, <1>4, <1>5, <1>6 DEF ProxyNext, ProxyHandle

\* A connection is attributed to a process that held its port at most ownerTTL and the
\* time of a sweep ago, and never to the proxy itself, unless the lookup's own sweep
\* brought nothing (portOwner): for any ports, processes and times.
THEOREM OwnerIsAlwaysRecent == ProxySpec => []OwnerIsRecent
  <1>1. ProxyInit => OwnerInv
    BY OwnerInitInv DEF ProxyInit
  <1>2. OwnerInv /\ [ProxyNext]_proxyVars => OwnerInv'
    BY OwnerStepInv
  <1>3. OwnerInv => OwnerIsRecent
    BY DEF OwnerInv
  <1> QED
    BY <1>1, <1>2, <1>3, PTL DEF ProxySpec

\* Every step of Proxy is a step of Tunnel or leaves it alone.
LEMMA ProxyStepIsTunnelStep == [ProxyNext]_proxyVars => [Next]_vars
  BY DEF ProxyNext, ProxyHandle, AcceptFrom, Attribute, Identify, Continue, Goes, Days,
         Move, Second, Quiet, proxyVars, Next, Handle

\* The proxy's connections, attributed as they are, are those of Tunnel: what is proved
\* of them (leaves that are valid, ends that are told and tidy) holds of the proxy.
THEOREM ProxyIsSafe ==
    ProxySpec => [](TypeOK /\ OrderListsCache /\ ServedIsValid /\ Accounted /\ EndsTidy)
  <1>1. ProxyInit => LeafInv /\ TunnelInv
    BY LeafInitInv, TunnelInitInv DEF ProxyInit, Init
  <1>2. LeafInv /\ TunnelInv /\ [ProxyNext]_proxyVars => (LeafInv /\ TunnelInv)'
    BY ProxyStepIsTunnelStep, TunnelStepIsLeafStep, LeafNextInv, TunnelNextInv DEF LeafInv
  <1>3. LeafInv /\ TunnelInv
           => TypeOK /\ OrderListsCache /\ ServedIsValid /\ Accounted /\ EndsTidy
    <2> SUFFICES ASSUME LeafInv, TunnelInv
                 PROVE  TypeOK /\ OrderListsCache /\ ServedIsValid /\ Accounted /\ EndsTidy
      OBVIOUS
    <2>1. TypeOK
      BY DEF LeafInv, TunnelInv, TunnelTypeOK, TypeOK
    <2>2. OrderListsCache /\ ServedIsValid
      BY InvServes DEF LeafInv
    <2>3. Accounted
      BY DEF TunnelInv, Stories, Story, Numbered, Accounted, At
    <2>4. EndsTidy
      BY DEF TunnelInv, Stories, Story, EndsTidy, At
    <2> QED
      BY <2>1, <2>2, <2>3, <2>4
  <1> QED
    BY <1>1, <1>2, <1>3, PTL DEF ProxySpec

-----------------------------------------------------------------------------
(* Every connection of the proxy ends, once it is its turn to be attributed. *)

\* The goroutine of c holds ownerMu and is in the middle of a sweep.
Holds(c) == sweep.stage # "none" /\ sweep.by = c

\* A sweep is that of a connection which is being identified, and has its reason.
SweepIsOnes == sweep.stage # "none" => /\ sweep.why \in {"expired", "missed"}
                                       /\ \A c \in Conns : sweep.by = c => At(c, "identify")

\* The steps a connection has left, at most, when it is its turn: a lookup sweeps at most
\* twice.
TurnsLeft(c) ==
    CASE At(c, "identify") /\ sweep.stage = "lsof" /\ sweep.why = "expired" -> 16
      [] At(c, "identify") /\ sweep.stage = "listed" /\ sweep.why = "expired" -> 15
      [] At(c, "identify") /\ sweep.stage = "lsof" /\ sweep.why = "missed" -> 14
      [] At(c, "identify") /\ sweep.stage = "listed" /\ sweep.why = "missed" -> 13
      [] OTHER -> StepsLeft(c)

\* It is its turn, or it was, and it has at most n steps left.
WithinTurns(c, n) == /\ Holds(c) \/ handler[c] \notin {"idle", "identify"}
                     /\ TurnsLeft(c) <= n

\* What ProxyHandle(c) needs, past the wait for ownerMu.
ProxyGuard(c) == Holds(c) \/ (handler[c] # "identify" /\ HandleGuard(c))

ProxyGuardIsEnabled(c) == ProxyGuard(c) => ENABLED <<ProxyHandle(c)>>_proxyVars

\* A step of a lookup is taken by the goroutine that is at it.
LEMMA LookupSteps ==
  ASSUME OwnerTypeOK, NEW c \in Conns, LookUp(c) \/ RunLsof(c) \/ SweepAgain(c)
  PROVE  /\ sweep'.by = c /\ sweep'.stage # "none" /\ sweep'.why \in {"expired", "missed", sweep.why}
         /\ sweep.stage = "none" \/ sweep.by = c
         /\ sweep.stage # "none" => \/ /\ sweep.stage = "lsof" /\ sweep'.stage = "listed"
                                       /\ sweep'.why = sweep.why
                                    \/ /\ sweep.stage = "listed" /\ sweep.why = "expired"
                                       /\ sweep'.stage = "lsof" /\ sweep'.why = "missed"
         /\ sweep.stage = "none" => sweep'.why \in {"expired", "missed"}
  <1>0. c \in Askers
    BY ProxyAssumption
  <1>1. CASE LookUp(c)
    <2>1. PICK why \in {"expired", "missed"} : BeginSweep(c, why)
      BY <1>1 DEF LookUp
    <2> QED
      BY <1>0, <1>1, <2>1, BeginSweepType DEF LookUp, LockFree
  <1>2. CASE RunLsof(c)
    <2>1. PICK m \in Listings, some \in BOOLEAN :
              sweep' = [sweep EXCEPT !.stage = "listed", !.found = m, !.some = some]
      BY <1>2 DEF RunLsof
    <2>2. sweep'.by = sweep.by /\ sweep'.why = sweep.why /\ sweep'.stage = "listed"
      BY <2>1 DEF OwnerTypeOK
    <2> QED
      BY <1>2, <2>2 DEF RunLsof
  <1>3. CASE SweepAgain(c)
    <2>1. BeginSweep(c, "missed")
      BY <1>3 DEF SweepAgain
    <2> QED
      BY <1>0, <1>3, <2>1, BeginSweepType DEF SweepAgain, SweepEnds
  <1> QED
    BY <1>1, <1>2, <1>3

\* What is not a step of a lookup leaves the sweep alone, or ends it and numbers the
\* connection that made it.
LEMMA IdentifySteps ==
  ASSUME LeafTypeOK, TunnelInv, NEW c \in Conns, Identify(c)
  PROVE  /\ handler[c] = "identify" /\ handler'[c] = "connect"
         /\ \A d \in Conns : d # c => handler'[d] = handler[d]
         /\ \/ sweep.stage = "none" /\ sweep' = sweep
            \/ sweep.by = c /\ sweep'.stage = "none"
  <1>1. NextConnID(c)
    BY DEF Identify
  <1>2. handler[c] = "identify" /\ handler'[c] = "connect"
    BY <1>1 DEF NextConnID, At, Goto, TunnelInv, TunnelTypeOK
  <1>3. \A d \in Conns : d # c => handler'[d] = handler[d]
    BY <1>1, OthersStay DEF Handle
  <1>4. CASE AnswerKnown(c)
    BY <1>2, <1>3, <1>4 DEF AnswerKnown, LockFree, sweepVars
  <1>5. CASE AnswerSwept(c)
    BY <1>2, <1>3, <1>5 DEF AnswerSwept, SweepEnds, NoSweep
  <1> QED
    BY <1>4, <1>5 DEF Identify

\* Every other step leaves the sweep alone, and whoever is being identified.
LEMMA OtherSteps ==
  ASSUME LeafTypeOK, TunnelInv, [ProxyNext]_proxyVars,
         \A c \in Conns : ~Attribute(c) /\ ~Identify(c)
  PROVE  /\ sweep' = sweep
         /\ \A c \in Conns : handler[c] = "identify" => handler'[c] = "identify"
  <1>1. ASSUME NEW c \in Conns, AcceptFrom(c) \/ Continue(c) \/ Goes(c)
        PROVE  /\ sweep' = sweep
               /\ \A d \in Conns : handler[d] = "identify" => handler'[d] = "identify"
    <2>1. sweep' = sweep
      BY <1>1 DEF AcceptFrom, Continue, Goes, ownerVars, sweepVars
    <2>2. Accept(c) \/ Handle(c) \/ PeerStep(c) \/ RelayOpaque(c) \/ Panic(c)
      BY <1>1 DEF AcceptFrom, Continue, Goes
    <2>3. handler[c] # "identify"
      BY <1>1 DEF AcceptFrom, Continue, Goes, Accept, At, PeerStep, PeekRecord, BypassDone,
                  RelayDone, RelayOpaque, Panic
    <2> QED
      BY <2>1, <2>2, <2>3, OthersStay
  <1>2. ASSUME Days \/ Quiet \/ UNCHANGED proxyVars PROVE UNCHANGED <<sweep, handler>>
    BY <1>2 DEF Days, Quiet, proxyVars, ownerVars, sweepVars, vars, tunnelVars
  <1>3. ASSUME Move \/ Second PROVE UNCHANGED <<sweep, handler>>
    BY <1>3 DEF Move, Opens, Closes, Second, SecondPasses, sweepVars, vars, tunnelVars
  <1> QED
    BY <1>1, <1>2, <1>3 DEF ProxyNext, ProxyHandle

\* Only a connection that is being identified ever holds ownerMu.
LEMMA SweepIsOnesNext ==
  ASSUME LeafTypeOK, TunnelInv, OwnerTypeOK, SweepIsOnes, [ProxyNext]_proxyVars
  PROVE  SweepIsOnes'
  <1>1. ASSUME NEW c \in Conns, Attribute(c) PROVE SweepIsOnes'
    <2>1. handler[c] = "identify" /\ handler' = handler
      BY <1>1 DEF Attribute, At, vars, tunnelVars
    <2>2. sweep'.by = c /\ sweep'.why \in {"expired", "missed"}
      BY <1>1, LookupSteps DEF Attribute, SweepIsOnes
    <2> QED
      BY <2>1, <2>2 DEF SweepIsOnes, At
  <1>2. ASSUME NEW c \in Conns, Identify(c) PROVE SweepIsOnes'
    BY <1>2, IdentifySteps DEF SweepIsOnes, At
  <1>3. ASSUME \A c \in Conns : ~Attribute(c) /\ ~Identify(c) PROVE SweepIsOnes'
    BY <1>3, OtherSteps DEF SweepIsOnes, At
  <1> QED
    BY <1>1, <1>2, <1>3

\* While a connection holds ownerMu it goes on with its lookup, or everything waits.
LEMMA HolderSteps ==
  ASSUME LeafTypeOK, TunnelInv, OwnerTypeOK, SweepIsOnes, [ProxyNext]_proxyVars,
         NEW c \in Conns, Holds(c)
  PROVE  \/ Attribute(c) /\ handler'[c] = "identify"
         \/ handler'[c] = "connect"
         \/ sweep' = sweep /\ handler'[c] = "identify"
  <1>0. handler[c] = "identify" /\ sweep.by = c /\ sweep.stage # "none"
    BY DEF SweepIsOnes, Holds, At
  <1>1. ASSUME NEW d \in Conns, Attribute(d) PROVE d = c /\ handler' = handler
    <2>1. sweep.by = d
      BY <1>0, <1>1, LookupSteps DEF Attribute
    <2> QED
      BY <1>0, <1>1, <2>1 DEF Attribute, vars, tunnelVars
  <1>2. ASSUME NEW d \in Conns, Identify(d) PROVE handler'[c] = "connect"
    BY <1>0, <1>2, IdentifySteps
  <1>3. ASSUME \A d \in Conns : ~Attribute(d) /\ ~Identify(d)
        PROVE  sweep' = sweep /\ handler'[c] = "identify"
    BY <1>0, <1>3, OtherSteps
  <1> QED
    BY <1>0, <1>1, <1>2, <1>3

\* Its turn does not pass before it ends, and the steps it has left never grow.
LEMMA TurnsNeverAscend ==
  ASSUME LeafTypeOK, TunnelInv, InCall, OwnerTypeOK, SweepIsOnes, [ProxyNext]_proxyVars,
         NEW c \in Conns, Holds(c) \/ handler[c] \notin {"idle", "identify"}
  PROVE  /\ (Holds(c) \/ handler[c] \notin {"idle", "identify"})'
         /\ TurnsLeft(c)' <= TurnsLeft(c)
         /\ ProxyHandle(c) => TurnsLeft(c)' < TurnsLeft(c)
  <1>1. CASE Holds(c)
    <2>0. /\ handler[c] = "identify" /\ sweep.by = c /\ sweep.stage \in {"lsof", "listed"}
          /\ sweep.why \in {"expired", "missed"}
      BY <1>1 DEF SweepIsOnes, Holds, At, OwnerTypeOK
    <2>1. TurnsLeft(c) \in 13 .. 16
      BY <2>0 DEF TurnsLeft, At
    <2>2. CASE Attribute(c) /\ handler'[c] = "identify"
      <3>1. LookUp(c) \/ RunLsof(c) \/ SweepAgain(c)
        BY <2>2 DEF Attribute
      <3>2. /\ sweep'.by = c /\ sweep'.stage # "none"
            /\ \/ /\ sweep.stage = "lsof" /\ sweep'.stage = "listed" /\ sweep'.why = sweep.why
               \/ /\ sweep.stage = "listed" /\ sweep.why = "expired"
                  /\ sweep'.stage = "lsof" /\ sweep'.why = "missed"
        BY <2>0, <3>1, LookupSteps
      <3>3. Holds(c)'
        BY <3>2 DEF Holds
      <3>4. TurnsLeft(c)' < TurnsLeft(c)
        BY <2>0, <2>2, <3>2 DEF TurnsLeft, At
      <3>5. TurnsLeft(c)' \in 13 .. 16
        BY <2>0, <2>2, <3>2 DEF TurnsLeft, At
      <3> QED
        BY <2>1, <3>3, <3>4, <3>5
    <2>3. CASE handler'[c] = "connect"
      <3>1. TurnsLeft(c)' = 11
        BY <2>3 DEF TurnsLeft, At, StepsLeft
      <3> QED
        BY <2>1, <2>3, <3>1
    <2>4. CASE ~Attribute(c) /\ sweep' = sweep /\ handler'[c] = "identify"
      <3>1. TurnsLeft(c)' = TurnsLeft(c) /\ Holds(c)'
        BY <2>0, <2>4 DEF TurnsLeft, At, Holds
      <3>2. ~ProxyHandle(c)
        <4>1. ~Identify(c)
          BY <2>4, IdentifySteps
        <4>2. ~Continue(c)
          BY <2>0 DEF Continue, At
        <4> QED
          BY <2>4, <4>1, <4>2 DEF ProxyHandle
      <3> QED
        BY <2>1, <3>1, <3>2
    <2> QED
      BY <1>1, <2>2, <2>3, <2>4, HolderSteps
  <1>2. CASE handler[c] \notin {"idle", "identify"}
    <2>0. [Next]_vars
      BY ProxyStepIsTunnelStep
    <2>1. StepsLeft(c) \in 0 .. 11 /\ StepsLeft(c)' \in 0 .. 12
      BY <1>2 DEF StepsLeft
    <2>2. handler'[c] # "idle" /\ StepsLeft(c)' <= StepsLeft(c)
      BY <1>2, <2>0, NeverAscends
    <2>3. handler'[c] # "identify"
      BY <2>1, <2>2 DEF StepsLeft
    <2>4. TurnsLeft(c) = StepsLeft(c) /\ TurnsLeft(c)' = StepsLeft(c)'
      BY <1>2, <2>3 DEF TurnsLeft, At
    <2>5. ProxyHandle(c) => StepsLeft(c)' < StepsLeft(c)
      <3>1. ~Attribute(c)
        BY <1>2 DEF Attribute, At
      <3>2. ~Identify(c)
        BY <1>2, IdentifySteps
      <3>3. Continue(c) => StepsLeft(c)' < StepsLeft(c)
        BY HandleDescends DEF Continue
      <3> QED
        BY <3>1, <3>2, <3>3 DEF ProxyHandle
    <2> QED
      BY <2>2, <2>3, <2>4, <2>5
  <1> QED
    BY <1>1, <1>2

\* The invariants hold throughout.
LEMMA ProxyInvHolds ==
    ProxySpec => [](LeafTypeOK /\ TunnelInv /\ InCall /\ OwnerTypeOK /\ SweepIsOnes)
  <1> DEFINE I == LeafInv /\ TunnelInv /\ InCall /\ OwnerInv /\ SweepIsOnes
  <1>1. ProxyInit => I
    <2>1. ProxyInit => LeafInv /\ TunnelInv /\ OwnerInv
      BY LeafInitInv, TunnelInitInv, OwnerInitInv DEF ProxyInit, Init
    <2>2. ProxyInit => InCall
      BY DEF ProxyInit, Init, LeafInit, InCall
    <2>3. ProxyInit => SweepIsOnes
      BY DEF ProxyInit, OwnerInit, NoSweep, SweepIsOnes
    <2> QED
      BY <2>1, <2>2, <2>3
  <1>2. I /\ [ProxyNext]_proxyVars => I'
    <2> SUFFICES ASSUME I, [ProxyNext]_proxyVars PROVE I'
      OBVIOUS
    <2>1. [Next]_vars /\ LeafTypeOK /\ OwnerTypeOK
      BY ProxyStepIsTunnelStep DEF LeafInv, OwnerInv
    <2>2. LeafInv' /\ TunnelInv'
      BY <2>1, TunnelStepIsLeafStep, LeafNextInv, TunnelNextInv
    <2>3. InCall'
      BY <2>1, InCallNext
    <2>4. OwnerInv'
      BY OwnerStepInv
    <2>5. SweepIsOnes'
      BY <2>1, SweepIsOnesNext
    <2> QED
      BY <2>2, <2>3, <2>4, <2>5
  <1>3. I => LeafTypeOK /\ TunnelInv /\ InCall /\ OwnerTypeOK /\ SweepIsOnes
    BY DEF LeafInv, OwnerInv
  <1> QED
    BY <1>1, <1>2, <1>3, PTL DEF ProxySpec

\* The goroutine of c goes on as the specification's fairness has it.
ProxyRuns(c) ==
    /\ [](LeafTypeOK /\ TunnelInv /\ InCall /\ OwnerTypeOK /\ SweepIsOnes)
    /\ []ProxyGuardIsEnabled(c)
    /\ [][ProxyNext]_proxyVars /\ ProxyIsFair(c)

\* Once it has at most n steps left it comes to have at most m, or waits for ever.
TurnsDescend(c, n, m) == WithinTurns(c, n) ~> (WithinTurns(c, m) \/ []WaitsForPeer(c))

\* One step at a time is taken, whatever the others do.
LEMMA OneTurnOn ==
  ASSUME NEW c \in Conns, NEW n \in Nat, NEW m \in Nat, n = m + 1
  PROVE  ProxyRuns(c) => TurnsDescend(c, n, m)
  <1> DEFINE I == LeafTypeOK /\ TunnelInv /\ InCall /\ OwnerTypeOK /\ SweepIsOnes
  <1>0. TurnsLeft(c) \in 0 .. 16 /\ TurnsLeft(c)' \in 0 .. 16
    BY DEF TurnsLeft, StepsLeft
  <1>1. I /\ WithinTurns(c, n) /\ [ProxyNext]_proxyVars => WithinTurns(c, n)'
    BY <1>0, TurnsNeverAscend DEF WithinTurns
  <1>2. I /\ WithinTurns(c, n) /\ [ProxyNext]_proxyVars /\ <<ProxyHandle(c)>>_proxyVars
           => WithinTurns(c, m)'
    BY <1>0, TurnsNeverAscend DEF WithinTurns
  <1>3. I /\ WithinTurns(c, n) =>
           \/ WithinTurns(c, m)
           \/ IF n \in {1, 8} THEN WaitsForPeer(c) ELSE ProxyGuard(c)
    <2> SUFFICES ASSUME I, WithinTurns(c, n), ~WithinTurns(c, m)
                 PROVE  IF n \in {1, 8} THEN WaitsForPeer(c) ELSE ProxyGuard(c)
      OBVIOUS
    <2>0. TurnsLeft(c) = n
      BY <1>0 DEF WithinTurns
    <2>1. CASE Holds(c)
      <3>1. TurnsLeft(c) \in 13 .. 16
        BY <2>1 DEF Holds, SweepIsOnes, OwnerTypeOK, TurnsLeft
      <3> QED
        BY <2>0, <2>1, <3>1 DEF ProxyGuard
    <2>2. CASE ~Holds(c)
      <3>1. handler[c] \notin {"idle", "identify"}
        BY <2>2 DEF WithinTurns
      <3>2. TurnsLeft(c) = StepsLeft(c)
        BY <3>1 DEF TurnsLeft, At
      <3>3. handler[c] # "done"
        BY <2>0, <3>2 DEF StepsLeft
      <3>4. /\ WaitsForPeer(c) <=> StepsLeft(c) \in {1, 8}
            /\ HandleGuard(c) \/ WaitsForPeer(c)
        BY <3>1, <3>3, GuardHolds
      <3> QED
        BY <2>0, <3>1, <3>2, <3>4 DEF ProxyGuard
    <2> QED
      BY <2>1, <2>2
  <1>4. CASE n \in {1, 8}
    <2>1. I /\ WithinTurns(c, n) => WithinTurns(c, m) \/ WaitsForPeer(c)
      BY <1>3, <1>4
    <2> QED
      BY <1>1, <2>1, PTL DEF ProxyRuns, TurnsDescend
  <1>5. CASE n \notin {1, 8}
    <2>1. I /\ WithinTurns(c, n) => WithinTurns(c, m) \/ ProxyGuard(c)
      BY <1>3, <1>5
    <2> QED
      BY <1>1, <1>2, <2>1, PTL DEF ProxyGuardIsEnabled, ProxyRuns, ProxyIsFair, TurnsDescend
  <1> QED
    BY <1>4, <1>5

\* It is its turn: it holds ownerMu, or was given its number.
HasTurn(c) == Holds(c) \/ At(c, "connect")

\* A connection that holds ownerMu gives it up, and one that was numbered ends, or waits for
\* ever for one of its peers.
GoesOn(c) == HasTurn(c) ~> (At(c, "done") \/ []WaitsForPeer(c))

\* From the moment it holds ownerMu sixteen steps suffice.
LEMMA TurnEnds ==
  ASSUME NEW c \in Conns
  PROVE  ProxyRuns(c) => GoesOn(c)
  <1>1. ProxyRuns(c) => /\ TurnsDescend(c, 16, 15)
                        /\ TurnsDescend(c, 15, 14) /\ TurnsDescend(c, 14, 13)
                        /\ TurnsDescend(c, 13, 12) /\ TurnsDescend(c, 12, 11)
                        /\ TurnsDescend(c, 11, 10) /\ TurnsDescend(c, 10, 9)
                        /\ TurnsDescend(c, 9, 8) /\ TurnsDescend(c, 8, 7)
                        /\ TurnsDescend(c, 7, 6) /\ TurnsDescend(c, 6, 5)
                        /\ TurnsDescend(c, 5, 4) /\ TurnsDescend(c, 4, 3)
                        /\ TurnsDescend(c, 3, 2) /\ TurnsDescend(c, 2, 1)
                        /\ TurnsDescend(c, 1, 0)
    BY OneTurnOn
  <1>2. HasTurn(c) => WithinTurns(c, 16)
    BY DEF HasTurn, At, WithinTurns, TurnsLeft, StepsLeft
  <1>3. LeafTypeOK /\ TunnelInv /\ InCall /\ OwnerTypeOK /\ SweepIsOnes /\ WithinTurns(c, 0)
           => At(c, "done")
    <2> SUFFICES ASSUME LeafTypeOK, TunnelInv, InCall, OwnerTypeOK, SweepIsOnes,
                        WithinTurns(c, 0), handler[c] # "done"
                 PROVE  FALSE
      BY DEF At
    <2>1. ~Holds(c)
      BY DEF WithinTurns, TurnsLeft, Holds, SweepIsOnes, At, OwnerTypeOK
    <2>2. handler[c] \notin {"idle", "identify"} /\ TurnsLeft(c) = StepsLeft(c)
      BY <2>1 DEF WithinTurns, TurnsLeft, At
    <2> QED
      BY <2>2, GuardHolds DEF WithinTurns
  <1> QED
    BY <1>1, <1>2, <1>3, PTL DEF ProxyRuns, TurnsDescend, GoesOn

\* The same of the proxy, whatever sockets come and go and however often lsof fails: whoever
\* holds the mutex of the lookups gives it up after at most two sweeps (WaitsForPeer is past
\* it) and, as whoever was numbered, ends or waits for ever for its client or its upstream.
THEOREM EveryLookupEnds ==
    ProxySpec /\ [](\A c \in Conns : ProxyGuardIsEnabled(c)) => \A c \in Conns : GoesOn(c)
  <1> DEFINE Given == ProxySpec /\ [](\A c \in Conns : ProxyGuardIsEnabled(c))
  <1>1. ASSUME NEW d \in Conns PROVE Given => GoesOn(d)
    <2>1. (\A c \in Conns : ProxyGuardIsEnabled(c)) => ProxyGuardIsEnabled(d)
      OBVIOUS
    <2>2. ProxySpec => ProxyIsFair(d)
      BY DEF ProxySpec
    <2>3. ProxyRuns(d) => GoesOn(d)
      BY TurnEnds
    <2>4. ProxySpec => [][ProxyNext]_proxyVars
      BY PTL DEF ProxySpec
    <2>5. [](\A c \in Conns : ProxyGuardIsEnabled(c)) => []ProxyGuardIsEnabled(d)
      BY <2>1, PTL
    <2>6. Given => [](LeafTypeOK /\ TunnelInv /\ InCall /\ OwnerTypeOK /\ SweepIsOnes)
      BY ProxyInvHolds, PTL
    <2>7. Given => []ProxyGuardIsEnabled(d)
      BY <2>5, PTL
    <2>8. Given => ProxyIsFair(d)
      BY <2>2, PTL
    <2>9. Given => ProxyRuns(d)
      BY <2>6, <2>7, <2>8, <2>4, PTL DEF ProxyRuns
    <2> QED
      BY <2>9, <2>3
  <1> HIDE DEF Given
  <1>2. Given => \A c \in Conns : GoesOn(c)
    BY <1>1
  <1> QED
    BY <1>2 DEF Given
============================================================================
