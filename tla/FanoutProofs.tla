---------------------------- MODULE FanoutProofs ----------------------------
(***************************************************************************)
(* Proofs about the outputs of an intercept session.                       *)
(***************************************************************************)
EXTENDS Fanout, FoldLemmas

\* The variables the argument is about, and their types.
PartTypeOK == /\ readers \subseteq Readers
              /\ chClosed \in [Readers -> BOOLEAN]
              /\ server \in [Readers -> {"none", "receive", "write", "unregister", "close", "done"}]
              /\ conn \in [Readers -> {"none", "queued", "open", "closed"}]

\* A registered reader's channel is open; the channel of a console that is not
\* served yet was never closed; the console in acceptLoop's hand is not served;
\* and nobody is registered once the sink is closed.
Inv == /\ PartTypeOK
       /\ \A r \in readers : ~chClosed[r]
       /\ \A r \in Readers : conn[r] \in {"none", "queued"} => ~chClosed[r] /\ r \notin readers
       /\ \A r \in Readers : acceptor = [pc |-> "register", reader |-> r]
                                => /\ ~chClosed[r] /\ r \notin readers
                                   /\ conn[r] \notin {"none", "queued"}
       /\ closed => readers = {}
       /\ ~panicked

\* Inv holds before the first console comes.
LEMMA InitInv == Init => Inv
  BY DEF Init, Inv, PartTypeOK, NoReader

\* Every step of the sink keeps Inv.
LEMMA NextInv == Inv /\ [Next]_vars => Inv'
  <1> SUFFICES ASSUME Inv, [Next]_vars PROVE Inv'
    OBVIOUS
  <1> USE DEF Inv, PartTypeOK
  <1>1. ASSUME NEW r \in Readers, Connect(r) PROVE Inv'
    BY <1>1 DEF Connect, chanVars, serveVars
  <1>2. ASSUME NEW r \in Readers, Hangup(r) PROVE Inv'
    BY <1>2 DEF Hangup, chanVars, serveVars
  <1>3. ASSUME NEW r \in Readers, AcceptConn(r) PROVE Inv'
    <2>1. UNCHANGED <<readers, chClosed, server, closed, panicked>>
      BY <1>3 DEF AcceptConn, chanVars, serveVars
    <2>2. conn[r] = "queued" /\ conn' = [conn EXCEPT ![r] = "open"]
      BY <1>3 DEF AcceptConn
    <2>3. acceptor'.reader = r
      BY <1>3 DEF AcceptConn
    <2>4. ASSUME NEW s \in Readers, acceptor' = [pc |-> "register", reader |-> s] PROVE s = r
      BY <2>3, <2>4
    <2>5. ~chClosed[r] /\ r \notin readers
      BY <2>2
    <2>6. \A s \in Readers : acceptor' = [pc |-> "register", reader |-> s]
                               => /\ ~chClosed[s] /\ s \notin readers
                                  /\ conn'[s] \notin {"none", "queued"}
      BY <2>2, <2>4, <2>5
    <2>7. /\ conn' \in [Readers -> {"none", "queued", "open", "closed"}]
          /\ \A s \in Readers : conn'[s] \in {"none", "queued"} => conn[s] \in {"none", "queued"}
      BY <2>2
    <2> QED
      BY <2>1, <2>6, <2>7
  <1>4. CASE AcceptError
    BY <1>4 DEF AcceptError, chanVars, serveVars
  <1>5. ASSUME NEW r \in Readers, Register(r) PROVE Inv'
    <2>1. /\ acceptor = [pc |-> "register", reader |-> r]
          /\ acceptor'.pc # "register"
          /\ UNCHANGED <<chClosed, closed, panicked>>
      BY <1>5 DEF Register, chanVars
    <2>2. ~chClosed[r] /\ r \notin readers /\ conn[r] \notin {"none", "queued"}
      BY <2>1
    <2>3. \/ ~closed /\ readers' = readers \cup {r} /\ conn' = conn
             /\ server' = [server EXCEPT ![r] = "receive"]
          \/ conn' = [conn EXCEPT ![r] = "closed"] /\ UNCHANGED <<readers, server>>
      BY <1>5 DEF Register
    <2> QED
      BY <2>1, <2>2, <2>3
  <1>6. ASSUME NEW r \in Readers, Receive(r) PROVE Inv'
    BY <1>6 DEF Receive
  <1>7. ASSUME NEW r \in Readers, Write(r) \/ WriteFails(r) PROVE Inv'
    BY <1>7 DEF Write, WriteFails, chanVars
  <1>8. ASSUME NEW r \in Readers, Unregister(r) PROVE Inv'
    BY <1>8 DEF Unregister, chanVars
  <1>9. ASSUME NEW r \in Readers, CloseConn(r) PROVE Inv'
    BY <1>9 DEF CloseConn, chanVars
  <1>10. CASE Publish
    BY <1>10 DEF Publish, serveVars
  <1>11. CASE CloseReaders
    BY <1>11 DEF CloseReaders, serveVars
  <1>12. CASE CloseListener
    BY <1>12 DEF CloseListener, chanVars, serveVars
  <1>13. CASE UNCHANGED vars
    BY <1>13 DEF vars
  <1> QED
    BY <1>1, <1>2, <1>3, <1>4, <1>5, <1>6, <1>7, <1>8, <1>9, <1>10, <1>11, <1>12, <1>13
       DEF Next, AcceptLoop, AcceptFails, Serve, Finished

-----------------------------------------------------------------------------
(* Types. *)

\* How many consoles have no room is a number.
LEMMA FullCount == readers \subseteq Readers => Cardinality({r \in readers : Full(r)}) \in Nat
  <1> SUFFICES ASSUME readers \subseteq Readers
               PROVE  Cardinality({r \in readers : Full(r)}) \in Nat
    OBVIOUS
  <1>1. IsFiniteSet({r \in readers : Full(r)})
    BY BufferAssumption, FS_Subset
  <1> QED
    BY <1>1, FS_CardinalityType

\* A message moves from a channel to a console.
LEMMA Moved ==
  ASSUME NEW q \in Seq(Nat), NEW m \in Nat
  PROVE  /\ Append(q, m) \in Seq(Nat)
         /\ q # << >> => /\ q[1] \in Nat /\ Tail(q) \in Seq(Nat)
                        /\ Len(q) \in Nat /\ Len(Tail(q)) = Len(q) - 1
  <1>1. Append(q, m) \in Seq(Nat)
    OBVIOUS
  <1>2. ASSUME q # << >> PROVE q[1] \in Nat
    BY <1>2
  <1>3. ASSUME q # << >> PROVE Tail(q) \in Seq(Nat) /\ Len(q) \in Nat /\ Len(Tail(q)) = Len(q) - 1
    BY <1>3
  <1> QED
    BY <1>1, <1>2, <1>3

\* Every step keeps the types.
LEMMA TypeStep == TypeOK /\ [Next]_vars => TypeOK'
  <1> SUFFICES ASSUME TypeOK, [Next]_vars PROVE TypeOK'
    OBVIOUS
  <1> USE BufferAssumption DEF TypeOK, chanVars, serveVars, historyVars
  <1>1. ASSUME NEW r \in Readers, Connect(r) \/ Hangup(r) PROVE TypeOK'
    BY <1>1 DEF Connect, Hangup
  <1>2. ASSUME NEW r \in Readers, AcceptConn(r) \/ Register(r) PROVE TypeOK'
    <2>1. acceptor' \in [pc : {"accept", "register", "done"}, reader : Readers \cup {NoReader}]
      BY <1>2 DEF AcceptConn, Register
    <2>2. CASE AcceptConn(r)
      BY <2>1, <2>2 DEF AcceptConn
    <2>3. CASE Register(r)
      <3>1. CASE ~closed
        <4>1. /\ readers' = readers \cup {r}
              /\ server' = [server EXCEPT ![r] = "receive"]
              /\ joined' = [joined EXCEPT ![r] = published]
              /\ UNCHANGED <<conn, ch, chClosed, inHand, closed, closer, listening, dropped,
                             published, received, panicked>>
          BY <2>3, <3>1 DEF Register
        <4> QED
          BY <2>1, <4>1
      <3>2. CASE closed
        BY <2>1, <2>3, <3>2 DEF Register
      <3> QED
        BY <3>1, <3>2 DEF TypeOK
    <2> QED
      BY <1>2, <2>2, <2>3
  <1>3. ASSUME NEW r \in Readers, Receive(r) PROVE TypeOK'
    <2>1. CASE /\ ch[r] # << >>
               /\ inHand' = [inHand EXCEPT ![r] = ch[r][1]]
               /\ ch' = [ch EXCEPT ![r] = Tail(@)]
               /\ server' = [server EXCEPT ![r] = "write"]
      <3>1. ch[r] \in Seq(Nat) /\ Len(ch[r]) <= Buffer
        OBVIOUS
      <3>2. ch[r][1] \in Nat /\ Tail(ch[r]) \in Seq(Nat) /\ Len(Tail(ch[r])) <= Buffer
        <4>1. /\ ch[r][1] \in Nat /\ Tail(ch[r]) \in Seq(Nat)
              /\ Len(ch[r]) \in Nat /\ Len(Tail(ch[r])) = Len(ch[r]) - 1
          BY <2>1, <3>1, Moved
        <4> QED
          BY <3>1, <4>1
      <3> QED
        BY <1>3, <2>1, <3>2 DEF Receive
    <2>2. CASE server' = [server EXCEPT ![r] = "unregister"] /\ UNCHANGED <<ch, inHand>>
      BY <1>3, <2>2 DEF Receive
    <2> QED
      BY <1>3, <2>1, <2>2 DEF Receive
  <1>4. ASSUME NEW r \in Readers, Write(r) PROVE TypeOK'
    <2>1. Append(received[r], inHand[r]) \in Seq(Nat)
      BY Moved
    <2> QED
      BY <1>4, <2>1 DEF Write
  <1>5. ASSUME NEW r \in Readers, WriteFails(r) \/ Unregister(r) \/ CloseConn(r) PROVE TypeOK'
    <2>1. CASE WriteFails(r)
      BY <2>1 DEF WriteFails
    <2>2. CASE Unregister(r)
      BY <2>2 DEF Unregister
    <2>3. CASE CloseConn(r)
      BY <2>3 DEF CloseConn
    <2> QED
      BY <1>5, <2>1, <2>2, <2>3
  <1>6. CASE Publish
    <2>1. dropped' \in Nat /\ published' \in Nat
      BY <1>6, FullCount DEF Publish
    <2>2. ch' \in [Readers -> Seq(Nat)] /\ \A r \in Readers : Len(ch'[r]) <= Buffer
      <3>1. ASSUME NEW r \in Readers PROVE ch'[r] \in Seq(Nat) /\ Len(ch'[r]) <= Buffer
        <4>1. ch[r] \in Seq(Nat) /\ Len(ch[r]) \in Nat /\ Len(ch[r]) <= Buffer
          OBVIOUS
        <4>2. CASE r \in readers /\ ~Full(r)
          BY <1>6, <4>1, <4>2 DEF Publish, Full
        <4>3. CASE ~(r \in readers /\ ~Full(r))
          BY <1>6, <4>1, <4>3 DEF Publish
        <4> QED
          BY <4>2, <4>3
      <3>2. ch' = [r \in Readers |-> ch'[r]]
        BY <1>6 DEF Publish
      <3> QED
        BY <3>1, <3>2
    <2> QED
      BY <1>6, <2>1, <2>2 DEF Publish
  <1>7. CASE AcceptError
    BY <1>7 DEF AcceptError
  <1>8. CASE CloseReaders
    BY <1>8 DEF CloseReaders
  <1>9. CASE CloseListener
    BY <1>9 DEF CloseListener
  <1>10. CASE UNCHANGED vars
    BY <1>10 DEF vars
  <1> QED
    BY <1>1, <1>2, <1>3, <1>4, <1>5, <1>6, <1>7, <1>8, <1>9, <1>10
       DEF Next, AcceptLoop, AcceptFails, Serve, Finished

\* A new sink has the types of the module.
LEMMA TypeInit == Init => TypeOK
  <1> SUFFICES ASSUME Init PROVE TypeOK
    OBVIOUS
  <1>1. ch \in [Readers -> Seq(Nat)] /\ \A r \in Readers : Len(ch[r]) <= Buffer
    <2>1. << >> \in Seq(Nat) /\ Len(<< >>) = 0
      OBVIOUS
    <2>2. ch = [r \in Readers |-> << >>]
      BY DEF Init
    <2> QED
      BY <2>1, <2>2, BufferAssumption
  <1>2. received \in [Readers -> Seq(Nat)]
    <2>1. << >> \in Seq(Nat)
      OBVIOUS
    <2> QED
      BY <2>1 DEF Init
  <1>3. acceptor \in [pc : {"accept", "register", "done"}, reader : Readers \cup {NoReader}]
    BY DEF Init
  <1>4. inHand \in [Readers -> Nat] /\ joined \in [Readers -> Nat]
    BY DEF Init
  <1>5. server \in [Readers -> {"none", "receive", "write", "unregister", "close", "done"}]
    BY DEF Init
  <1>6. /\ conn \in [Readers -> {"none", "queued", "open", "closed"}]
        /\ chClosed \in [Readers -> BOOLEAN]
    BY DEF Init
  <1>7. /\ readers \subseteq Readers /\ closed \in BOOLEAN /\ listening \in BOOLEAN
        /\ closer \in {"idle", "listener", "done"} /\ panicked \in BOOLEAN
        /\ dropped \in Nat /\ published \in Nat
    BY DEF Init
  <1> QED
    BY <1>1, <1>2, <1>3, <1>4, <1>5, <1>6, <1>7 DEF TypeOK

-----------------------------------------------------------------------------
(* No drop is silent. *)

\* A message is in one of the three places that a console's stream is made of.
Hears(r, m) == \/ \E i \in DOMAIN received[r] : received[r][i] = m
               \/ inHand[r] # 0 /\ inHand[r] = m
               \/ \E i \in DOMAIN ch[r] : ch[r][i] = m

\* What precedes what in them: each is in order, and one comes after the other.
InOrder(r) ==
    /\ \A i, j \in DOMAIN received[r] : i < j => received[r][i] < received[r][j]
    /\ \A i, j \in DOMAIN ch[r] : i < j => ch[r][i] < ch[r][j]
    /\ \A i \in DOMAIN received[r], j \in DOMAIN ch[r] : received[r][i] < ch[r][j]
    /\ inHand[r] # 0 => /\ \A i \in DOMAIN received[r] : received[r][i] < inHand[r]
                        /\ \A j \in DOMAIN ch[r] : inHand[r] < ch[r][j]
    /\ \A m : Hears(r, m) => m \in joined[r] + 1 .. published
    /\ joined[r] <= published

\* A goroutine that writes has something in hand, and one that is not started has read
\* nothing.
AtWork(r) == /\ inHand[r] # 0 <=> server[r] = "write"
             /\ server[r] = "none" => received[r] = << >> /\ ch[r] = << >>
             /\ conn[r] \in {"none", "queued"} \/ acceptor = [pc |-> "register", reader |-> r]
                    => server[r] = "none"
             /\ r \in readers => server[r] # "none"

StreamInv == /\ TypeOK /\ Inv
             /\ \A r \in Readers : AtWork(r) /\ InOrder(r)
             /\ Cardinality(Missed) <= dropped

\* Where the elements of two and of three sequences are when they are put together.
LEMMA Concatenated ==
    ASSUME NEW a \in Seq(Nat), NEW b \in Seq(Nat)
    PROVE  /\ a \o b \in Seq(Nat) /\ Len(a \o b) = Len(a) + Len(b)
           /\ \A i \in 1 .. Len(a) : (a \o b)[i] = a[i]
           /\ \A i \in 1 .. Len(b) : (a \o b)[Len(a) + i] = b[i]
<1>1. a \o b \in Seq(Nat) /\ Len(a \o b) = Len(a) + Len(b)
  OBVIOUS
<1>2. \A i \in 1 .. Len(a) : (a \o b)[i] = a[i]
  OBVIOUS
<1>3. ASSUME NEW i \in 1 .. Len(b) PROVE (a \o b)[Len(a) + i] = b[i]
  <2>. Len(a) \in Nat /\ Len(b) \in Nat
    OBVIOUS
  <2>1. Len(a) + i \in 1 .. Len(a) + Len(b)
    OBVIOUS
  <2>. QED
    BY <2>1
<1>. QED
  BY <1>1, <1>2, <1>3

\* Which element of three sequences in a row is at which place.
LEMMA ConcatenatedThree ==
    ASSUME NEW a \in Seq(Nat), NEW b \in Seq(Nat), NEW c \in Seq(Nat)
    PROVE  /\ DOMAIN (a \o b \o c) = 1 .. Len(a) + Len(b) + Len(c)
           /\ \A i \in 1 .. Len(a) : (a \o b \o c)[i] = a[i]
           /\ \A i \in 1 .. Len(b) : (a \o b \o c)[Len(a) + i] = b[i]
           /\ \A i \in 1 .. Len(c) : (a \o b \o c)[Len(a) + Len(b) + i] = c[i]
<1>. DEFINE d == a \o b
            e == d \o c
<1>1. /\ d \in Seq(Nat) /\ Len(d) = Len(a) + Len(b)
      /\ \A i \in 1 .. Len(a) : d[i] = a[i]
      /\ \A i \in 1 .. Len(b) : d[Len(a) + i] = b[i]
  BY Concatenated
<1>. HIDE DEF d
<1>2. /\ e \in Seq(Nat) /\ Len(e) = Len(d) + Len(c)
      /\ \A i \in 1 .. Len(d) : e[i] = d[i]
      /\ \A i \in 1 .. Len(c) : e[Len(d) + i] = c[i]
  BY <1>1, Concatenated
<1>. HIDE DEF e
<1>3. Len(a) \in Nat /\ Len(b) \in Nat /\ Len(c) \in Nat
  OBVIOUS
<1>4. DOMAIN e = 1 .. Len(a) + Len(b) + Len(c)
  BY <1>1, <1>2, <1>3
<1>5. \A i \in 1 .. Len(a) : e[i] = a[i]
  BY <1>1, <1>2, <1>3
<1>6. ASSUME NEW i \in 1 .. Len(b) PROVE e[Len(a) + i] = b[i]
  <2>1. Len(a) + i \in 1 .. Len(d)
    BY <1>1, <1>3
  <2>. QED
    BY <1>1, <1>2, <2>1
<1>7. \A i \in 1 .. Len(c) : e[Len(a) + Len(b) + i] = c[i]
  BY <1>1, <1>2
<1>. QED
  BY <1>4, <1>5, <1>6, <1>7 DEF d, e

\* The stream holds what is in the three places, and in that order.
LEMMA StreamHolds ==
    ASSUME TypeOK, NEW r \in Readers
    PROVE  /\ \A m : (\E i \in DOMAIN Stream(r) : Stream(r)[i] = m) <=> Hears(r, m)
           /\ InOrder(r) => \A i, j \in DOMAIN Stream(r) : i < j => Stream(r)[i] < Stream(r)[j]
  <1> DEFINE a == received[r]
             b == IF inHand[r] = 0 THEN << >> ELSE <<inHand[r]>>
             c == ch[r]
             s == a \o b \o c
  <1>1. a \in Seq(Nat) /\ b \in Seq(Nat) /\ c \in Seq(Nat)
    BY DEF TypeOK
  <1>2. b = IF inHand[r] = 0 THEN << >> ELSE <<inHand[r]>>
    OBVIOUS
  <1>3. \A i \in DOMAIN b : inHand[r] # 0 /\ b[i] = inHand[r] /\ i = 1
    BY <1>2
  <1>4. inHand[r] # 0 => 1 \in DOMAIN b /\ b[1] = inHand[r]
    BY <1>2
  <1> HIDE DEF b
  <1> DEFINE la == Len(a)
             lb == Len(b)
             lc == Len(c)
  <1>5. la \in Nat /\ lb \in Nat /\ lc \in Nat
    BY <1>1
  <1>6. /\ DOMAIN s = 1 .. la + lb + lc
        /\ \A i \in 1 .. la : s[i] = a[i]
        /\ \A i \in 1 .. lb : s[la + i] = b[i]
        /\ \A i \in 1 .. lc : s[la + lb + i] = c[i]
    BY <1>1, ConcatenatedThree
  <1>7. DOMAIN a = 1 .. la /\ DOMAIN b = 1 .. lb /\ DOMAIN c = 1 .. lc
    BY <1>1
  <1>8. Stream(r) = s
    BY DEF Stream, b
  <1> HIDE DEF la, lb, lc, s
  <1>9. ASSUME NEW i \in DOMAIN s
        PROVE  \/ i \in DOMAIN a /\ s[i] = a[i]
               \/ i - la \in DOMAIN b /\ s[i] = b[i - la]
               \/ i - (la + lb) \in DOMAIN c /\ s[i] = c[i - (la + lb)]
    <2>1. CASE i \in 1 .. la
      BY <1>6, <1>7, <2>1
    <2>2. CASE i - la \in 1 .. lb
      <3>1. i = la + (i - la)
        BY <1>5, <1>6
      <3> QED
        BY <1>6, <1>7, <2>2, <3>1
    <2>3. CASE i - (la + lb) \in 1 .. lc
      <3>1. i = la + lb + (i - (la + lb))
        BY <1>5, <1>6
      <3> QED
        BY <1>6, <1>7, <2>3, <3>1
    <2> QED
      BY <1>5, <1>6, <2>1, <2>2, <2>3
  <1>10. ASSUME NEW m PROVE (\E i \in DOMAIN s : s[i] = m) <=> Hears(r, m)
    <2>1. ASSUME NEW i \in DOMAIN s, s[i] = m PROVE Hears(r, m)
      BY <1>3, <1>9, <2>1 DEF Hears
    <2>2. ASSUME Hears(r, m) PROVE \E i \in DOMAIN s : s[i] = m
      <3>1. CASE \E i \in DOMAIN a : a[i] = m
        <4>1. PICK i \in 1 .. la : a[i] = m
          BY <1>7, <3>1
        <4>2. i \in DOMAIN s
          BY <1>5, <1>6
        <4> QED
          BY <1>6, <4>1, <4>2
      <3>2. CASE inHand[r] # 0 /\ inHand[r] = m
        BY <1>4, <1>5, <1>6, <1>7, <3>2
      <3>3. CASE \E i \in DOMAIN c : c[i] = m
        <4>1. PICK i \in 1 .. lc : c[i] = m
          BY <1>7, <3>3
        <4>2. la + lb + i \in DOMAIN s
          BY <1>5, <1>6
        <4> QED
          BY <1>6, <4>1, <4>2
      <3> QED
        BY <2>2, <3>1, <3>2, <3>3 DEF Hears
    <2> QED
      BY <2>1, <2>2
  <1>11. ASSUME InOrder(r), NEW i \in DOMAIN s, NEW j \in DOMAIN s, i < j PROVE s[i] < s[j]
    <2> USE DEF InOrder
    <2>1. i \in Nat /\ j \in Nat
      BY <1>5, <1>6
    <2>2. CASE i \in DOMAIN a /\ s[i] = a[i]
      <3>1. CASE j \in DOMAIN a /\ s[j] = a[j]
        BY <1>11, <2>2, <3>1
      <3>2. CASE j - la \in DOMAIN b /\ s[j] = b[j - la]
        BY <1>3, <1>11, <2>2, <3>2
      <3>3. CASE j - (la + lb) \in DOMAIN c /\ s[j] = c[j - (la + lb)]
        BY <1>11, <2>2, <3>3
      <3> QED
        BY <1>9, <3>1, <3>2, <3>3
    <2>3. CASE i - la \in DOMAIN b /\ s[i] = b[i - la]
      <3>1. ~(j \in DOMAIN a)
        BY <1>5, <1>7, <1>11, <2>1, <2>3
      <3>2. ~(j - la \in DOMAIN b)
        BY <1>3, <1>5, <1>11, <2>1, <2>3
      <3> QED
        BY <1>3, <1>9, <1>11, <2>3, <3>1, <3>2
    <2>4. CASE i - (la + lb) \in DOMAIN c /\ s[i] = c[i - (la + lb)]
      <3>1. ~(j \in DOMAIN a) /\ ~(j - la \in DOMAIN b)
        BY <1>5, <1>7, <1>11, <2>1, <2>4
      <3>2. j - (la + lb) \in DOMAIN c /\ s[j] = c[j - (la + lb)]
        BY <1>9, <3>1
      <3>3. i - (la + lb) < j - (la + lb)
        BY <1>5, <1>11, <2>1
      <3> QED
        BY <1>11, <2>4, <3>2, <3>3
    <2> QED
      BY <1>9, <2>2, <2>3, <2>4
  <1> QED
    BY <1>8, <1>10, <1>11

Unheard == {q \in Served \X (1 .. published) : joined[q[1]] < q[2] /\ ~Hears(q[1], q[2])}

\* What a registered console missed is what was published since it joined and is neither
\* received, nor read by serve, nor in its channel.
LEMMA MissedIsUnheard == TypeOK => Missed = Unheard
  <1> SUFFICES ASSUME TypeOK PROVE Missed = Unheard
    OBVIOUS
  <1>1. \A q \in Served \X (1 .. published) :
            q[1] \in Readers
  BY DEF Served, TypeOK
  <1>2. \A q \in Served \X (1 .. published) :
            (\A i \in DOMAIN Stream(q[1]) : Stream(q[1])[i] # q[2]) <=> ~Hears(q[1], q[2])
    BY <1>1, StreamHolds
  <1> QED
    BY <1>2 DEF Missed, Unheard

\* The same, one step later.
LEMMA MissedIsUnheardNext == (TypeOK => Missed = Unheard)'
  BY MissedIsUnheard, PTL

\* A console missed finitely many messages: they are among those published.
LEMMA MissedIsFinite == TypeOK => IsFiniteSet(Missed)
  <1> SUFFICES ASSUME TypeOK PROVE IsFiniteSet(Missed)
    OBVIOUS
  <1>1. Served \subseteq Readers
    BY DEF Served, TypeOK
  <1>2. IsFiniteSet(Served)
    BY <1>1, BufferAssumption, FS_Subset
  <1>3. IsFiniteSet(1 .. published)
    <2>1. 1 \in Int /\ published \in Int
      BY DEF TypeOK
    <2> QED
      BY <2>1, FS_Interval
  <1>4. IsFiniteSet(Served \X (1 .. published))
    BY <1>2, <1>3, FS_Product
  <1>5. Missed \subseteq Served \X (1 .. published)
    BY DEF Missed
  <1> QED
    BY <1>4, <1>5, FS_Subset

\* Nothing is missed anew when nothing is published and what was heard stays so.
LEMMA NoneLost ==
    ASSUME TypeOK, TypeOK', Cardinality(Missed) <= dropped, UNCHANGED <<published, dropped>>,
           \A r \in Served' : \/ joined'[r] = published
                              \/ /\ r \in Served /\ joined'[r] = joined[r]
                                 /\ \A m : Hears(r, m) => Hears(r, m)'
    PROVE  Cardinality(Missed)' <= dropped'
  <1>1. Missed = Unheard
    BY MissedIsUnheard
  <1>2. Missed' = Unheard'
    BY MissedIsUnheardNext
  <1>3. ASSUME NEW q \in Unheard' PROVE q \in Unheard
    <2>1. q[1] \in Served' /\ q[2] \in 1 .. published /\ q = <<q[1], q[2]>>
      BY DEF Unheard
    <2>2. joined'[q[1]] < q[2] /\ ~Hears(q[1], q[2])'
      BY DEF Unheard
    <2>3. published \in Nat
      BY DEF TypeOK
    <2>4. joined'[q[1]] # published
      BY <2>1, <2>2, <2>3
    <2>5. q[1] \in Served /\ joined[q[1]] < q[2] /\ ~Hears(q[1], q[2])
      BY <2>1, <2>2, <2>4
    <2> QED
      BY <2>1, <2>5 DEF Unheard
  <1>4. Missed' \subseteq Missed
    BY <1>1, <1>2, <1>3
  <1>5. Cardinality(Missed') <= Cardinality(Missed) /\ IsFiniteSet(Missed')
    BY <1>4, MissedIsFinite, FS_Subset
  <1>6. Cardinality(Missed') \in Nat /\ Cardinality(Missed) \in Nat /\ dropped \in Nat
    BY <1>5, MissedIsFinite, FS_CardinalityType DEF TypeOK
  <1>7. Cardinality(Missed)' = Cardinality(Missed')
    OBVIOUS
  <1> QED
    BY <1>5, <1>6, <1>7

\* What is published is either heard or counted.
LEMMA PublishCounts ==
    ASSUME TypeOK, TypeOK', Publish, Cardinality(Missed) <= dropped,
           \A r \in Readers : \A m : \/ Hears(r, m)
                                     \/ r \in readers /\ ~Full(r) /\ m = published + 1
                                     => Hears(r, m)'
    PROVE  Cardinality(Missed)' <= dropped'
  <1> DEFINE F == {r \in readers : Full(r)}
             new == {<<r, published + 1>> : r \in F}
             f == [r \in F |-> <<r, published + 1>>]
  <1>1. Missed = Unheard /\ Missed' = Unheard'
    BY MissedIsUnheard, MissedIsUnheardNext
  <1>2. Missed' \subseteq Missed \cup new
    <2>1. ASSUME NEW q \in Unheard' PROVE q \in Unheard \cup new
      <3>1. q[1] \in Served /\ q[2] \in 1 .. published + 1 /\ q = <<q[1], q[2]>>
        BY DEF Unheard, Publish, Served, serveVars
      <3>2. joined[q[1]] < q[2] /\ ~Hears(q[1], q[2])'
        BY DEF Unheard, Publish, historyVars
      <3>3. q[1] \in Readers /\ q[1] \in readers /\ ~Hears(q[1], q[2])
        BY <3>1, <3>2 DEF Served, TypeOK
      <3>4. CASE q[2] = published + 1
        <4>2. q[1] \in F
          BY <3>2, <3>3, <3>4
        <4>3. q = <<q[1], published + 1>>
          BY <3>1, <3>4
        <4> QED
          BY <4>2, <4>3
      <3>5. CASE q[2] # published + 1
        <4>1. q[2] \in 1 .. published
          <5>1. published \in Nat
            BY DEF TypeOK
          <5> QED
            BY <3>1, <3>5, <5>1
        <4> QED
          BY <3>1, <3>2, <3>3, <4>1 DEF Unheard
      <3> QED
        BY <3>4, <3>5
    <2> QED
      BY <1>1, <2>1
  <1>3. IsFiniteSet(F)
    BY BufferAssumption, FS_Subset DEF TypeOK
  <1>4. f \in Surjection(F, new)
    BY DEF Surjection
  <1> HIDE DEF new, f
  <1>5. IsFiniteSet(new) /\ Cardinality(new) <= Cardinality(F)
    BY <1>3, <1>4, FS_Surjection
  <1>6. IsFiniteSet(Missed)
    BY MissedIsFinite
  <1>7. /\ IsFiniteSet(Missed \cup new) /\ IsFiniteSet(Missed \cap new)
        /\ Cardinality(Missed \cup new)
               = Cardinality(Missed) + Cardinality(new) - Cardinality(Missed \cap new)
    BY <1>5, <1>6, FS_Union, FS_Intersection
  <1>8. IsFiniteSet(Missed') /\ Cardinality(Missed') <= Cardinality(Missed \cup new)
    BY <1>2, <1>7, FS_Subset
  <1>9. /\ Cardinality(Missed') \in Nat /\ Cardinality(Missed) \in Nat /\ Cardinality(new) \in Nat
        /\ Cardinality(Missed \cap new) \in Nat /\ Cardinality(F) \in Nat
        /\ Cardinality(Missed \cup new) \in Nat
    BY <1>3, <1>5, <1>6, <1>7, <1>8, FS_CardinalityType
  <1>10. dropped' = dropped + Cardinality(F) /\ dropped \in Nat
    BY DEF Publish, TypeOK
  <1>11. Cardinality(Missed)' = Cardinality(Missed')
    OBVIOUS
  <1> HIDE DEF F
  <1> QED
    BY <1>5, <1>7, <1>8, <1>9, <1>10, <1>11

\* Steps that leave messages where they are.
LEMMA StreamStays ==
    ASSUME StreamInv, TypeOK', Inv', UNCHANGED <<ch, inHand, received, joined, published, dropped>>,
           \A r \in Readers : AtWork(r)',
           Served' \subseteq Served
    PROVE  StreamInv'
  <1>1. \A r, m : Hears(r, m)' = Hears(r, m)
    BY DEF Hears
  <1>2. \A r \in Readers : InOrder(r)'
    BY <1>1 DEF InOrder, StreamInv
  <1>3. Cardinality(Missed)' <= dropped'
    BY <1>1, NoneLost DEF StreamInv
  <1> QED
    BY <1>2, <1>3 DEF StreamInv

\* Every step of the sink keeps StreamInv: what a full channel refuses is counted.
LEMMA StreamStep == StreamInv /\ [Next]_vars => StreamInv'
  <1> SUFFICES ASSUME StreamInv, [Next]_vars PROVE StreamInv'
    OBVIOUS
  <1>t. TypeOK /\ Inv /\ \A r \in Readers : AtWork(r) /\ InOrder(r)
    BY DEF StreamInv
  <1>n. TypeOK' /\ Inv'
    BY TypeStep, NextInv DEF StreamInv
  <1>1. ASSUME NEW r \in Readers, Connect(r) \/ Hangup(r) \/ AcceptConn(r) PROVE StreamInv'
    <2>1. UNCHANGED <<ch, inHand, received, joined, published, dropped, readers, server>>
      BY <1>1 DEF Connect, Hangup, AcceptConn, chanVars, serveVars, historyVars
    <2>2. \A s \in Readers : AtWork(s)'
      <3>1. CASE Connect(r)
        BY <1>t, <2>1, <3>1 DEF Connect, AtWork, TypeOK
      <3>2. CASE Hangup(r)
        BY <1>t, <2>1, <3>2 DEF Hangup, AtWork, TypeOK
      <3>3. CASE AcceptConn(r)
        <4>1. conn[r] = "queued" /\ conn' = [conn EXCEPT ![r] = "open"]
          BY <3>3 DEF AcceptConn
        <4>2. acceptor'.reader = r
          BY <3>3 DEF AcceptConn
        <4>3. \A s \in Readers : acceptor' = [pc |-> "register", reader |-> s] => s = r
          BY <4>2
        <4> QED
          BY <1>t, <2>1, <4>1, <4>3 DEF AtWork, TypeOK
      <3> QED
        BY <1>1, <3>1, <3>2, <3>3
    <2>3. Served' \subseteq Served
      BY <2>1 DEF Served
    <2> QED
      BY <1>n, <2>1, <2>2, <2>3, StreamStays
  <1>2. CASE AcceptError
    <2>1. /\ UNCHANGED <<ch, inHand, received, joined, published, dropped, readers, server, conn>>
          /\ acceptor'.pc = "done"
      BY <1>2 DEF AcceptError, chanVars, serveVars, historyVars
    <2>2. \A s \in Readers : acceptor' # [pc |-> "register", reader |-> s]
      BY <2>1
    <2>3. \A s \in Readers : AtWork(s)'
      BY <1>t, <2>1, <2>2 DEF AtWork
    <2>4. Served' \subseteq Served
      BY <2>1 DEF Served
    <2> QED
      BY <1>n, <2>1, <2>3, <2>4, StreamStays
  <1>3. ASSUME NEW r \in Readers, Register(r) PROVE StreamInv'
    <2>1. /\ UNCHANGED <<ch, inHand, received, published, dropped>>
          /\ acceptor = [pc |-> "register", reader |-> r] /\ acceptor'.pc \in {"accept", "done"}
      BY <1>3 DEF Register, chanVars
    <2>2. \A s \in Readers : acceptor' # [pc |-> "register", reader |-> s]
      BY <2>1
    <2>3. conn[r] \notin {"none", "queued"} /\ server[r] = "none" /\ inHand[r] = 0
          /\ received[r] = << >> /\ ch[r] = << >>
      BY <1>t, <2>1 DEF Inv, AtWork
    <2>4. CASE closed
      <3>1. /\ UNCHANGED <<joined, readers, server>>
            /\ conn' = [conn EXCEPT ![r] = "closed"]
        BY <1>3, <2>4 DEF Register
      <3>2. \A s \in Readers : AtWork(s)'
        BY <1>t, <2>1, <2>2, <3>1 DEF AtWork, TypeOK
      <3>3. Served' \subseteq Served
        BY <3>1 DEF Served
      <3> QED
        BY <1>n, <2>1, <3>1, <3>2, <3>3, StreamStays
    <2>5. CASE ~closed
      <3>1. /\ readers' = readers \cup {r} /\ server' = [server EXCEPT ![r] = "receive"]
            /\ joined' = [joined EXCEPT ![r] = published] /\ UNCHANGED conn
        BY <1>3, <2>5 DEF Register
      <3>2. \A s \in Readers : AtWork(s)'
        BY <1>t, <2>1, <2>2, <2>3, <3>1 DEF AtWork, TypeOK
      <3>3. \A s, m : Hears(s, m)' = Hears(s, m)
        BY <2>1 DEF Hears
      <3>4. \A m : ~Hears(r, m)
        BY <2>3 DEF Hears
      <3>5. \A s \in Readers : InOrder(s)'
        BY <1>t, <2>1, <3>1, <3>3, <3>4 DEF InOrder, TypeOK
      <3>6. Cardinality(Missed)' <= dropped'
        <4>1. \A s \in Served' : /\ s \in Readers
                                 /\ s = r \/ s \in Served
          BY <1>t, <3>1 DEF Served, TypeOK
        <4>2. joined'[r] = published /\ \A s \in Readers : s # r => joined'[s] = joined[s]
          BY <1>t, <3>1 DEF TypeOK
        <4> QED
          BY <1>t, <1>n, <2>1, <3>3, <4>1, <4>2, NoneLost DEF StreamInv
      <3> QED
        BY <1>n, <3>2, <3>5, <3>6 DEF StreamInv
    <2> QED
      BY <2>4, <2>5
  <1>4. ASSUME NEW r \in Readers, Unregister(r) \/ CloseConn(r) PROVE StreamInv'
    <2>1. /\ UNCHANGED <<ch, inHand, received, joined, published, dropped, acceptor>>
          /\ readers' \subseteq readers
          /\ \E p \in {"close", "done"} : server' = [server EXCEPT ![r] = p]
          /\ server[r] \notin {"none", "receive", "write"}
          /\ conn' = conn \/ conn' = [conn EXCEPT ![r] = "closed"]
      BY <1>4 DEF Unregister, CloseConn, chanVars, serveVars, historyVars
    <2>2. \A s \in Readers : AtWork(s)'
      BY <1>t, <2>1 DEF AtWork, TypeOK
    <2>3. Served' \subseteq Served
      BY <1>t, <2>1 DEF Served, TypeOK
    <2> QED
      BY <1>n, <2>1, <2>2, <2>3, StreamStays
  <1>5. CASE CloseReaders \/ CloseListener
    <2>1. /\ UNCHANGED <<ch, inHand, received, joined, published, dropped, acceptor, server>>
          /\ readers' \subseteq readers
      BY <1>5 DEF CloseReaders, CloseListener, chanVars, serveVars, historyVars
    <2>2. \A s \in Readers : conn'[s] \in {"none", "queued"} => conn[s] \in {"none", "queued"}
      BY <1>5 DEF CloseReaders, CloseListener
    <2>3. \A s \in Readers : AtWork(s)'
      BY <1>t, <2>1, <2>2 DEF AtWork
    <2>4. Served' \subseteq Served
      BY <2>1 DEF Served
    <2> QED
      BY <1>n, <2>1, <2>3, <2>4, StreamStays
  <1>6. ASSUME NEW r \in Readers, Receive(r) PROVE StreamInv'
    <2>1. /\ UNCHANGED <<received, joined, published, dropped, acceptor, readers, conn>>
          /\ server[r] = "receive" /\ inHand[r] = 0
      BY <1>t, <1>6 DEF Receive, historyVars, AtWork
    <2>2. CASE server' = [server EXCEPT ![r] = "unregister"] /\ UNCHANGED <<ch, inHand>>
      <3>1. \A s \in Readers : AtWork(s)'
        BY <1>t, <2>1, <2>2 DEF AtWork, TypeOK
      <3>2. Served' \subseteq Served
        BY <1>t, <2>1, <2>2 DEF Served, TypeOK
      <3> QED
        BY <1>n, <2>1, <2>2, <3>1, <3>2, StreamStays
    <2>3. CASE /\ ch[r] # << >>
               /\ inHand' = [inHand EXCEPT ![r] = ch[r][1]]
               /\ ch' = [ch EXCEPT ![r] = Tail(@)]
               /\ server' = [server EXCEPT ![r] = "write"]
      <3>1. ch[r] \in Seq(Nat) /\ Len(ch[r]) \in Nat /\ Len(ch[r]) > 0
        BY <1>t, <2>3 DEF TypeOK
      <3> DEFINE n == Len(ch[r])
                 old == ch[r]
                 new == ch'[r]
      <3>2. /\ DOMAIN old = 1 .. n /\ DOMAIN new = 1 .. n - 1
            /\ \A i \in 1 .. n - 1 : new[i] = old[i + 1]
        BY <1>t, <2>3, <3>1 DEF TypeOK
      <3>3. /\ inHand'[r] = old[1]
            /\ \A s \in Readers : s # r => inHand'[s] = inHand[s] /\ ch'[s] = ch[s]
        BY <1>t, <2>3 DEF TypeOK
      <3> HIDE DEF n, old, new
      <3>4. n \in Nat /\ n > 0 /\ 1 \in DOMAIN old
        BY <3>1, <3>2 DEF n
      <3>5. Hears(r, old[1])
        BY <3>4 DEF Hears, old
      <3>6. old[1] \in Nat /\ old[1] # 0
        BY <1>t, <3>5 DEF InOrder, TypeOK
      <3>7. \A m : Hears(r, m)' <=> Hears(r, m)
        <4>1. ASSUME NEW m, Hears(r, m) PROVE Hears(r, m)'
          <5>1. CASE \E i \in DOMAIN received[r] : received[r][i] = m
            BY <2>1, <5>1 DEF Hears
          <5>2. CASE \E i \in DOMAIN old : old[i] = m
            <6>1. PICK i \in 1 .. n : old[i] = m
              BY <3>2, <5>2
            <6>2. CASE i = 1
              BY <3>3, <3>6, <6>1, <6>2 DEF Hears
            <6>3. CASE i # 1
              <7>1. i - 1 \in 1 .. n - 1 /\ i = (i - 1) + 1
                BY <3>4, <6>3
              <7>2. i - 1 \in DOMAIN new /\ new[i - 1] = m
                BY <3>2, <6>1, <7>1
              <7> QED
                BY <7>2 DEF Hears, new
            <6> QED
              BY <6>2, <6>3
          <5> QED
            BY <2>1, <4>1, <5>1, <5>2 DEF Hears, old
        <4>2. ASSUME NEW m, Hears(r, m)' PROVE Hears(r, m)
          <5>1. CASE \E i \in DOMAIN received'[r] : received'[r][i] = m
            BY <2>1, <5>1 DEF Hears
          <5>2. CASE inHand'[r] = m
            BY <3>3, <3>5, <5>2
          <5>3. CASE \E i \in DOMAIN new : new[i] = m
            <6>1. PICK i \in 1 .. n - 1 : new[i] = m
              BY <3>2, <5>3
            <6>2. i + 1 \in DOMAIN old /\ old[i + 1] = m
              BY <3>2, <3>4, <6>1
            <6> QED
              BY <6>2 DEF Hears, old
          <5> QED
            BY <4>2, <5>1, <5>2, <5>3 DEF Hears, new
        <4> QED
          BY <4>1, <4>2
      <3>8. \A s \in Readers : AtWork(s)'
        BY <1>t, <2>1, <2>3, <3>3, <3>6 DEF AtWork, TypeOK
      <3>9. InOrder(r)'
        <4>1. /\ \A i, j \in DOMAIN received[r] : i < j => received[r][i] < received[r][j]
              /\ \A i, j \in DOMAIN old : i < j => old[i] < old[j]
              /\ \A i \in DOMAIN received[r], j \in DOMAIN old : received[r][i] < old[j]
              /\ \A m : Hears(r, m) => m \in joined[r] + 1 .. published
              /\ joined[r] <= published
          BY <1>t DEF InOrder, old
        <4>2. \A i \in DOMAIN new : i + 1 \in DOMAIN old /\ new[i] = old[i + 1] /\ i \in Nat /\ i > 0
          BY <3>2, <3>4
        <4>3. \A i, j \in DOMAIN new : i < j => new[i] < new[j]
          BY <4>1, <4>2
        <4>4. \A i \in DOMAIN received[r], j \in DOMAIN new : received[r][i] < new[j]
          BY <4>1, <4>2
        <4>5. /\ \A i \in DOMAIN received[r] : received[r][i] < old[1]
              /\ \A j \in DOMAIN new : old[1] < new[j]
          BY <3>4, <4>1, <4>2
        <4>6. \A m : Hears(r, m)' => m \in joined[r] + 1 .. published
          BY <3>7, <4>1
        <4> QED
          BY <2>1, <3>3, <4>1, <4>3, <4>4, <4>5, <4>6 DEF InOrder, new
      <3>10. \A s \in Readers : s # r => (\A m : Hears(s, m)' <=> Hears(s, m))
        BY <2>1, <3>3 DEF Hears
      <3>11. \A s \in Readers : InOrder(s)'
        BY <1>t, <2>1, <3>3, <3>9, <3>10 DEF InOrder
      <3>12. Cardinality(Missed)' <= dropped'
        <4>1. \A s \in Served' : s \in Served /\ s \in Readers
          BY <1>t, <2>1, <2>3 DEF Served, TypeOK
        <4> QED
          BY <1>t, <1>n, <2>1, <3>7, <3>10, <4>1, NoneLost DEF StreamInv
      <3> QED
        BY <1>n, <3>8, <3>11, <3>12 DEF StreamInv
    <2> QED
      BY <1>6, <2>2, <2>3 DEF Receive
  <1>7. ASSUME NEW r \in Readers, Write(r) PROVE StreamInv'
    <2>1. /\ UNCHANGED <<ch, joined, published, dropped, acceptor, readers, conn>>
          /\ server[r] = "write" /\ server' = [server EXCEPT ![r] = "receive"]
          /\ received' = [received EXCEPT ![r] = Append(@, inHand[r])]
          /\ inHand' = [inHand EXCEPT ![r] = 0]
      BY <1>7 DEF Write, chanVars
    <2> DEFINE n == Len(received[r])
               old == received[r]
               new == received'[r]
               held == inHand[r]
    <2>2. held # 0 /\ held \in Nat /\ old \in Seq(Nat) /\ n \in Nat
      BY <1>t, <2>1 DEF AtWork, TypeOK
    <2>3. /\ DOMAIN old = 1 .. n /\ DOMAIN new = 1 .. n + 1
          /\ \A i \in 1 .. n : new[i] = old[i]
          /\ new[n + 1] = held
      BY <1>t, <2>1, <2>2 DEF TypeOK
    <2>4. /\ inHand'[r] = 0
          /\ \A s \in Readers : s # r => inHand'[s] = inHand[s] /\ received'[s] = received[s]
      BY <1>t, <2>1 DEF TypeOK
    <2> HIDE DEF n, old, new
    <2>5. \A m : Hears(r, m)' <=> Hears(r, m)
      <3>1. ASSUME NEW m PROVE (\E i \in DOMAIN new : new[i] = m)
                               <=> (\E i \in DOMAIN old : old[i] = m) \/ held = m
        <4>1. \A i \in DOMAIN new : (i \in DOMAIN old /\ new[i] = old[i]) \/ new[i] = held
          BY <2>2, <2>3
        <4>2. \A i \in DOMAIN old : i \in DOMAIN new /\ new[i] = old[i]
          BY <2>2, <2>3
        <4>3. n + 1 \in DOMAIN new /\ new[n + 1] = held
          BY <2>2, <2>3
        <4>4. CASE \E i \in DOMAIN new : new[i] = m
          BY <4>1, <4>4
        <4>5. CASE (\E i \in DOMAIN old : old[i] = m) \/ held = m
          BY <4>2, <4>3, <4>5
        <4> QED
          BY <4>4, <4>5
      <3> QED
        BY <2>1, <2>2, <2>4, <3>1 DEF Hears, old, new
    <2>6. \A s \in Readers : AtWork(s)'
      BY <1>t, <2>1, <2>4 DEF AtWork, TypeOK
    <2>7. InOrder(r)'
      <3>1. /\ \A i, j \in DOMAIN old : i < j => old[i] < old[j]
            /\ \A i, j \in DOMAIN ch[r] : i < j => ch[r][i] < ch[r][j]
            /\ \A i \in DOMAIN old, j \in DOMAIN ch[r] : old[i] < ch[r][j]
            /\ \A i \in DOMAIN old : old[i] < held
            /\ \A j \in DOMAIN ch[r] : held < ch[r][j]
            /\ \A m : Hears(r, m) => m \in joined[r] + 1 .. published
            /\ joined[r] <= published
        BY <1>t, <2>2 DEF InOrder, old
      <3>2. \A i \in DOMAIN new : (i \in DOMAIN old /\ new[i] = old[i]) \/ (i = n + 1 /\ new[i] = held)
        BY <2>2, <2>3
      <3>3. \A i \in DOMAIN old : i \in Nat /\ i < n + 1
        BY <2>2, <2>3
      <3>4. \A i, j \in DOMAIN new : i < j => new[i] < new[j]
        BY <2>2, <2>3, <3>1, <3>2, <3>3
      <3>5. \A i \in DOMAIN new, j \in DOMAIN ch[r] : new[i] < ch[r][j]
        BY <3>1, <3>2
      <3>6. \A m : Hears(r, m)' => m \in joined[r] + 1 .. published
        BY <2>5, <3>1
      <3> QED
        BY <2>1, <2>4, <3>1, <3>4, <3>5, <3>6 DEF InOrder, new
    <2>8. \A s \in Readers : s # r => (\A m : Hears(s, m)' <=> Hears(s, m))
      BY <2>1, <2>4 DEF Hears
    <2>9. \A s \in Readers : InOrder(s)'
      BY <1>t, <2>1, <2>4, <2>7, <2>8 DEF InOrder
    <2>10. Cardinality(Missed)' <= dropped'
      <3>1. \A s \in Served' : s \in Served /\ s \in Readers
        BY <1>t, <2>1 DEF Served, TypeOK
      <3> QED
        BY <1>t, <1>n, <2>1, <2>5, <2>8, <3>1, NoneLost DEF StreamInv
    <2> QED
      BY <1>n, <2>6, <2>9, <2>10 DEF StreamInv
  <1>8. ASSUME NEW r \in Readers, WriteFails(r) PROVE StreamInv'
    <2>1. /\ UNCHANGED <<ch, received, joined, published, dropped, acceptor, readers, conn>>
          /\ server[r] = "write" /\ server' = [server EXCEPT ![r] = "unregister"]
          /\ inHand' = [inHand EXCEPT ![r] = 0]
      BY <1>8 DEF WriteFails, chanVars, historyVars
    <2>2. inHand'[r] = 0 /\ \A s \in Readers : s # r => inHand'[s] = inHand[s]
      BY <1>t, <2>1 DEF TypeOK
    <2>3. \A s \in Readers : AtWork(s)'
      BY <1>t, <2>1, <2>2 DEF AtWork, TypeOK
    <2>4. \A s \in Readers : \A m : /\ (Hears(s, m)' => Hears(s, m))
                                   /\ (s # r => (Hears(s, m) => Hears(s, m)'))
      BY <2>1, <2>2 DEF Hears
    <2>5. \A s \in Readers : InOrder(s)'
      <3>1. ASSUME NEW s \in Readers PROVE InOrder(s)'
        <4>1. /\ UNCHANGED <<ch, received, joined, published>>
              /\ inHand'[s] # 0 => inHand'[s] = inHand[s]
              /\ \A m : Hears(s, m)' => Hears(s, m)
          BY <2>1, <2>2, <2>4
        <4>2. InOrder(s)
          BY <1>t
        <4> QED
          BY <4>1, <4>2 DEF InOrder
      <3> QED
        BY <3>1
    <2>6. Cardinality(Missed)' <= dropped'
      <3>1. \A s \in Served' : s \in Served /\ s \in Readers /\ s # r
        BY <1>t, <2>1 DEF Served, TypeOK
      <3> QED
        BY <1>t, <1>n, <2>1, <2>4, <3>1, NoneLost DEF StreamInv
    <2> QED
      BY <1>n, <2>3, <2>5, <2>6 DEF StreamInv
  <1>9. CASE Publish
    <2>1. /\ UNCHANGED <<acceptor, conn, readers, server, inHand, joined, received>>
          /\ published' = published + 1 /\ published \in Nat
      BY <1>t, <1>9 DEF Publish, serveVars, historyVars, TypeOK
    <2>2. ASSUME NEW s \in Readers
          PROVE  \/ ch'[s] = ch[s] /\ (s \notin readers \/ Full(s))
                 \/ s \in readers /\ ~Full(s) /\ ch'[s] = Append(ch[s], published + 1)
      BY <1>9 DEF Publish
    <2>3. ASSUME NEW s \in Readers
          PROVE  /\ AtWork(s)' /\ InOrder(s)'
                 /\ \A m : Hears(s, m) => Hears(s, m)'
                 /\ s \in readers /\ ~Full(s) => \A m : m = published + 1 => Hears(s, m)'
      <3> DEFINE n == Len(ch[s])
                 old == ch[s]
                 new == ch'[s]
      <3>1. AtWork(s) /\ InOrder(s)
        BY <1>t
      <3>2. joined[s] \in Nat /\ \A m : Hears(s, m) => m \in joined[s] + 1 .. published
        BY <1>t, <3>1 DEF InOrder, TypeOK
      <3>3. CASE ch'[s] = ch[s] /\ (s \notin readers \/ Full(s))
        <4>1. \A m : Hears(s, m)' <=> Hears(s, m)
          BY <2>1, <3>3 DEF Hears
        <4>2. \A m : Hears(s, m)' => m \in joined'[s] + 1 .. published'
          BY <2>1, <3>2, <4>1
        <4>3. AtWork(s)'
          BY <2>1, <3>1, <3>3 DEF AtWork
        <4>4. InOrder(s)'
          <5>1. joined'[s] <= published'
            BY <2>1, <3>1, <3>2 DEF InOrder
          <5> QED
            BY <2>1, <3>1, <3>3, <4>2, <5>1 DEF InOrder
        <4> QED
          BY <3>3, <4>1, <4>3, <4>4
      <3>4. CASE s \in readers /\ ~Full(s) /\ ch'[s] = Append(ch[s], published + 1)
        <4>1. old \in Seq(Nat) /\ n \in Nat
          BY <1>t DEF TypeOK
        <4>2. /\ DOMAIN old = 1 .. n /\ DOMAIN new = 1 .. n + 1
              /\ \A i \in 1 .. n : new[i] = old[i]
              /\ new[n + 1] = published + 1
          BY <2>1, <3>4, <4>1
        <4> HIDE DEF n, old, new
        <4>3. ASSUME NEW m PROVE (\E i \in DOMAIN new : new[i] = m)
                                 <=> (\E i \in DOMAIN old : old[i] = m) \/ m = published + 1
          BY <4>1, <4>2
        <4>4. \A m : Hears(s, m)' <=> Hears(s, m) \/ m = published + 1
          BY <2>1, <4>3 DEF Hears, old, new
        <4>5. /\ \A i \in DOMAIN received[s] : received[s][i] < published + 1
              /\ inHand[s] # 0 => inHand[s] < published + 1
              /\ \A i \in DOMAIN old : old[i] < published + 1
          <5>1. \A m : Hears(s, m) => m < published + 1
            BY <2>1, <3>2
          <5>2. \A i \in DOMAIN received[s] : Hears(s, received[s][i])
            BY DEF Hears
          <5>3. inHand[s] # 0 => Hears(s, inHand[s])
            BY DEF Hears
          <5>4. \A i \in DOMAIN old : Hears(s, old[i])
            BY DEF Hears, old
          <5> QED
            BY <5>1, <5>2, <5>3, <5>4
        <4>6. server[s] # "none"
          BY <3>1, <3>4 DEF AtWork
        <4>7. AtWork(s)'
          BY <2>1, <3>1, <4>6 DEF AtWork
        <4>8. /\ \A i, j \in DOMAIN old : i < j => old[i] < old[j]
              /\ \A i \in DOMAIN received[s], j \in DOMAIN old : received[s][i] < old[j]
              /\ inHand[s] # 0 => \A j \in DOMAIN old : inHand[s] < old[j]
          BY <3>1 DEF InOrder, old
        <4>9. \A i \in DOMAIN new : \/ i \in DOMAIN old /\ new[i] = old[i] /\ i \in Nat /\ i < n + 1
                                    \/ i = n + 1 /\ new[i] = published + 1
          BY <4>1, <4>2
        <4>10. \A i, j \in DOMAIN new : i < j => new[i] < new[j]
          BY <4>1, <4>5, <4>8, <4>9
        <4>11. /\ \A i \in DOMAIN received[s], j \in DOMAIN new : received[s][i] < new[j]
               /\ inHand[s] # 0 => \A j \in DOMAIN new : inHand[s] < new[j]
          BY <4>5, <4>8, <4>9
        <4>12. \A m : Hears(s, m)' => m \in joined'[s] + 1 .. published'
          <5>1. \A m : Hears(s, m)' => m \in joined[s] + 1 .. published + 1
            <6>1. joined[s] < published + 1
              BY <2>1, <3>1, <3>2 DEF InOrder
            <6> QED
              BY <2>1, <3>2, <4>4, <6>1
          <5> QED
            BY <2>1, <5>1
        <4>13. InOrder(s)'
          BY <2>1, <3>1, <3>2, <4>10, <4>11, <4>12 DEF InOrder, new
        <4> QED
          BY <4>4, <4>7, <4>13
      <3> QED
        BY <2>2, <3>3, <3>4
    <2>4. Cardinality(Missed)' <= dropped'
      BY <1>t, <1>n, <1>9, <2>3, PublishCounts DEF StreamInv
    <2> QED
      BY <1>n, <2>3, <2>4 DEF StreamInv
  <1>10. CASE UNCHANGED vars
    <2>1. /\ UNCHANGED <<ch, inHand, received, joined, published, dropped>>
          /\ UNCHANGED <<server, readers, conn, acceptor>>
      BY <1>10 DEF vars
    <2>2. \A s \in Readers : AtWork(s)'
      BY <1>t, <2>1 DEF AtWork
    <2>3. Served' \subseteq Served
      BY <2>1 DEF Served
    <2> QED
      BY <1>n, <2>1, <2>2, <2>3, StreamStays
  <1> QED
    BY <1>1, <1>2, <1>3, <1>4, <1>5, <1>6, <1>7, <1>8, <1>9, <1>10
       DEF Next, AcceptLoop, AcceptFails, Serve, Finished

\* A new sink has dropped nothing.
LEMMA StreamInit == Init => StreamInv
  <1> SUFFICES ASSUME Init PROVE StreamInv
    OBVIOUS
  <1>1. TypeOK /\ Inv
    BY TypeInit, InitInv
  <1>2. \A r \in Readers : /\ received[r] = << >> /\ ch[r] = << >> /\ inHand[r] = 0
                           /\ server[r] = "none" /\ r \notin readers
    BY DEF Init
  <1>3. \A r \in Readers : \A m : ~Hears(r, m)
    BY <1>2 DEF Hears
  <1>4. \A r \in Readers : AtWork(r) /\ InOrder(r)
    <2>1. \A r \in Readers : joined[r] <= published
      BY DEF Init
    <2> QED
      BY <1>2, <1>3, <2>1 DEF AtWork, InOrder
  <1>5. Missed = {}
    BY DEF Missed, Served, Init
  <1>6. Cardinality(Missed) = 0 /\ dropped = 0
    BY <1>5, FS_EmptySet DEF Init
  <1> QED
    BY <1>1, <1>4, <1>6 DEF StreamInv

\* StreamInv is about every console, NoSilentDrop about those that are registered.
LEMMA StreamInvImplies == StreamInv => NoSilentDrop
  <1> SUFFICES ASSUME StreamInv PROVE NoSilentDrop
    OBVIOUS
  <1>1. ASSUME NEW r \in Readers
        PROVE  /\ \A i \in DOMAIN Stream(r) : Stream(r)[i] \in joined[r] + 1 .. published
               /\ \A i, j \in DOMAIN Stream(r) : i < j => Stream(r)[i] < Stream(r)[j]
    <2>1. TypeOK /\ InOrder(r)
      BY DEF StreamInv
    <2>2. \A m : Hears(r, m) => m \in joined[r] + 1 .. published
      BY <2>1 DEF InOrder
    <2> QED
      BY <2>1, <2>2, StreamHolds
  <1> QED
    BY <1>1 DEF NoSilentDrop, StreamInv

-----------------------------------------------------------------------------
(* The stream in a session. *)

\* A session without a stream has no console.
SessionInv == StreamInv /\ ("stream" \notin outputs => readers = {})

\* Every step of a session is one of the stream or leaves it alone: without a stream, a
\* message is published to no console.
LEMMA SessionStep == SessionInv /\ [FanoutNext]_fanoutVars => [Next]_vars /\ SessionInv'
  <1> SUFFICES ASSUME SessionInv, [FanoutNext]_fanoutVars PROVE [Next]_vars /\ SessionInv'
    OBVIOUS
  <1>1. ASSUME UNCHANGED <<vars, launch>> PROVE [Next]_vars /\ SessionInv'
    <2>1. StreamInv'
      BY <1>1, StreamStep DEF SessionInv
    <2> QED
      BY <1>1, <2>1 DEF SessionInv, outputs, vars
  <1>2. ASSUME Next, "stream" \in outputs, UNCHANGED launch PROVE [Next]_vars /\ SessionInv'
    <2>1. StreamInv'
      BY <1>2, StreamStep DEF SessionInv
    <2> QED
      BY <1>2, <2>1 DEF SessionInv, outputs
  <1>3. CASE Offer
    <2>1. CASE "stream" \in outputs
      BY <1>2, <1>3, <2>1 DEF Offer, Next
    <2>2. CASE "stream" \notin outputs
      <3>1. /\ published < MaxMsgs /\ published' = published + 1
            /\ UNCHANGED <<acceptor, conn, readers, chanVars, serveVars, closed, closer,
                           listening, dropped, historyVars, panicked, launch>>
        BY <1>3, <2>2 DEF Offer
      <3>2. readers = {} /\ ~panicked /\ ch \in [Readers -> Seq(Nat)] /\ dropped \in Nat
        BY <2>2 DEF SessionInv, StreamInv, Inv, TypeOK
      <3>3. ch' = [r \in Readers |-> IF r \in readers /\ ~Full(r)
                                     THEN Append(ch[r], published + 1) ELSE ch[r]]
        BY <3>1, <3>2 DEF chanVars
      <3>4. {r \in readers : Full(r)} = {}
        BY <3>2
      <3>5. dropped' = dropped + Cardinality({r \in readers : Full(r)})
        BY <3>1, <3>2, <3>4, FS_EmptySet
      <3>6. panicked' = (\E r \in readers : chClosed[r])
        <4>1. panicked = FALSE
          BY <3>2 DEF SessionInv, StreamInv, TypeOK
        <4>2. (\E r \in readers : chClosed[r]) = FALSE
          BY <3>2
        <4> QED
          BY <3>1, <4>1, <4>2
      <3>7. Publish
        BY <3>1, <3>2, <3>3, <3>5, <3>6 DEF Publish, chanVars
      <3>8. StreamInv'
        BY <3>7, StreamStep DEF SessionInv, Next
      <3> QED
        BY <3>1, <3>2, <3>7, <3>8 DEF SessionInv, Next
    <2> QED
      BY <2>1, <2>2
  <1>4. CASE StreamRuns
    BY <1>2, <1>4 DEF StreamRuns, Next
  <1>5. CASE CloseStream
    BY <1>2, <1>5 DEF CloseStream, Next
  <1> QED
    BY <1>1, <1>3, <1>4, <1>5
       DEF FanoutNext, OpenLog, NoSession, Log, LogRuns, CloseLog, NextSession, Over, fanoutVars

\* The outputs of a session are a stream as SocketSink has it, whatever is logged beside it
\* and however often a session with a log alone is repeated.
THEOREM SessionHasStream == FanoutSpec => Init /\ [][Next]_vars
  <1>1. FanoutInit => Init /\ SessionInv
    BY StreamInit DEF FanoutInit, SessionInv, Init
  <1> QED
    BY <1>1, SessionStep, PTL DEF FanoutSpec

\* The invariant of the stream, of Fanout.
LEMMA SessionKept == FanoutSpec => []SessionInv
  <1>1. FanoutInit => SessionInv
    BY StreamInit DEF FanoutInit, SessionInv, Init
  <1> QED
    BY <1>1, SessionStep, PTL DEF FanoutSpec

\* Every variable of the stream keeps its type; in particular no reader's channel holds
\* more than its capacity.
THEOREM StreamTypeCorrect == FanoutSpec => []TypeOK
  <1>1. SessionInv => TypeOK
    BY DEF SessionInv, StreamInv
  <1> QED
    BY <1>1, SessionKept, PTL

\* Neither Publish nor Close ever panics (socketSink.Publish, Close, serve and
\* acceptLoop agree on who is registered and whose channel is open).
THEOREM NeverPanicsAlways == FanoutSpec => []NeverPanics
  <1>1. SessionInv => NeverPanics
    BY DEF SessionInv, StreamInv, Inv, NeverPanics
  <1> QED
    BY <1>1, SessionKept, PTL

\* A console gets messages in order and none twice, and what it misses while it is served
\* is counted (socketSink.Publish, serve), for any number of consoles and any buffer.
THEOREM DropsAreCounted == FanoutSpec => []NoSilentDrop
  <1>1. SessionInv => NoSilentDrop
    BY StreamInvImplies DEF SessionInv
  <1> QED
    BY <1>1, SessionKept, PTL

-----------------------------------------------------------------------------
(* Close ends the stream. *)

\* What the goroutines of the stream need to go on, read off their actions.
ServeGuard(r) ==
    /\ "stream" \in outputs
    /\ \/ server[r] = "receive" /\ (ch[r] # << >> \/ chClosed[r])
       \/ server[r] \in {"write", "unregister", "close"}
AcceptGuard ==
    /\ "stream" \in outputs
    /\ \/ acceptor.pc = "accept" /\ (~listening \/ \E r \in Readers : conn[r] = "queued")
       \/ \E r \in Readers : acceptor = [pc |-> "register", reader |-> r]
ListenerGuard == "stream" \in outputs /\ closer = "listener"

\* They are when the actions can be taken.  The prover knows nothing of ENABLED: these are
\* the facts about it that the theorem below starts from.
ServeGuardIsEnabled(r) == ServeGuard(r) => ENABLED <<Serve(r) /\ StreamRuns>>_fanoutVars
CloseGuardsAreEnabled ==
    /\ AcceptGuard => ENABLED <<AcceptLoop /\ StreamRuns>>_fanoutVars
    /\ ListenerGuard => ENABLED <<CloseListener /\ StreamRuns>>_fanoutVars

\* A console that Close finds served has its channel and its connection closed; only the
\* acceptor and a console's own goroutine hold an open connection; the backlog goes with the
\* listener.
Winds(r) ==
    /\ server[r] \in {"receive", "write"} =>
           IF closed THEN chClosed[r] /\ conn[r] = "closed" ELSE r \in readers
    /\ conn[r] = "open" => \/ acceptor = [pc |-> "register", reader |-> r]
                           \/ server[r] \notin {"none", "done"}
    /\ conn[r] = "queued" => listening
    /\ closed => r \notin readers

WindInv ==
    /\ closer = "idle" <=> ~closed
    /\ listening <=> closer # "done"
    /\ acceptor.pc = "register" => \E r \in Readers : acceptor = [pc |-> "register", reader |-> r]
    /\ \A r \in Readers : Winds(r)

\* The steps the goroutine of a console has left once the sink is closed: what is in its hand
\* cannot be written, so it takes no second message.
ServeLeft(r) == CASE server[r] = "receive" -> 4 [] server[r] = "write" -> 3
                  [] server[r] = "unregister" -> 2 [] server[r] = "close" -> 1 [] OTHER -> 0

\* A step of another console, or of the acceptor, leaves this one's part alone.
LEMMA WindsStay ==
  ASSUME NEW r \in Readers, Winds(r), UNCHANGED <<readers, chClosed, server, conn, closed>>,
         listening' = listening, acceptor' = acceptor
  PROVE  Winds(r)'
  BY DEF Winds

\* Every step of the sink keeps WindInv.
LEMMA WindStep == TypeOK /\ Inv /\ WindInv /\ [Next]_vars => WindInv'
  <1> SUFFICES ASSUME TypeOK, Inv, WindInv, [Next]_vars PROVE WindInv'
    OBVIOUS
  <1>0. /\ acceptor \in [pc : {"accept", "register", "done"}, reader : Readers \cup {NoReader}]
        /\ conn \in [Readers -> {"none", "queued", "open", "closed"}]
        /\ readers \subseteq Readers /\ chClosed \in [Readers -> BOOLEAN]
        /\ server \in [Readers -> {"none", "receive", "write", "unregister", "close", "done"}]
        /\ closer \in {"idle", "listener", "done"}
        /\ closed \in BOOLEAN /\ listening \in BOOLEAN
    BY DEF TypeOK
  <1>r. \A r, s : [pc |-> "register", reader |-> r] = [pc |-> "register", reader |-> s] => r = s
    <2> SUFFICES ASSUME NEW r, NEW s,
                        [pc |-> "register", reader |-> r] = [pc |-> "register", reader |-> s]
                 PROVE  r = s
      OBVIOUS
    <2>1. [pc |-> "register", reader |-> r].reader = r
      OBVIOUS
    <2> QED
      BY <2>1
  <1>1. ASSUME NEW r \in Readers, Connect(r) \/ Hangup(r) PROVE WindInv'
    <2>1. UNCHANGED <<acceptor, readers, chClosed, server, closed, closer, listening>>
      BY <1>1 DEF Connect, Hangup, chanVars, serveVars
    <2>2. \/ conn[r] = "none" /\ listening /\ conn' = [conn EXCEPT ![r] = "queued"]
          \/ conn' = [conn EXCEPT ![r] = "closed"]
      BY <1>1 DEF Connect, Hangup
    <2>3. ASSUME NEW s \in Readers PROVE Winds(s)'
      BY <1>0, <2>1, <2>2 DEF WindInv, Winds
    <2> QED
      BY <2>1, <2>3 DEF WindInv
  <1>2. ASSUME NEW r \in Readers, AcceptConn(r) PROVE WindInv'
    <2>1. /\ UNCHANGED <<readers, chClosed, server, closed, closer, listening>>
          /\ acceptor.pc = "accept" /\ acceptor' = [pc |-> "register", reader |-> r]
          /\ conn[r] = "queued" /\ conn' = [conn EXCEPT ![r] = "open"]
      BY <1>2 DEF AcceptConn, chanVars, serveVars
    <2>2. ASSUME NEW s \in Readers PROVE Winds(s)'
      <3>1. acceptor # [pc |-> "register", reader |-> s]
        BY <2>1
      <3> QED
        BY <1>0, <2>1, <3>1 DEF WindInv, Winds
    <2> QED
      BY <2>1, <2>2 DEF WindInv
  <1>3. CASE AcceptError
    <2>1. /\ UNCHANGED <<conn, readers, chClosed, server, closed, closer, listening>>
          /\ acceptor.pc = "accept" /\ acceptor'.pc = "done"
      BY <1>3 DEF AcceptError, chanVars, serveVars
    <2>2. ASSUME NEW s \in Readers PROVE Winds(s)'
      <3>1. acceptor # [pc |-> "register", reader |-> s]
        BY <2>1
      <3> QED
        BY <2>1, <3>1 DEF WindInv, Winds
    <2> QED
      BY <2>1, <2>2 DEF WindInv
  <1>4. ASSUME NEW r \in Readers, Register(r) PROVE WindInv'
    <2>1. /\ UNCHANGED <<chClosed, closed, closer, listening>>
          /\ acceptor = [pc |-> "register", reader |-> r] /\ acceptor'.pc # "register"
      BY <1>4 DEF Register, chanVars
    <2>2. \/ /\ ~closed /\ conn' = conn
             /\ readers' = readers \cup {r} /\ server' = [server EXCEPT ![r] = "receive"]
          \/ /\ closed /\ conn' = [conn EXCEPT ![r] = "closed"]
             /\ UNCHANGED <<readers, server>>
      BY <1>4 DEF Register
    <2>3. ASSUME NEW s \in Readers PROVE Winds(s)'
      <3>1. acceptor = [pc |-> "register", reader |-> s] => s = r
        BY <1>r, <2>1
      <3>2. conn[r] # "queued"
        BY <2>1 DEF Inv
      <3> QED
        BY <1>0, <2>1, <2>2, <3>1, <3>2 DEF WindInv, Winds
    <2> QED
      BY <2>1, <2>3 DEF WindInv
  <1>5. ASSUME NEW r \in Readers, Receive(r) \/ Write(r) \/ WriteFails(r) PROVE WindInv'
    <2>1. UNCHANGED <<acceptor, conn, readers, chClosed, closed, closer, listening>>
      BY <1>5 DEF Receive, Write, WriteFails, chanVars
    <2>2. /\ server[r] \in {"receive", "write"}
          /\ \E w \in {"receive", "write", "unregister"} : server' = [server EXCEPT ![r] = w]
      BY <1>5 DEF Receive, Write, WriteFails
    <2>3. ASSUME NEW s \in Readers PROVE Winds(s)'
      BY <1>0, <2>1, <2>2 DEF WindInv, Winds
    <2> QED
      BY <2>1, <2>3 DEF WindInv
  <1>6. ASSUME NEW r \in Readers, Unregister(r) \/ CloseConn(r) PROVE WindInv'
    <2>1. UNCHANGED <<acceptor, chClosed, closed, closer, listening>>
      BY <1>6 DEF Unregister, CloseConn, chanVars
    <2>2. \/ /\ server[r] = "unregister" /\ server' = [server EXCEPT ![r] = "close"]
             /\ readers' = readers \ {r} /\ conn' = conn
          \/ /\ server[r] = "close" /\ server' = [server EXCEPT ![r] = "done"]
             /\ readers' = readers /\ conn' = [conn EXCEPT ![r] = "closed"]
      BY <1>6 DEF Unregister, CloseConn
    <2>3. ASSUME NEW s \in Readers PROVE Winds(s)'
      BY <1>0, <2>1, <2>2 DEF WindInv, Winds
    <2> QED
      BY <2>1, <2>3 DEF WindInv
  <1>7. CASE CloseReaders
    <2>1. /\ ~closed /\ closed' = TRUE /\ closer' = "listener" /\ readers' = {}
          /\ chClosed' = [r \in Readers |-> chClosed[r] \/ r \in readers]
          /\ conn' = [r \in Readers |-> IF r \in readers THEN "closed" ELSE conn[r]]
          /\ UNCHANGED <<acceptor, server, listening>>
      BY <1>7 DEF CloseReaders, serveVars
    <2>2. ASSUME NEW s \in Readers PROVE Winds(s)'
      BY <1>0, <2>1 DEF WindInv, Winds
    <2> QED
      BY <1>0, <2>1, <2>2 DEF WindInv
  <1>8. CASE CloseListener
    <2>1. /\ closer = "listener" /\ closer' = "done" /\ listening' = FALSE
          /\ conn' = [r \in Readers |-> IF conn[r] = "queued" THEN "closed" ELSE conn[r]]
          /\ UNCHANGED <<acceptor, server, readers, chClosed, closed>>
      BY <1>8 DEF CloseListener, serveVars, chanVars
    <2>2. ASSUME NEW s \in Readers PROVE Winds(s)'
      BY <1>0, <2>1 DEF WindInv, Winds
    <2> QED
      BY <1>0, <2>1, <2>2 DEF WindInv
  <1>9. CASE Publish \/ UNCHANGED vars
    <2>1. UNCHANGED <<acceptor, conn, readers, chClosed, server, closed, closer, listening>>
      BY <1>9 DEF Publish, vars, serveVars
    <2> QED
      BY <2>1, WindsStay DEF WindInv
  <1> QED
    BY <1>1, <1>2, <1>3, <1>4, <1>5, <1>6, <1>7, <1>8, <1>9
       DEF Next, AcceptLoop, AcceptFails, Serve, Finished

\* Once the sink is closed no step gives the goroutine of a console more to do, and its own
\* leave it less.
LEMMA ServeDescends ==
  ASSUME TypeOK, WindInv, closed, [Next]_vars, NEW r \in Readers
  PROVE  /\ closed' /\ ServeLeft(r)' <= ServeLeft(r)
         /\ Serve(r) => ServeLeft(r)' < ServeLeft(r)
  <1>0. server \in [Readers -> {"none", "receive", "write", "unregister", "close", "done"}]
    BY DEF TypeOK
  <1>1. closed'
    BY DEF Next, Connect, Hangup, AcceptLoop, AcceptFails, AcceptError, AcceptConn, Register, Serve, Receive,
           Write, WriteFails, Unregister, CloseConn, Publish, CloseReaders, CloseListener,
           Finished, vars
  <1>2. ServeLeft(r) \in 0 .. 4
    BY DEF ServeLeft
  <1>3. CASE Serve(r)
    <2>1. \/ server[r] = "receive" /\ server'[r] \in {"write", "unregister"}
          \/ server[r] = "write" /\ server'[r] = "unregister"
          \/ server[r] = "unregister" /\ server'[r] = "close"
          \/ server[r] = "close" /\ server'[r] = "done"
      <3>1. ~Write(r)
        BY DEF Write, WindInv, Winds
      <3> QED
        BY <1>0, <1>3, <3>1 DEF Serve, Receive, WriteFails, Unregister, CloseConn
    <2>2. ServeLeft(r)' < ServeLeft(r)
      BY <2>1 DEF ServeLeft
    <2>3. ServeLeft(r)' \in 0 .. 4
      BY DEF ServeLeft
    <2> QED
      BY <1>1, <1>2, <2>2, <2>3
  <1>4. CASE ~Serve(r)
    <2>1. server'[r] = server[r]
      <3>1. ASSUME NEW s \in Readers, s # r, Serve(s) PROVE server'[r] = server[r]
        BY <1>0, <3>1 DEF Serve, Receive, Write, WriteFails, Unregister, CloseConn
      <3>2. ASSUME NEW s \in Readers, Connect(s) \/ Hangup(s) \/ AcceptConn(s) \/ Register(s)
            PROVE  server' = server
        BY <3>2 DEF Connect, Hangup, AcceptConn, Register, serveVars
      <3>3. CASE AcceptError \/ Publish \/ CloseReaders \/ CloseListener \/ UNCHANGED vars
        BY <3>3 DEF AcceptError, Publish, CloseReaders, CloseListener, vars, serveVars
      <3> QED
        BY <1>4, <3>1, <3>2, <3>3 DEF Next, AcceptLoop, AcceptFails, Finished
    <2> QED
      BY <1>1, <1>2, <1>4, <2>1 DEF ServeLeft
  <1> QED
    BY <1>3, <1>4

\* Only a session with a stream has consoles and closes the stream.
OnlyStream == (closed \/ \E r \in Readers : server[r] # "none") => "stream" \in outputs

\* What holds of the stream on its way to the end, in a session.
EndInv == SessionInv /\ WindInv /\ OnlyStream

\* Every step of a session keeps EndInv.
LEMMA EndStep == EndInv /\ [FanoutNext]_fanoutVars => EndInv'
  <1> SUFFICES ASSUME EndInv, [FanoutNext]_fanoutVars PROVE EndInv'
    OBVIOUS
  <1>1. SessionInv' /\ WindInv'
    BY SessionStep, WindStep DEF EndInv, SessionInv, StreamInv
  <1>2. launch' = launch
    BY DEF FanoutNext, OpenLog, NoSession, Offer, Log, LogRuns, StreamRuns, CloseStream, CloseLog,
           NextSession, Over, fanoutVars
  <1>3. ASSUME "stream" \in outputs PROVE OnlyStream'
    BY <1>2, <1>3 DEF OnlyStream, outputs
  <1>4. ASSUME "stream" \notin outputs PROVE OnlyStream'
    <2>1. UNCHANGED <<closed, server>>
      BY <1>4 DEF FanoutNext, OpenLog, NoSession, Offer, Log, LogRuns, StreamRuns, CloseStream,
                  CloseLog, NextSession, Over, fanoutVars, vars, serveVars
    <2> QED
      BY <1>2, <2>1 DEF OnlyStream, outputs, EndInv
  <1> QED
    BY <1>1, <1>3, <1>4 DEF EndInv

\* EndInv holds throughout.
LEMMA EndKept == FanoutSpec => []EndInv
  <1>1. FanoutInit => EndInv
    <2> SUFFICES ASSUME FanoutInit PROVE EndInv
      OBVIOUS
    <2>1. SessionInv
      BY StreamInit DEF FanoutInit, SessionInv, Init
    <2>2. WindInv
      BY DEF FanoutInit, Init, WindInv, Winds
    <2> QED
      BY <2>1, <2>2 DEF FanoutInit, Init, EndInv, OnlyStream
  <1> QED
    BY <1>1, EndStep, PTL DEF FanoutSpec

\* The goroutine of a console goes on as the specification's fairness has it.
ServeRuns(r) == /\ []EndInv /\ [][FanoutNext]_fanoutVars
                /\ []ServeGuardIsEnabled(r) /\ ServeIsFair(r)

\* The sink is closed, and the goroutine of r has at most n steps left.
LeavesIn(r, n) == closed /\ ServeLeft(r) <= n
Leaves(r, n, m) == LeavesIn(r, n) ~> LeavesIn(r, m)

\* One step at a time is taken, whatever the others do.
LEMMA ServeOneStepOn ==
  ASSUME NEW r \in Readers, NEW n \in Nat, NEW m \in Nat, n = m + 1
  PROVE  ServeRuns(r) => Leaves(r, n, m)
  <1>1. EndInv /\ LeavesIn(r, n) /\ [FanoutNext]_fanoutVars => LeavesIn(r, n)'
    <2> SUFFICES ASSUME EndInv, LeavesIn(r, n), [FanoutNext]_fanoutVars PROVE LeavesIn(r, n)'
      OBVIOUS
    <2>1. ServeLeft(r) \in 0 .. 4 /\ ServeLeft(r)' \in 0 .. 4
      BY DEF ServeLeft
    <2>2. closed' /\ ServeLeft(r)' <= ServeLeft(r)
      BY SessionStep, ServeDescends DEF EndInv, SessionInv, StreamInv, LeavesIn
    <2> QED
      BY <2>1, <2>2 DEF LeavesIn
  <1>2. EndInv /\ LeavesIn(r, n) /\ [FanoutNext]_fanoutVars /\ <<Serve(r) /\ StreamRuns>>_fanoutVars
            => LeavesIn(r, m)'
    <2> SUFFICES ASSUME EndInv, LeavesIn(r, n), [FanoutNext]_fanoutVars, Serve(r)
                 PROVE  LeavesIn(r, m)'
      OBVIOUS
    <2>1. ServeLeft(r) \in 0 .. 4 /\ ServeLeft(r)' \in 0 .. 4
      BY DEF ServeLeft
    <2>2. closed' /\ ServeLeft(r)' < ServeLeft(r)
      BY SessionStep, ServeDescends DEF EndInv, SessionInv, StreamInv, LeavesIn
    <2> QED
      BY <2>1, <2>2 DEF LeavesIn
  <1>3. EndInv /\ LeavesIn(r, n) => ServeGuard(r) \/ LeavesIn(r, m)
    <2> SUFFICES ASSUME EndInv, LeavesIn(r, n), ~LeavesIn(r, m) PROVE ServeGuard(r)
      OBVIOUS
    <2>1. ServeLeft(r) # 0
      BY DEF LeavesIn
    <2>2. server[r] \in {"receive", "write", "unregister", "close"}
      BY <2>1 DEF ServeLeft
    <2> QED
      BY <2>2 DEF EndInv, OnlyStream, WindInv, Winds, LeavesIn, ServeGuard
  <1> QED
    BY <1>1, <1>2, <1>3, PTL DEF ServeRuns, ServeGuardIsEnabled, ServeIsFair, Leaves

\* The acceptor and the closing of the listener, likewise.
CloseRuns == /\ []EndInv /\ [][FanoutNext]_fanoutVars /\ []CloseGuardsAreEnabled
             /\ WF_fanoutVars(AcceptLoop /\ StreamRuns)
             /\ WF_fanoutVars(CloseListener /\ StreamRuns)

ListenerEnds == closed ~> closer = "done"

\* Once it is closed the sink stops listening, ...
LEMMA ListenerIsClosed == CloseRuns => ListenerEnds
  <1> DEFINE On == closed
             Off == closed /\ closer = "done"
  <1>1. EndInv /\ On /\ [FanoutNext]_fanoutVars => On'
    BY SessionStep DEF EndInv, Next, Connect, Hangup, AcceptLoop, AcceptFails, AcceptError, AcceptConn,
           Register, Serve, Receive, Write, WriteFails, Unregister, CloseConn, Publish,
           CloseReaders, CloseListener, Finished, vars
  <1>2. EndInv /\ On /\ [FanoutNext]_fanoutVars /\ <<CloseListener /\ StreamRuns>>_fanoutVars
            => (closer = "done")'
    BY DEF CloseListener
  <1>3. EndInv /\ On => ListenerGuard \/ closer = "done"
    BY DEF EndInv, SessionInv, StreamInv, TypeOK, WindInv, OnlyStream, ListenerGuard
  <1> QED
    BY <1>1, <1>2, <1>3, PTL DEF CloseRuns, CloseGuardsAreEnabled, ListenerEnds

\* ... which stays so, ...
LEMMA ListenerStays == EndInv /\ closer = "done" /\ [FanoutNext]_fanoutVars => (closer = "done")'
  BY SessionStep DEF EndInv, WindInv, Next, Connect, Hangup, AcceptLoop, AcceptFails, AcceptError, AcceptConn,
         Register, Serve, Receive, Write, WriteFails, Unregister, CloseConn, Publish,
         CloseReaders, CloseListener, Finished, vars

\* ... and one more step of the acceptor is its last.
LEMMA AcceptorIsDone == CloseRuns => AcceptorEnds
  <1>1. EndInv /\ closer = "done" /\ [FanoutNext]_fanoutVars /\ <<AcceptLoop /\ StreamRuns>>_fanoutVars
            => (acceptor.pc = "done")'
    <2> SUFFICES ASSUME EndInv, closer = "done", AcceptLoop PROVE acceptor'.pc = "done"
      OBVIOUS
    <2>1. closed /\ ~listening
      BY DEF EndInv, WindInv
    <2>2. acceptor' = [pc |-> "done", reader |-> NoReader]
      BY <2>1 DEF AcceptLoop, AcceptFails, AcceptError, AcceptConn, Register
    <2> QED
      BY <2>2
  <1>2. EndInv /\ closer = "done" => AcceptGuard \/ acceptor.pc = "done"
    <2> SUFFICES ASSUME EndInv, closer = "done" PROVE AcceptGuard \/ acceptor.pc = "done"
      OBVIOUS
    <2>1. closed /\ ~listening /\ "stream" \in outputs
      BY DEF EndInv, WindInv, OnlyStream
    <2>2. acceptor.pc \in {"accept", "register", "done"}
      BY DEF EndInv, SessionInv, StreamInv, TypeOK
    <2> QED
      BY <2>1, <2>2 DEF AcceptGuard, EndInv, WindInv
  <1>3. CloseRuns => closer = "done" ~> acceptor.pc = "done"
    BY <1>1, <1>2, ListenerStays, PTL DEF CloseRuns, CloseGuardsAreEnabled
  <1> QED
    BY <1>3, ListenerIsClosed, PTL DEF ListenerEnds, AcceptorEnds

\* An acceptor that is done stays so.
LEMMA AcceptorStays ==
    EndInv /\ acceptor.pc = "done" /\ [FanoutNext]_fanoutVars => (acceptor.pc = "done")'
  <1> SUFFICES ASSUME EndInv, acceptor.pc = "done", [FanoutNext]_fanoutVars
               PROVE  acceptor' = acceptor
    OBVIOUS
  <1>1. ~AcceptError /\ \A r \in Readers : ~AcceptConn(r) /\ ~Register(r)
    BY DEF AcceptError, AcceptConn, Register
  <1>2. [Next]_vars
    BY SessionStep DEF EndInv
  <1> QED
    BY <1>1, <1>2 DEF Next, Connect, Hangup, AcceptLoop, AcceptFails, Serve, Receive, Write, WriteFails,
           Unregister, CloseConn, Publish, CloseReaders, CloseListener, Finished, vars

\* A console comes off in four steps of its goroutine; with the acceptor done and the
\* listener closed nobody else holds its connection.
LEMMA ReaderIsDone ==
  ASSUME NEW r \in Readers
  PROVE  CloseRuns /\ ServeRuns(r) => ReaderEnds(r)
  <1>1. ServeRuns(r) => /\ Leaves(r, 4, 3) /\ Leaves(r, 3, 2) /\ Leaves(r, 2, 1) /\ Leaves(r, 1, 0)
    BY ServeOneStepOn
  <1>2. closed => LeavesIn(r, 4)
    BY DEF LeavesIn, ServeLeft
  <1>3. EndInv /\ LeavesIn(r, 0) /\ [FanoutNext]_fanoutVars => LeavesIn(r, 0)'
    <2> SUFFICES ASSUME EndInv, LeavesIn(r, 0), [FanoutNext]_fanoutVars PROVE LeavesIn(r, 0)'
      OBVIOUS
    <2>1. ServeLeft(r) \in 0 .. 4 /\ ServeLeft(r)' \in 0 .. 4
      BY DEF ServeLeft
    <2>2. closed' /\ ServeLeft(r)' <= ServeLeft(r)
      BY SessionStep, ServeDescends DEF EndInv, SessionInv, StreamInv, LeavesIn
    <2> QED
      BY <2>1, <2>2 DEF LeavesIn
  <1>4. EndInv /\ LeavesIn(r, 0) /\ closer = "done" /\ acceptor.pc = "done"
            => server[r] \in {"none", "done"} /\ conn[r] \in {"none", "closed"}
    <2> SUFFICES ASSUME EndInv, LeavesIn(r, 0), closer = "done", acceptor.pc = "done"
                 PROVE  server[r] \in {"none", "done"} /\ conn[r] \in {"none", "closed"}
      OBVIOUS
    <2>1. /\ server[r] \in {"none", "receive", "write", "unregister", "close", "done"}
          /\ conn[r] \in {"none", "queued", "open", "closed"}
      BY DEF EndInv, SessionInv, StreamInv, TypeOK
    <2>2. server[r] \in {"none", "done"}
      BY <2>1 DEF LeavesIn, ServeLeft
    <2>3. acceptor # [pc |-> "register", reader |-> r] /\ ~listening
      BY DEF EndInv, WindInv
    <2> QED
      BY <2>1, <2>2, <2>3 DEF EndInv, WindInv, Winds
  <1>5. ServeRuns(r) => closed ~> LeavesIn(r, 0)
    BY <1>1, <1>2, PTL DEF Leaves
  <1> QED
    BY <1>3, <1>4, <1>5, ListenerStays, AcceptorStays, ListenerIsClosed, AcceptorIsDone, PTL
       DEF CloseRuns, ServeRuns, ListenerEnds, AcceptorEnds, ReaderEnds

\* After Close every goroutine of the sink ends and every connection is closed, for any
\* number of consoles, any buffer and however full (socketSink.Close, serve, acceptLoop):
\* given when the goroutines' actions are ENABLED.
THEOREM CloseAlwaysEnds ==
    FanoutSpec /\ []CloseGuardsAreEnabled /\ [](\A r \in Readers : ServeGuardIsEnabled(r))
        => CloseEnds
  <1> DEFINE Given == /\ FanoutSpec /\ []CloseGuardsAreEnabled
                      /\ [](\A r \in Readers : ServeGuardIsEnabled(r))
  <1>1. Given => CloseRuns
    BY EndKept, PTL DEF CloseRuns, FanoutSpec, FanoutFairness
  <1>2. ASSUME NEW s \in Readers PROVE Given => ReaderEnds(s)
    <2>1. (\A r \in Readers : ServeGuardIsEnabled(r)) => ServeGuardIsEnabled(s)
      OBVIOUS
    <2>2. FanoutSpec => ServeIsFair(s)
      <3>1. FanoutSpec => \A r \in Readers : ServeIsFair(r)
        BY PTL DEF FanoutSpec, FanoutFairness
      <3>2. (\A r \in Readers : ServeIsFair(r)) => ServeIsFair(s)
        OBVIOUS
      <3> QED
        BY <3>1, <3>2, PTL
    <2>3. [](\A r \in Readers : ServeGuardIsEnabled(r)) => []ServeGuardIsEnabled(s)
      BY <2>1, PTL
    <2>4. FanoutSpec => [][FanoutNext]_fanoutVars
      BY PTL DEF FanoutSpec
    <2>5. Given => ServeRuns(s)
      BY <2>2, <2>3, <2>4, EndKept, PTL DEF ServeRuns
    <2>6. CloseRuns /\ ServeRuns(s) => ReaderEnds(s)
      BY ReaderIsDone
    <2> HIDE DEF Given
    <2> QED
      BY <1>1, <2>5, <2>6, PTL
  <1>3. Given => \A r \in Readers : ReaderEnds(r)
    <2> HIDE DEF Given
    <2> QED
      BY <1>2
  <1> QED
    BY <1>1, <1>3, AcceptorIsDone, PTL DEF CloseEnds

-----------------------------------------------------------------------------
(* The bytes of a file. *)

\* One step of the sum that Bytes is.
IsBytes(it, file) ==
    \A t \in SUBSET DOMAIN file :
        it[t] = IF t = {} THEN 0 ELSE it[t \ {Max(t)}] + file[Max(t)].n

\* The largest of the first numbers.
LEMMA MaxIsIn ==
    ASSUME NEW n \in Nat, NEW t \in SUBSET (1 .. n), t # {}
    PROVE  Max(t) \in t /\ \A y \in t : Max(t) >= y
<1>1. t \in SUBSET (0 .. n)
  OBVIOUS
<1>2. \E x \in t : \A y \in t : x >= y
  BY <1>1, LargestNat
<1>. QED
  BY <1>2 DEF Max

\* Bytes is such a sum.
LEMMA BytesIs ==
    ASSUME NEW file \in Seq(Piece)
    PROVE  \E it : /\ IsBytes(it, file) /\ Bytes(file) = it[DOMAIN file]
                   /\ \A t \in SUBSET DOMAIN file : it[t] \in Nat
<1>. DEFINE S == DOMAIN file
            c == [t \in SUBSET S |-> Max(t)]
            step == [p \in S \X Nat |-> p[2] + file[p[1]].n]
            Is(it) == it = [t \in SUBSET S |-> IF t = {} THEN 0 ELSE it[t \ {Max(t)}] + file[Max(t)].n]
<1>1. Len(file) \in Nat /\ S = 1 .. Len(file) /\ IsFiniteSet(S)
  BY FS_Interval
<1>2. \A i \in S : file[i].n \in Nat
  <2>1. \A i \in S : file[i] \in Piece
    BY <1>1
  <2>. QED
    BY <2>1 DEF Piece
<1>3. step \in [S \X Nat -> Nat]
  BY <1>2
<1>4. \A t \in SUBSET S : c[t] = Max(t)
  OBVIOUS
<1>5. \A i \in S, k \in Nat : step[i, k] = k + file[i].n
  OBVIOUS
<1>. HIDE DEF S, c, step
<1>6. \A t \in SUBSET S : t # {} => c[t] \in t
  BY <1>1, <1>4, MaxIsIn
<1>7. PICK g \in [SUBSET S -> Nat] : IsFold(g, S, c, step, 0)
  <2>1. 0 \in Nat
    OBVIOUS
  <2>. QED
    BY <1>1, <1>3, <1>6, <2>1, FoldExists
<1>8. \A t \in SUBSET S : g[t] = IF t = {} THEN 0 ELSE g[t \ {Max(t)}] + file[Max(t)].n
  <2>1. ASSUME NEW t \in SUBSET S, t # {}
        PROVE  g[t] = g[t \ {Max(t)}] + file[Max(t)].n
    <3>1. PICK m \in S : m = Max(t) /\ m = c[t]
      BY <1>4, <1>6, <2>1
    <3>2. PICK r \in SUBSET S : r = t \ {m}
      OBVIOUS
    <3>3. g[t] = step[m, g[r]]
      BY <1>7, <2>1, <3>1, <3>2 DEF IsFold
    <3>4. g[r] \in Nat
      BY <1>7
    <3>. QED
      BY <1>5, <3>1, <3>2, <3>3, <3>4
  <2>2. g[{}] = 0
    BY <1>7 DEF IsFold
  <2>. QED
    BY <2>1, <2>2
<1>9. Is(g)
  BY <1>7, <1>8
<1>. DEFINE h == CHOOSE it : Is(it)
<1>10. Is(h)
  <2>. HIDE DEF Is
  <2>. QED
    BY <1>9
<1>11. Bytes(file) = h[S]
  BY DEF Bytes, FoldLeft, MapThenFoldSet, S
<1>. HIDE DEF h
<1>12. IsBytes(h, file)
  BY <1>10 DEF IsBytes, S
<1>13. \A t \in SUBSET S : h[t] \in Nat
  <2>. DEFINE T == {t \in SUBSET S : h[t] \notin Nat}
  <2>1. SUFFICES ASSUME T # {} PROVE FALSE
    OBVIOUS
  <2>2. PICK t \in T : \A u \in T : u \subseteq t => u = t
    <3>1. T \in SUBSET (SUBSET S) /\ IsFiniteSet(S) /\ T # {}
      BY <1>1, <2>1
    <3>. HIDE DEF T
    <3>. QED
      BY <3>1, LeastSet
  <2>3. t \in SUBSET S /\ h[t] \notin Nat
    BY <2>2
  <2>4. h[t] = IF t = {} THEN 0 ELSE h[t \ {Max(t)}] + file[Max(t)].n
    BY <1>12, <2>3 DEF IsBytes, S
  <2>5. t # {}
    BY <2>3, <2>4
  <2>6. PICK m \in S : m = Max(t) /\ m \in t
    BY <1>4, <1>6, <2>3, <2>5
  <2>7. h[t \ {m}] \in Nat
    BY <2>2, <2>3, <2>6
  <2>. QED
    BY <1>2, <2>3, <2>4, <2>5, <2>6, <2>7
<1>. QED
  BY <1>11, <1>12, <1>13 DEF S

\* What comes after the pieces of a file does not change what they add up to.
LEMMA BytesUnique ==
    ASSUME NEW file \in Seq(Piece), NEW longer \in Seq(Piece),
           DOMAIN file \subseteq DOMAIN longer,
           \A i \in DOMAIN file : longer[i] = file[i],
           NEW f, NEW g, IsBytes(f, file), IsBytes(g, longer)
    PROVE  \A t \in SUBSET DOMAIN file : f[t] = g[t]
<1>. DEFINE S == DOMAIN file
            T == {t \in SUBSET S : f[t] # g[t]}
<1>1. Len(file) \in Nat /\ S = 1 .. Len(file) /\ IsFiniteSet(S)
  BY FS_Interval
<1>. HIDE DEF S
<1>2. SUFFICES ASSUME T # {} PROVE FALSE
  BY DEF S
<1>3. PICK t \in T : \A u \in T : u \subseteq t => u = t
  <2>1. T \in SUBSET (SUBSET S) /\ IsFiniteSet(S) /\ T # {}
    BY <1>1, <1>2
  <2>. HIDE DEF T
  <2>. QED
    BY <2>1, LeastSet
<1>4. t \in SUBSET S /\ t # {}
  BY <1>3 DEF IsBytes, S
<1>5. PICK m \in S : m = Max(t) /\ m \in t
  BY <1>1, <1>4, MaxIsIn
<1>6. PICK r \in SUBSET S : r = t \ {m}
  BY <1>4
<1>7. f[t] = f[r] + file[m].n /\ g[t] = g[r] + file[m].n
  <2>1. f[t] = f[r] + file[m].n
    BY <1>4, <1>5, <1>6 DEF IsBytes, S
  <2>2. g[t] = g[r] + longer[m].n
    BY <1>4, <1>5, <1>6 DEF IsBytes, S
  <2>. QED
    BY <1>5, <2>1, <2>2 DEF S
<1>8. f[r] = g[r]
  BY <1>3, <1>5, <1>6
<1>. QED
  BY <1>3, <1>7, <1>8

\* A piece that is appended adds its bytes.
LEMMA BytesAdd ==
    ASSUME NEW file \in Seq(Piece)
    PROVE  /\ Bytes(<< >>) = 0
           /\ Bytes(file) \in Nat
           /\ \A p \in Piece : Bytes(Append(file, p)) = Bytes(file) + p.n
<1>1. Bytes(<< >>) = 0
  <2>1. << >> \in Seq(Piece) /\ DOMAIN << >> = {}
    OBVIOUS
  <2>2. PICK f : IsBytes(f, << >>) /\ Bytes(<< >>) = f[DOMAIN << >>]
    BY <2>1, BytesIs
  <2>. QED
    BY <2>1, <2>2 DEF IsBytes
<1>2. PICK f : /\ IsBytes(f, file) /\ Bytes(file) = f[DOMAIN file]
               /\ \A t \in SUBSET DOMAIN file : f[t] \in Nat
  BY BytesIs
<1>3. ASSUME NEW p \in Piece PROVE Bytes(Append(file, p)) = Bytes(file) + p.n
  <2>. DEFINE longer == Append(file, p)
              n == Len(file)
  <2>1. /\ longer \in Seq(Piece) /\ n \in Nat
        /\ DOMAIN file = 1 .. n /\ DOMAIN longer = 1 .. n + 1
        /\ \A i \in 1 .. n : longer[i] = file[i]
        /\ longer[n + 1] = p
    OBVIOUS
  <2>. HIDE DEF longer, n
  <2>2. PICK g : IsBytes(g, longer) /\ Bytes(longer) = g[DOMAIN longer]
    BY <2>1, BytesIs
  <2>3. \A t \in SUBSET DOMAIN file : f[t] = g[t]
    <3>1. DOMAIN file \subseteq DOMAIN longer /\ \A i \in DOMAIN file : longer[i] = file[i]
      BY <2>1
    <3>. QED
      BY <1>2, <2>1, <2>2, <3>1, BytesUnique
  <2>4. Max(1 .. n + 1) = n + 1
    <3>1. n + 1 \in Nat /\ n + 1 \in 1 .. n + 1 /\ 1 .. n + 1 \in SUBSET (1 .. n + 1)
      BY <2>1
    <3>2. Max(1 .. n + 1) \in 1 .. n + 1 /\ \A y \in 1 .. n + 1 : Max(1 .. n + 1) >= y
      BY <3>1, MaxIsIn
    <3>. QED
      BY <2>1, <3>2
  <2>5. (1 .. n + 1) \ {n + 1} = 1 .. n /\ 1 .. n + 1 # {}
    <3>1. n + 1 \in 1 .. n + 1
      BY <2>1
    <3>2. \A i \in Int : i \in 1 .. n + 1 /\ i # n + 1 <=> i \in 1 .. n
      BY <2>1
    <3>. QED
      BY <3>1, <3>2
  <2>6. g[1 .. n + 1] = g[1 .. n] + p.n
    BY <2>1, <2>2, <2>4, <2>5 DEF IsBytes
  <2>7. g[1 .. n] = f[1 .. n]
    BY <2>1, <2>3
  <2>. QED
    BY <1>2, <2>1, <2>2, <2>6, <2>7 DEF longer
<1>. QED
  BY <1>1, <1>2, <1>3

-----------------------------------------------------------------------------
(* The log in a session. *)

\* The messages whose turn it was to be logged, in this session or an earlier one.
Logged == (1 .. published) \ waiting

NumbersOK == published \in Nat /\ waiting \subseteq 1 .. published

LogMoves ==
    \/ UNCHANGED logVars
    \/ \E cut \in 1 .. Keep + 1 : \E gone \in SUBSET Gens :
           LogOpen(cut, gone) \/ LogOpenFails(cut, gone)
    \/ \E m \in waiting : \E s \in Sizes : LogPublish(m, s) /\ m \in Logged'
    \/ LogStep \/ LogClose \/ LogExit

\* What a step of a session does to the log; a message is logged once.
LEMMA LogSteps ==
    NumbersOK /\ [FanoutNext]_fanoutVars => NumbersOK' /\ Logged \subseteq Logged' /\ LogMoves
<1>. SUFFICES ASSUME NumbersOK, [FanoutNext]_fanoutVars
              PROVE  NumbersOK' /\ Logged \subseteq Logged' /\ LogMoves
  OBVIOUS
<1>. USE DEF NumbersOK
<1>1. ASSUME UNCHANGED <<published, waiting>> PROVE NumbersOK' /\ Logged \subseteq Logged'
  BY <1>1 DEF Logged
<1>2. CASE OpenLog \/ NoSession \/ LogRuns \/ CloseLog \/ Over \/ UNCHANGED fanoutVars
  <2>1. UNCHANGED <<published, waiting>>
    BY <1>2 DEF OpenLog, NoSession, LogRuns, CloseLog, Over, fanoutVars, vars
  <2>2. LogMoves
    BY <1>2 DEF OpenLog, NoSession, LogRuns, CloseLog, Over, fanoutVars, LogMoves
  <2>. QED
    BY <1>1, <2>1, <2>2
<1>3. CASE Offer
  <2>1. /\ published' = published + 1 /\ UNCHANGED logVars
        /\ waiting' \subseteq waiting \cup {published + 1}
    BY <1>3 DEF Offer, Publish
  <2>. QED
    BY <2>1 DEF Logged, LogMoves
<1>4. ASSUME NEW m \in waiting, Log(m) PROVE NumbersOK' /\ Logged \subseteq Logged' /\ LogMoves
  <2>1. published' = published /\ waiting' = waiting \ {m}
    BY <1>4 DEF Log, vars
  <2>2. m \in Logged' /\ Logged \subseteq Logged'
    BY <2>1 DEF Logged
  <2>3. \E s \in Sizes : LogPublish(m, s)
    BY <1>4 DEF Log
  <2>. QED
    BY <2>1, <2>2, <2>3 DEF LogMoves
<1>5. CASE StreamRuns \/ CloseStream
  <2>1. UNCHANGED <<published, waiting, logVars>>
    BY <1>5 DEF StreamRuns, CloseStream, AcceptLoop, Serve, Connect, Hangup, AcceptConn, AcceptFails,
                AcceptError, Register, Receive, Write, WriteFails, Unregister, CloseConn, CloseReaders,
                CloseListener
  <2>. QED
    BY <1>1, <2>1 DEF LogMoves
<1>6. CASE NextSession
  <2>1. published' = published /\ waiting' = {} /\ LogExit
    BY <1>6 DEF NextSession, vars
  <2>. QED
    BY <2>1 DEF Logged, LogMoves
<1>. QED
  BY <1>2, <1>3, <1>4, <1>5, <1>6 DEF FanoutNext

\* Where a publish may be, by what the log is.
LogPlace == /\ logPc = "shift" => shifting < Keep
            /\ logPc # "idle" => line.size \in Sizes
            /\ log = "off" => logPc = "idle"
            /\ logPc \in {"shift", "reopen"} => log = "dead"
            /\ log = "dead" => logPc \in {"idle", "shift", "reopen"}
            /\ log = "open" => 0 \in exists

\* Every operation on the log's files keeps the types.
LEMMA LogTypeStep == LogTypeOK /\ LogPlace /\ NumbersOK /\ LogMoves => LogTypeOK'
<1>. SUFFICES ASSUME LogTypeOK, LogPlace, NumbersOK, LogMoves PROVE LogTypeOK'
  OBVIOUS
<1>k. /\ Keep \in Nat \ {0} /\ Keep \in Gens /\ 0 \in Gens /\ gens \in [Gens -> Seq(Piece)]
      /\ Keep - 1 \in Gens
  BY LogAssumption DEF Gens, LogTypeOK
<1>l. line \in Piece /\ line.msg \in Nat /\ line.size \in Nat /\ size \in Nat
  BY DEF LogTypeOK, Piece
<1>. USE LogAssumption DEF LogTypeOK, Gens
<1>m. ASSUME NEW file \in Seq(Piece) PROVE Messages(file) \subseteq Nat
  <2>1. \A i \in DOMAIN file : file[i] \in Piece
    OBVIOUS
  <2>. QED
    BY <2>1 DEF Messages, Whole, Piece
<1>n. NoLine \in Piece
  BY DEF NoLine, Piece
<1>e. << >> \in Seq(Piece)
  OBVIOUS
<1>1. ASSUME NEW cut \in 1 .. Keep + 1, NEW gone \in SUBSET Gens,
             LogOpen(cut, gone) \/ LogOpenFails(cut, gone)
      PROVE  LogTypeOK'
  <2>1. /\ gens' = [g \in Gens |-> IF g \in gone THEN << >> ELSE gens[g]]
        /\ refused' = (refused \/ gone # Aged(cut))
        /\ aged' = aged \cup UNION {Messages(gens[g]) : g \in gone}
        /\ UNCHANGED <<logPc, shifting, line, accepted>>
    BY <1>1 DEF LogOpen, LogOpenFails, Prune
  <2>2. gens' \in [Gens -> Seq(Piece)]
    BY <1>e, <2>1
  <2>3. aged' \subseteq Nat
    BY <1>m, <2>1
  <2>4. refused' \in BOOLEAN
    BY <2>1
  <2>5. /\ exists' \subseteq Gens /\ exists \ gone \subseteq exists'
        /\ log' \in {"off", "open", "closed", "dead"} /\ size' \in Nat
    <3>1. 0 \in Gens /\ Bytes(gens[0]) \in Nat
      BY BytesAdd
    <3>. QED
      BY <1>1, <3>1 DEF LogOpen, LogOpenFails
  <2>6. \A g \in Gens \ exists' : gens'[g] = << >>
    BY <2>1, <2>5
  <2>. QED
    BY <2>1, <2>2, <2>3, <2>4, <2>5, <2>6
<1>2. ASSUME NEW m \in waiting, NEW s \in Sizes, LogPublish(m, s) PROVE LogTypeOK'
  <2>1. line' \in Piece /\ logPc' \in {"idle", "remove", "shift", "reopen", "write"}
    BY <1>2 DEF LogPublish, Piece, NumbersOK
  <2>. QED
    BY <1>2, <2>1 DEF LogPublish
<1>3. CASE RemoveOldest
  <2>1. aged' \subseteq Nat
    <3>1. Messages(gens[Keep]) \subseteq Nat
      BY <1>k, <1>m
    <3>. QED
      BY <1>3, <3>1 DEF RemoveOldest
  <2>2. gens' \in [Gens -> Seq(Piece)] /\ exists' \subseteq Gens
        /\ \A g \in Gens \ exists' : gens'[g] = << >>
    BY <1>3, <1>e DEF RemoveOldest
  <2>. QED
    BY <1>3, <1>k, <2>1, <2>2 DEF RemoveOldest
<1>4. CASE Shift
  <2>1. gens' \in [Gens -> Seq(Piece)] /\ exists' \subseteq Gens
        /\ (\A g \in Gens \ exists' : gens'[g] = << >>) /\ refused' \in BOOLEAN
    <3>1. CASE shifting \in exists /\ Rename(shifting, shifting + 1) /\ UNCHANGED refused
      <4>1. shifting + 1 \in Gens
        BY <1>4, <1>k DEF Shift, LogPlace
      <4>. QED
        BY <1>e, <3>1, <4>1 DEF Rename
    <3>2. CASE UNCHANGED <<gens, exists>> /\ refused' \in {refused, TRUE}
      BY <3>2
    <3>. QED
      BY <1>4, <3>1, <3>2 DEF Shift
  <2>2. shifting' \in Gens /\ logPc' \in {"shift", "reopen"}
    BY <1>4 DEF Shift
  <2>. QED
    BY <1>4, <2>1, <2>2 DEF Shift
<1>5. CASE Reopen
  <2>1. /\ line' \in Piece /\ logPc' \in {"write", "idle"} /\ log' \in {"open", log}
        /\ size' \in Nat /\ exists \subseteq exists' /\ exists' \subseteq exists \cup {0}
        /\ UNCHANGED <<gens, shifting, accepted, refused, aged>>
    BY <1>5, <1>l, <1>n DEF Reopen
  <2>. QED
    BY <1>k, <2>1
<1>6. CASE WriteLine
  <2>1. PICK n \in IF log = "open" THEN Written ELSE {0} :
            /\ gens' = IF n = 0 THEN gens
                       ELSE [gens EXCEPT ![0] = Append(@, [line EXCEPT !.n = n])]
            /\ size' = size + n
            /\ accepted' = IF n = line.size THEN Append(accepted, line.msg) ELSE accepted
    BY <1>6 DEF WriteLine
  <2>2. n \in Nat
    BY <1>l, <2>1 DEF Written
  <2>3. [line EXCEPT !.n = n] \in Piece
    BY <1>l, <2>2 DEF Piece
  <2>4. gens' \in [Gens -> Seq(Piece)] /\ \A g \in Gens : g # 0 => gens'[g] = gens[g]
    <3>1. CASE n = 0
      BY <1>k, <2>1, <3>1
    <3>2. CASE n # 0
      <4>1. Append(gens[0], [line EXCEPT !.n = n]) \in Seq(Piece)
        <5>1. PICK p \in Piece : p = [line EXCEPT !.n = n]
          BY <2>3
        <5>2. gens[0] \in Seq(Piece)
          BY <1>k
        <5>3. Append(gens[0], p) \in Seq(Piece)
          BY <5>2
        <5>. QED
          BY <5>1, <5>3
      <4>2. gens' = [gens EXCEPT ![0] = Append(gens[0], [line EXCEPT !.n = n])]
        BY <1>k, <2>1, <3>2
      <4>. QED
        BY <1>k, <4>1, <4>2
    <3>. QED
      BY <3>1, <3>2
  <2>5. accepted' \in Seq(Nat) /\ size' \in Nat
    BY <1>l, <2>1, <2>2
  <2>6. \A g \in Gens \ exists : gens'[g] = << >>
    <3>1. n # 0 => 0 \in exists
      BY <2>1 DEF LogPlace
    <3>. QED
      BY <2>1, <2>4, <3>1
  <2>. QED
    BY <1>6, <1>n, <2>4, <2>5, <2>6 DEF WriteLine
<1>7. CASE LogClose
  BY <1>7 DEF LogClose
<1>8. CASE LogExit
  BY <1>8, <1>n DEF LogExit
<1>9. CASE UNCHANGED logVars
  BY <1>9 DEF logVars
<1>. QED
  BY <1>1, <1>2, <1>3, <1>4, <1>5, <1>6, <1>7, <1>8, <1>9 DEF LogMoves, LogStep

\* Where Publish and rotate are fits which files there are and whether one is open.
LEMMA LogPlaceStep == LogTypeOK /\ LogPlace /\ LogMoves => LogPlace'
<1>. SUFFICES ASSUME LogTypeOK, LogPlace, LogMoves PROVE LogPlace'
  OBVIOUS
<1>k. Keep \in Nat \ {0} /\ shifting \in 0 .. Keep
  BY LogAssumption DEF Gens, LogTypeOK
<1>. USE DEF LogPlace
<1>1. ASSUME NEW cut \in 1 .. Keep + 1, NEW gone \in SUBSET Gens, LogOpen(cut, gone)
      PROVE  LogPlace'
  BY <1>1 DEF LogOpen, Prune
<1>2. ASSUME NEW cut \in 1 .. Keep + 1, NEW gone \in SUBSET Gens, LogOpenFails(cut, gone)
      PROVE  LogPlace'
  BY <1>2 DEF LogOpenFails, Prune
<1>3. ASSUME NEW m \in waiting, NEW s \in Sizes, LogPublish(m, s) PROVE LogPlace'
  BY <1>3 DEF LogPublish
<1>4. CASE RemoveOldest
  BY <1>4, <1>k DEF RemoveOldest
<1>5. CASE Shift
  BY <1>5, <1>k DEF Shift
<1>6. CASE Reopen
  BY <1>6 DEF Reopen
<1>7. CASE WriteLine
  BY <1>7 DEF WriteLine
<1>8. CASE LogClose
  BY <1>8 DEF LogClose
<1>9. CASE LogExit
  BY <1>9 DEF LogExit
<1>10. CASE UNCHANGED logVars
  BY <1>10 DEF logVars
<1>. QED
  BY <1>1, <1>2, <1>3, <1>4, <1>5, <1>6, <1>7, <1>8, <1>9, <1>10 DEF LogMoves, LogStep

-----------------------------------------------------------------------------
(* What the files hold. *)

Accepted(m) == \E k \in DOMAIN accepted : accepted[k] = m
Recorded(m) == \E g \in Gens : \E i \in DOMAIN gens[g] : gens[g][i].msg = m

\* The oldest file comes first.
Precedes(g, i, h, j) == g > h \/ (g = h /\ i < j)

\* A message is accepted once, is in a file in full if it was and only then, and in the
\* order in which it was.
Contents ==
    /\ \A k \in DOMAIN accepted : accepted[k] \in Logged
    /\ \A k, l \in DOMAIN accepted : accepted[k] = accepted[l] => k = l
    /\ \A g \in Gens : \A i \in DOMAIN gens[g] :
           /\ gens[g][i].msg \in Logged
           /\ i \in Whole(gens[g]) <=> Accepted(gens[g][i].msg)
    /\ \A g, h \in Gens :
           \A i \in Whole(gens[g]), j \in Whole(gens[h]), k, l \in DOMAIN accepted :
               /\ Precedes(g, i, h, j)
               /\ accepted[k] = gens[g][i].msg /\ accepted[l] = gens[h][j].msg
               => k < l

\* The message that is being logged was not, so far.
Pending == logPc # "idle" => /\ line.msg \in Logged
                             /\ ~Accepted(line.msg) /\ ~Recorded(line.msg)

\* Files that are emptied or take each other's place in order.
LEMMA ContentsMoved ==
    ASSUME Contents, UNCHANGED accepted, Logged \subseteq Logged',
           NEW f \in [Gens -> Gens],
           \A g \in Gens : gens'[g] = << >> \/ gens'[g] = gens[f[g]],
           \A g, h \in Gens : /\ g > h /\ gens'[g] # << >> /\ gens'[h] # << >>
                              => f[g] > f[h]
    PROVE  Contents' /\ (\A m : Recorded(m)' => Recorded(m)) /\ (\A m : Accepted(m)' <=> Accepted(m))
<1>1. \A m : Accepted(m)' <=> Accepted(m)
  BY DEF Accepted
<1>2. ASSUME NEW g \in Gens, NEW i \in DOMAIN gens'[g]
      PROVE  /\ gens'[g] = gens[f[g]] /\ gens'[g] # << >> /\ f[g] \in Gens
             /\ i \in DOMAIN gens[f[g]]
             /\ i \in Whole(gens'[g]) <=> i \in Whole(gens[f[g]])
  <2>1. DOMAIN << >> = {}
    OBVIOUS
  <2>2. gens'[g] # << >>
    BY <2>1
  <2>. QED
    BY <2>2
<1>3. \A m : Recorded(m)' => Recorded(m)
  BY <1>2 DEF Recorded
<1>4. ASSUME NEW g \in Gens, NEW i \in DOMAIN gens'[g]
      PROVE  /\ gens'[g][i].msg \in Logged'
             /\ i \in Whole(gens'[g]) <=> \E k \in DOMAIN accepted : accepted[k] = gens'[g][i].msg
  <2>1. PICK h \in Gens : h = f[g] /\ gens'[g] = gens[h] /\ i \in DOMAIN gens[h]
    BY <1>2
  <2>2. /\ gens[h][i].msg \in Logged
        /\ i \in Whole(gens[h]) <=> \E k \in DOMAIN accepted : accepted[k] = gens[h][i].msg
    BY <2>1 DEF Contents, Accepted
  <2>. QED
    BY <2>1, <2>2
<1>5. ASSUME NEW g \in Gens, NEW h \in Gens, NEW i \in Whole(gens'[g]), NEW j \in Whole(gens'[h]),
             NEW k \in DOMAIN accepted, NEW l \in DOMAIN accepted, Precedes(g, i, h, j),
             accepted[k] = gens'[g][i].msg, accepted[l] = gens'[h][j].msg
      PROVE  k < l
  <2>0. i \in DOMAIN gens'[g] /\ j \in DOMAIN gens'[h]
    BY DEF Whole
  <2>1. PICK a \in Gens : a = f[g] /\ gens'[g] = gens[a] /\ i \in Whole(gens[a]) /\ gens'[g] # << >>
    BY <1>2, <2>0
  <2>2. PICK b \in Gens : b = f[h] /\ gens'[h] = gens[b] /\ j \in Whole(gens[b]) /\ gens'[h] # << >>
    BY <1>2, <2>0
  <2>3. Precedes(a, i, b, j)
    BY <1>5, <2>1, <2>2 DEF Precedes
  <2>4. accepted[k] = gens[a][i].msg /\ accepted[l] = gens[b][j].msg
    BY <1>5, <2>1, <2>2
  <2>. QED
    BY <2>1, <2>2, <2>3, <2>4 DEF Contents
<1>6. /\ \A k \in DOMAIN accepted' : accepted'[k] \in Logged'
      /\ \A k, l \in DOMAIN accepted' : accepted'[k] = accepted'[l] => k = l
  BY DEF Contents
<1>7. Contents'
  BY <1>4, <1>5, <1>6 DEF Contents, Accepted
<1>. QED
  BY <1>1, <1>3, <1>7

\* A step that neither records nor accepts anything leaves what is being written pending.
LEMMA PendingStays ==
    ASSUME Pending, Logged \subseteq Logged',
           logPc' # "idle" => logPc # "idle" /\ line' = line,
           \A m : Recorded(m)' => Recorded(m), \A m : Accepted(m)' <=> Accepted(m)
    PROVE  Pending'
<1>. SUFFICES ASSUME logPc' # "idle"
              PROVE  /\ line'.msg \in Logged'
                     /\ ~ \E k \in DOMAIN accepted' : accepted'[k] = line'.msg
                     /\ ~ \E g \in Gens : \E i \in DOMAIN gens'[g] : gens'[g][i].msg = line'.msg
  BY DEF Pending, Accepted, Recorded
<1>1. PICK m : m = line.msg /\ m = line'.msg /\ m \in Logged /\ ~Accepted(m) /\ ~Recorded(m)
  BY DEF Pending
<1>2. ~Accepted(m)' /\ ~Recorded(m)'
  BY <1>1
<1>. QED
  BY <1>1, <1>2 DEF Accepted, Recorded

\* A message is written to the end of the newest file.
LEMMA ContentsWritten ==
    ASSUME LogTypeOK, Contents, Logged \subseteq Logged',
           NEW p \in Piece, p.msg \in Logged, ~Accepted(p.msg), ~Recorded(p.msg),
           gens' = [gens EXCEPT ![0] = Append(gens[0], p)],
           accepted' = IF p.n = p.size THEN Append(accepted, p.msg) ELSE accepted
    PROVE  Contents'
<1>0. 0 \in Gens /\ gens \in [Gens -> Seq(Piece)] /\ gens[0] \in Seq(Piece)
  <2>1. 0 \in Gens
    BY LogAssumption DEF Gens
  <2>2. gens \in [Gens -> Seq(Piece)]
    BY DEF LogTypeOK
  <2>. QED
    BY <2>1, <2>2
<1>1. \A g \in Gens : g # 0 => gens'[g] = gens[g]
  BY <1>0
<1>. DEFINE n == Len(gens[0])
            a == Len(accepted)
<1>2. /\ n \in Nat /\ DOMAIN gens[0] = 1 .. n /\ DOMAIN gens'[0] = 1 .. n + 1
      /\ \A i \in 1 .. n : gens'[0][i] = gens[0][i]
      /\ gens'[0][n + 1] = p
  BY <1>0
<1>3. /\ a \in Nat /\ DOMAIN accepted = 1 .. a /\ accepted \in Seq(Nat) /\ p.msg \in Nat
      /\ DOMAIN accepted' = IF p.n = p.size THEN 1 .. a + 1 ELSE 1 .. a
      /\ \A k \in 1 .. a : accepted'[k] = accepted[k]
      /\ p.n = p.size => accepted'[a + 1] = p.msg
  <2>1. accepted \in Seq(Nat) /\ p.msg \in Nat
    BY DEF LogTypeOK, Piece
  <2>2. CASE p.n = p.size
    BY <2>1, <2>2
  <2>3. CASE p.n # p.size
    BY <2>1, <2>3
  <2>. QED
    BY <2>1, <2>2, <2>3
<1>4. Logged \subseteq Logged'
  OBVIOUS
<1>. HIDE DEF n, a
<1>5. ASSUME NEW g \in Gens, NEW i \in DOMAIN gens'[g]
      PROVE  \/ i \in DOMAIN gens[g] /\ gens'[g][i] = gens[g][i]
             \/ g = 0 /\ i = n + 1 /\ gens'[g][i] = p
  BY <1>1, <1>2, <1>5
<1>6. ASSUME NEW k \in DOMAIN accepted'
      PROVE  \/ k \in DOMAIN accepted /\ accepted'[k] = accepted[k] /\ k \in Nat /\ k < a + 1
             \/ k = a + 1 /\ accepted'[k] = p.msg /\ p.n = p.size
  BY <1>3, <1>6
<1>7. \A k \in DOMAIN accepted : accepted[k] # p.msg
  BY DEF Accepted
<1>8. \A g \in Gens : \A i \in DOMAIN gens[g] : gens[g][i].msg # p.msg
  BY DEF Recorded
<1>9. \A k \in DOMAIN accepted' : accepted'[k] \in Logged'
  BY <1>4, <1>6 DEF Contents
<1>10. \A k, l \in DOMAIN accepted' : accepted'[k] = accepted'[l] => k = l
  BY <1>6, <1>7 DEF Contents
<1>11. ASSUME NEW g \in Gens, NEW i \in DOMAIN gens'[g]
       PROVE  /\ gens'[g][i].msg \in Logged'
              /\ i \in Whole(gens'[g]) <=> \E k \in DOMAIN accepted' : accepted'[k] = gens'[g][i].msg
  <2>1. CASE i \in DOMAIN gens[g] /\ gens'[g][i] = gens[g][i]
    <3>1. /\ gens[g][i].msg \in Logged
          /\ i \in Whole(gens[g]) <=> \E k \in DOMAIN accepted : accepted[k] = gens[g][i].msg
      BY <2>1 DEF Contents, Accepted
    <3>2. i \in Whole(gens'[g]) <=> i \in Whole(gens[g])
      BY <1>11, <2>1 DEF Whole
    <3>3. (\E k \in DOMAIN accepted' : accepted'[k] = gens[g][i].msg)
              <=> (\E k \in DOMAIN accepted : accepted[k] = gens[g][i].msg)
      <4>1. \A k \in DOMAIN accepted : k \in DOMAIN accepted' /\ accepted'[k] = accepted[k]
        BY <1>3
      <4>. QED
        BY <1>6, <1>8, <2>1, <4>1
    <3>. QED
      BY <1>4, <2>1, <3>1, <3>2, <3>3
  <2>2. CASE g = 0 /\ i = n + 1 /\ gens'[g][i] = p
    <3>1. i \in Whole(gens'[g]) <=> p.n = p.size
      BY <1>11, <2>2 DEF Whole
    <3>2. CASE p.n = p.size
      <4>1. a + 1 \in DOMAIN accepted' /\ accepted'[a + 1] = p.msg
        BY <1>3, <3>2
      <4>. QED
        BY <1>4, <2>2, <3>1, <3>2, <4>1
    <3>3. CASE p.n # p.size
      BY <1>4, <1>6, <1>7, <2>2, <3>1, <3>3
    <3>. QED
      BY <3>2, <3>3
  <2>. QED
    BY <1>5, <1>11, <2>1, <2>2
<1>12. ASSUME NEW g \in Gens, NEW h \in Gens, NEW i \in Whole(gens'[g]), NEW j \in Whole(gens'[h]),
              NEW k \in DOMAIN accepted', NEW l \in DOMAIN accepted', Precedes(g, i, h, j),
              accepted'[k] = gens'[g][i].msg, accepted'[l] = gens'[h][j].msg
       PROVE  k < l
  <2>1. i \in DOMAIN gens'[g] /\ j \in DOMAIN gens'[h]
    BY DEF Whole
  <2>2. CASE i \in DOMAIN gens[g] /\ gens'[g][i] = gens[g][i]
    <3>1. k \in DOMAIN accepted /\ accepted[k] = gens[g][i].msg /\ k < a + 1
      BY <1>6, <1>8, <1>12, <2>2
    <3>2. CASE j \in DOMAIN gens[h] /\ gens'[h][j] = gens[h][j]
      <4>1. l \in DOMAIN accepted /\ accepted[l] = gens[h][j].msg
        BY <1>6, <1>8, <1>12, <3>2
      <4>2. i \in Whole(gens[g]) /\ j \in Whole(gens[h])
        BY <1>12, <2>2, <3>2 DEF Whole
      <4>. QED
        BY <1>12, <3>1, <4>1, <4>2 DEF Contents
    <3>3. CASE h = 0 /\ j = n + 1 /\ gens'[h][j] = p
      BY <1>6, <1>7, <1>12, <3>1, <3>3
    <3>. QED
      BY <1>5, <2>1, <3>2, <3>3
  <2>3. CASE g = 0 /\ i = n + 1 /\ gens'[g][i] = p
    <3>1. h = 0 /\ i < j
      BY <1>12, <2>3, LogAssumption DEF Precedes, Gens
    <3>2. FALSE
      BY <1>2, <2>1, <2>3, <3>1
    <3>. QED
      BY <3>2
  <2>. QED
    BY <1>5, <2>1, <2>2, <2>3
<1>13. \A g \in Gens : \A i \in DOMAIN gens'[g] :
           /\ gens'[g][i].msg \in Logged'
           /\ i \in Whole(gens'[g]) <=> \E k \in DOMAIN accepted' : accepted'[k] = gens'[g][i].msg
  BY <1>11
<1>14. \A g, h \in Gens :
           \A i \in Whole(gens'[g]), j \in Whole(gens'[h]), k, l \in DOMAIN accepted' :
               /\ Precedes(g, i, h, j)
               /\ accepted'[k] = gens'[g][i].msg /\ accepted'[l] = gens'[h][j].msg
               => k < l
  <2>. TAKE g, h \in Gens
  <2>. TAKE i \in Whole(gens'[g]), j \in Whole(gens'[h]), k, l \in DOMAIN accepted'
  <2>. HAVE /\ Precedes(g, i, h, j)
            /\ accepted'[k] = gens'[g][i].msg /\ accepted'[l] = gens'[h][j].msg
  <2>. QED
    BY <1>12
<1>. QED
  BY <1>9, <1>10, <1>13, <1>14 DEF Contents, Accepted

\* No step puts a message into a file twice, loses the order or forgets what was accepted.
LEMMA ContentsStep ==
    /\ LogTypeOK /\ LogPlace /\ NumbersOK /\ Contents /\ Pending
    /\ Logged \subseteq Logged' /\ LogMoves
    => Contents' /\ Pending'
<1>. SUFFICES ASSUME LogTypeOK, LogPlace, NumbersOK, Contents, Pending,
                     Logged \subseteq Logged', LogMoves
              PROVE  Contents' /\ Pending'
  OBVIOUS
<1>k. /\ Keep \in Nat \ {0} /\ Keep \in Gens /\ 0 \in Gens /\ gens \in [Gens -> Seq(Piece)]
      /\ shifting \in Gens /\ \A g \in Gens : g \in Nat
  BY LogAssumption DEF Gens, LogTypeOK
<1>l. line \in Piece /\ line.msg \in Nat /\ line.size \in Nat
  BY DEF LogTypeOK, Piece
<1>1. ASSUME UNCHANGED accepted, \A g \in Gens : gens'[g] = << >> \/ gens'[g] = gens[g]
      PROVE  Contents' /\ (\A m : Recorded(m)' => Recorded(m)) /\ (\A m : Accepted(m)' <=> Accepted(m))
  <2>1. PICK f \in [Gens -> Gens] : \A g \in Gens : f[g] = g
    <3>1. [g \in Gens |-> g] \in [Gens -> Gens] /\ \A g \in Gens : [x \in Gens |-> x][g] = g
      OBVIOUS
    <3>. QED
      BY <3>1
  <2>2. /\ \A g \in Gens : gens'[g] = << >> \/ gens'[g] = gens[f[g]]
        /\ \A g, h \in Gens : /\ g > h /\ gens'[g] # << >> /\ gens'[h] # << >>
                              => f[g] > f[h]
    BY <1>1, <2>1
  <2>. QED
    BY <1>1, <2>2, ContentsMoved
<1>2. ASSUME UNCHANGED accepted, \A g \in Gens : gens'[g] = << >> \/ gens'[g] = gens[g],
             logPc' # "idle" => logPc # "idle" /\ line' = line
      PROVE  Contents' /\ Pending'
  <2>1. Contents' /\ (\A m : Recorded(m)' => Recorded(m)) /\ (\A m : Accepted(m)' <=> Accepted(m))
    BY <1>1, <1>2
  <2>2. Pending'
    BY <1>2, <2>1, PendingStays
  <2>. QED
    BY <2>1, <2>2
<1>3. ASSUME NEW cut \in 1 .. Keep + 1, NEW gone \in SUBSET Gens,
             LogOpen(cut, gone) \/ LogOpenFails(cut, gone)
      PROVE  Contents' /\ Pending'
  <2>1. /\ gens' = [g \in Gens |-> IF g \in gone THEN << >> ELSE gens[g]]
        /\ UNCHANGED <<logPc, line, accepted>>
    BY <1>3 DEF LogOpen, LogOpenFails, Prune
  <2>. QED
    BY <1>2, <2>1
<1>4. ASSUME NEW m \in waiting, NEW s \in Sizes, LogPublish(m, s), m \in Logged'
      PROVE  Contents' /\ Pending'
  <2>1. UNCHANGED <<gens, accepted>>
    BY <1>4 DEF LogPublish
  <2>2. Contents' /\ (\A x : Recorded(x)' => Recorded(x)) /\ (\A x : Accepted(x)' <=> Accepted(x))
    BY <1>1, <2>1
  <2>3. CASE log = "dead"
    BY <1>2, <1>4, <2>1, <2>3 DEF LogPublish
  <2>4. CASE log # "dead"
    <3>1. line' = [msg |-> m, size |-> s, n |-> 0]
      BY <1>4, <2>4 DEF LogPublish
    <3>2. m \notin Logged
      BY DEF Logged
    <3>3. ~Accepted(m) /\ ~Recorded(m)
      BY <3>2 DEF Accepted, Recorded, Contents
    <3>4. ~Accepted(m)' /\ ~Recorded(m)'
      BY <2>2, <3>3
    <3>. QED
      BY <1>4, <2>2, <3>1, <3>4 DEF Pending, Accepted, Recorded
  <2>. QED
    BY <2>3, <2>4
<1>5. CASE RemoveOldest
  BY <1>2, <1>5, <1>k DEF RemoveOldest
<1>6. CASE Shift
  <2>1. UNCHANGED <<line, accepted>> /\ logPc = "shift" /\ shifting < Keep
    BY <1>6 DEF Shift, LogPlace
  <2>2. CASE Rename(shifting, shifting + 1)
    <3>. DEFINE s == shifting
    <3>1. s \in Gens /\ s + 1 \in Gens /\ s \in Nat
      BY <1>k, <2>1 DEF Gens
    <3>2. /\ gens'[s] = << >> /\ gens'[s + 1] = gens[s]
          /\ \A g \in Gens : g # s /\ g # s + 1 => gens'[g] = gens[g]
      BY <1>k, <2>2, <3>1 DEF Rename
    <3>3. PICK f \in [Gens -> Gens] : \A g \in Gens : f[g] = IF g = s + 1 THEN s ELSE g
      <4>. DEFINE F == [g \in Gens |-> IF g = s + 1 THEN s ELSE g]
      <4>1. F \in [Gens -> Gens] /\ \A g \in Gens : F[g] = IF g = s + 1 THEN s ELSE g
        BY <3>1
      <4>. QED
        BY <4>1
    <3>. HIDE DEF s
    <3>4. \A g \in Gens : gens'[g] = << >> \/ gens'[g] = gens[f[g]]
      BY <3>1, <3>2, <3>3
    <3>5. ASSUME NEW g \in Gens, NEW h \in Gens, g > h, gens'[g] # << >>, gens'[h] # << >>
          PROVE  f[g] > f[h]
      <4>1. g \in Nat /\ h \in Nat /\ g # s /\ h # s
        BY <1>k, <3>2, <3>5
      <4>. QED
        BY <3>1, <3>3, <3>5, <4>1
    <3>6. Contents' /\ (\A m : Recorded(m)' => Recorded(m)) /\ (\A m : Accepted(m)' <=> Accepted(m))
      BY <2>1, <3>4, <3>5, ContentsMoved
    <3>. QED
      BY <2>1, <3>6, PendingStays
  <2>3. CASE UNCHANGED gens
    BY <1>2, <2>1, <2>3
  <2>. QED
    BY <1>6, <2>2, <2>3 DEF Shift
<1>7. CASE Reopen
  BY <1>2, <1>7 DEF Reopen
<1>8. CASE WriteLine
  <2>1. PICK n \in IF log = "open" THEN Written ELSE {0} :
            /\ gens' = IF n = 0 THEN gens
                       ELSE [gens EXCEPT ![0] = Append(@, [line EXCEPT !.n = n])]
            /\ accepted' = IF n = line.size THEN Append(accepted, line.msg) ELSE accepted
    BY <1>8 DEF WriteLine
  <2>2. n \in Nat /\ logPc = "write" /\ logPc' = "idle"
    BY <1>8, <1>l, <2>1 DEF Written, WriteLine
  <2>3. CASE n = 0
    <3>1. line.size # 0
      BY <2>2, LogAssumption DEF LogPlace
    <3>. QED
      BY <1>2, <2>1, <2>2, <2>3, <3>1
  <2>4. CASE n # 0
    <3>1. PICK p \in Piece : /\ p = [line EXCEPT !.n = n]
                             /\ p.msg = line.msg /\ p.size = line.size /\ p.n = n
      <4>1. [line EXCEPT !.n = n] \in Piece
        BY <1>l, <2>2 DEF Piece
      <4>2. /\ [line EXCEPT !.n = n].msg = line.msg /\ [line EXCEPT !.n = n].size = line.size
            /\ [line EXCEPT !.n = n].n = n
        BY <1>l DEF Piece
      <4>. QED
        BY <4>1, <4>2
    <3>2. p.msg \in Logged /\ ~Accepted(p.msg) /\ ~Recorded(p.msg)
      <4>1. PICK m : m = line.msg /\ m \in Logged /\ ~Accepted(m) /\ ~Recorded(m)
        BY <2>2 DEF Pending
      <4>. QED
        BY <3>1, <4>1
    <3>3. gens' = [gens EXCEPT ![0] = Append(gens[0], p)]
      BY <1>k, <2>1, <2>4, <3>1
    <3>4. accepted' = IF p.n = p.size THEN Append(accepted, p.msg) ELSE accepted
      BY <2>1, <3>1
    <3>5. Contents'
      BY <3>2, <3>3, <3>4, ContentsWritten
    <3>. QED
      BY <2>2, <3>5 DEF Pending
  <2>. QED
    BY <2>3, <2>4
<1>9. CASE LogClose
  BY <1>2, <1>9 DEF LogClose
<1>10. CASE LogExit
  BY <1>2, <1>10 DEF LogExit
<1>11. CASE UNCHANGED logVars
  BY <1>2, <1>11 DEF logVars
<1>. QED
  BY <1>3, <1>4, <1>5, <1>6, <1>7, <1>8, <1>9, <1>10, <1>11 DEF LogMoves, LogStep

-----------------------------------------------------------------------------
(* What is forgotten. *)

\* What is in no file is aged, and so is all that is older.
Lost == \A k \in DOMAIN accepted :
            accepted[k] \notin Kept => \A j \in 1 .. k : accepted[j] \in aged \ Kept

\* A rename finds nothing in its way, or what was to go.
Making == logPc = "shift" => IF shifting = Keep - 1 THEN Messages(gens[Keep]) \subseteq aged
                                                    ELSE gens[shifting + 1] = << >>

Forgotten == ~refused => Lost /\ Making

\* A message is kept if one of the files has its whole line.
LEMMA KeptIs ==
    /\ \A m : m \in Kept <=> \E g \in Gens : m \in Messages(gens[g])
    /\ Messages(<< >>) = {}
  BY DEF Kept, Messages, Whole

\* The same, one step later.
LEMMA KeptIsNext == (\A m : m \in Kept <=> \E g \in Gens : m \in Messages(gens[g]))'
  BY DEF Kept, Messages, Whole

\* The files from a cut on are forgotten, with everything in them aged.
LEMMA Forgets ==
    ASSUME LogTypeOK, Contents, Lost, UNCHANGED accepted, aged \subseteq aged', NEW c \in Nat,
           \A m \in Kept' : \E g \in Gens : g < c /\ m \in Messages(gens[g]),
           \A m \in Kept : m \in Kept' \/ (m \in aged' /\ \E g \in Gens : g >= c /\ m \in Messages(gens[g]))
    PROVE  Lost'
<1>1. SUFFICES ASSUME NEW k \in DOMAIN accepted, accepted[k] \notin Kept', NEW j \in 1 .. k
               PROVE  accepted[j] \in aged' \ Kept'
  BY DEF Lost
<1>2. Kept' \subseteq Kept
  BY KeptIs
<1>3. CASE accepted[k] \notin Kept
  BY <1>2, <1>3 DEF Lost
<1>4. CASE accepted[j] \notin Kept
  <2>1. k \in Nat /\ j \in DOMAIN accepted /\ j \in 1 .. j
    BY DEF LogTypeOK
  <2>. QED
    BY <1>2, <1>4, <2>1 DEF Lost
<1>5. CASE accepted[k] \in Kept /\ accepted[j] \in Kept
  <2>1. PICK g \in Gens : g >= c /\ accepted[k] \in Messages(gens[g])
    BY <1>1, <1>5
  <2>2. ASSUME accepted[j] \in Kept' PROVE FALSE
    <3>1. PICK h \in Gens : h < c /\ accepted[j] \in Messages(gens[h])
      BY <2>2
    <3>2. PICK i \in Whole(gens[g]) : accepted[k] = gens[g][i].msg
      BY <2>1 DEF Messages
    <3>3. PICK l \in Whole(gens[h]) : accepted[j] = gens[h][l].msg
      BY <3>1 DEF Messages
    <3>4. Precedes(g, i, h, l)
      BY <2>1, <3>1, LogAssumption DEF Precedes, Gens
    <3>5. k \in Nat /\ j \in DOMAIN accepted
      BY DEF LogTypeOK
    <3>6. k < j
      BY <3>2, <3>3, <3>4, <3>5 DEF Contents
    <3>. QED
      BY <3>5, <3>6
  <2>. QED
    BY <1>5, <2>2
<1>. QED
  BY <1>3, <1>4, <1>5

\* No step forgets a message before those that are older.
LEMMA ForgottenStep ==
    LogTypeOK /\ LogPlace /\ Contents /\ Pending /\ Forgotten /\ LogMoves => Forgotten'
<1>. SUFFICES ASSUME LogTypeOK, LogPlace, Contents, Pending, LogMoves, Forgotten, ~refused'
              PROVE  Lost' /\ Making'
  BY DEF Forgotten
<1>k. /\ Keep \in Nat \ {0} /\ Keep \in Gens /\ 0 \in Gens /\ gens \in [Gens -> Seq(Piece)]
      /\ shifting \in Gens /\ \A g \in Gens : g \in Nat /\ g =< Keep
  BY LogAssumption DEF Gens, LogTypeOK
<1>f. Forgotten
  OBVIOUS
<1>1. ASSUME UNCHANGED <<gens, accepted>>, aged \subseteq aged', Lost PROVE Lost'
  BY <1>1 DEF Lost, Kept
<1>2. ASSUME NEW cut \in 1 .. Keep + 1, NEW gone \in SUBSET Gens,
             LogOpen(cut, gone) \/ LogOpenFails(cut, gone)
      PROVE  Lost' /\ Making'
  <2>1. /\ gens' = [g \in Gens |-> IF g \in gone THEN << >> ELSE gens[g]]
        /\ refused' = (refused \/ gone # Aged(cut))
        /\ aged' = aged \cup UNION {Messages(gens[g]) : g \in gone}
        /\ UNCHANGED <<logPc, accepted>> /\ log = "off"
    BY <1>2 DEF LogOpen, LogOpenFails, Prune
  <2>2. gone = Aged(cut) /\ Lost
    BY <1>f, <2>1 DEF Forgotten
  <2>3. cut \in Nat
    BY <1>k
  <2>4. \A g \in Gens : gens'[g] = IF g \in gone THEN << >> ELSE gens[g]
    BY <2>1
  <2>5. ASSUME NEW g \in Gens, g >= cut PROVE gens'[g] = << >>
    <3>1. g \in exists => g \in gone
      BY <2>2, <2>5 DEF Aged
    <3>2. g \notin exists => gens[g] = << >>
      BY DEF LogTypeOK
    <3>. QED
      BY <2>4, <3>1, <3>2
  <2>6. \A m \in Kept' : \E g \in Gens : g < cut /\ m \in Messages(gens[g])
    <3>1. SUFFICES ASSUME NEW m, m \in Kept' PROVE \E g \in Gens : g < cut /\ m \in Messages(gens[g])
      OBVIOUS
    <3>2. PICK g \in Gens : m \in Messages(gens'[g])
      BY <3>1 DEF Kept
    <3>3. gens'[g] # << >>
      BY <3>2, KeptIs
    <3>. QED
      BY <1>k, <2>3, <2>4, <2>5, <3>2, <3>3
  <2>7. \A m \in Kept : m \in Kept' \/ (m \in aged' /\ \E g \in Gens : g >= cut /\ m \in Messages(gens[g]))
    <3>1. SUFFICES ASSUME NEW m, m \in Kept, m \notin Kept'
                   PROVE  m \in aged' /\ \E g \in Gens : g >= cut /\ m \in Messages(gens[g])
      OBVIOUS
    <3>2. PICK g \in Gens : m \in Messages(gens[g])
      BY <3>1 DEF Kept
    <3>3. m \notin Messages(gens'[g])
      BY <3>1 DEF Kept
    <3>4. g \in gone
      BY <2>4, <3>2, <3>3
    <3>5. g >= cut
      BY <2>2, <3>4 DEF Aged
    <3>. QED
      BY <2>1, <3>2, <3>4, <3>5
  <2>8. Lost'
    BY <2>1, <2>2, <2>3, <2>6, <2>7, Forgets
  <2>9. Making'
    BY <2>1 DEF Making, LogPlace
  <2>. QED
    BY <2>8, <2>9
<1>3. ASSUME NEW m \in waiting, NEW s \in Sizes, LogPublish(m, s) PROVE Lost' /\ Making'
  <2>1. UNCHANGED <<gens, accepted, aged, refused>> /\ (logPc' # "shift" \/ logPc' = logPc)
    BY <1>3 DEF LogPublish
  <2>2. logPc = "idle" /\ logPc' # "shift"
    BY <1>3 DEF LogPublish
  <2>. QED
    BY <1>1, <1>f, <2>1, <2>2 DEF Forgotten, Making
<1>4. CASE RemoveOldest
  <2>1. /\ gens' = [gens EXCEPT ![Keep] = << >>] \/ UNCHANGED gens
        /\ aged' = aged \cup Messages(gens[Keep]) /\ shifting' = Keep - 1
        /\ UNCHANGED <<accepted, refused>>
    BY <1>4 DEF RemoveOldest
  <2>2. Lost
    BY <1>f, <2>1 DEF Forgotten
  <2>3. Messages(gens[Keep])' \subseteq aged'
    BY <1>k, <2>1, KeptIs
  <2>4. CASE UNCHANGED gens
    BY <1>1, <2>1, <2>2, <2>3, <2>4 DEF Making
  <2>5. CASE gens' = [gens EXCEPT ![Keep] = << >>]
    <3>1. /\ \A g \in Gens : gens'[g] = IF g = Keep THEN << >> ELSE gens[g]
          /\ Messages(<< >>) = {}
      BY <1>k, <2>5, KeptIs
    <3>2. \A m \in Kept' : \E g \in Gens : g < Keep /\ m \in Messages(gens[g])
      BY <1>k, <3>1 DEF Kept
    <3>3. \A m \in Kept : m \in Kept' \/ (m \in aged' /\ \E g \in Gens : g >= Keep /\ m \in Messages(gens[g]))
      BY <1>k, <2>1, <3>1 DEF Kept
    <3>4. Lost'
      BY <1>k, <2>1, <2>2, <3>2, <3>3, Forgets
    <3>. QED
      BY <2>1, <2>3, <3>4 DEF Making
  <2>. QED
    BY <2>1, <2>4, <2>5
<1>5. CASE Shift
  <2>1. /\ UNCHANGED <<accepted, aged>> /\ logPc = "shift" /\ shifting < Keep
        /\ shifting # 0 => shifting' = shifting - 1
        /\ shifting = 0 => logPc' = "reopen"
    BY <1>5 DEF Shift, LogPlace
  <2>2. \/ Rename(shifting, shifting + 1) /\ UNCHANGED refused
        \/ shifting \notin exists /\ UNCHANGED <<gens, refused>>
    BY <1>5 DEF Shift
  <2>3. Lost /\ Making
    BY <1>f, <2>2 DEF Forgotten
  <2>. DEFINE s == shifting
  <2>4. s \in Gens /\ s + 1 \in Gens /\ s \in Nat /\ s + 1 \in Nat
    BY <1>k, <2>1 DEF Gens
  <2>5. CASE Rename(s, s + 1)
    <3>1. /\ gens'[s] = << >> /\ gens'[s + 1] = gens[s]
          /\ \A g \in Gens : g # s /\ g # s + 1 => gens'[g] = gens[g]
      BY <1>k, <2>4, <2>5 DEF Rename
    <3>2. ASSUME s = Keep - 1 PROVE Lost'
      <4>1. s + 1 = Keep /\ Messages(gens[Keep]) \subseteq aged
        BY <1>k, <2>1, <2>3, <3>2 DEF Making
      <4>. HIDE DEF s
      <4>2. \A m \in Kept' : \E g \in Gens : g < Keep /\ m \in Messages(gens[g])
        <5>1. SUFFICES ASSUME NEW m, m \in Kept' PROVE \E g \in Gens : g < Keep /\ m \in Messages(gens[g])
          OBVIOUS
        <5>2. PICK g \in Gens : m \in Messages(gens'[g])
          BY <5>1 DEF Kept
        <5>3. CASE g = s + 1
          BY <1>k, <2>4, <3>1, <3>2, <5>2, <5>3
        <5>4. CASE g # s + 1
          <6>1. g # s
            BY <2>4, <3>1, <5>2, KeptIs
          <6>2. m \in Messages(gens[g])
            BY <3>1, <5>2, <5>4, <6>1
          <6>3. g < Keep
            <7>1. g \in Nat /\ g =< Keep /\ s \in Nat /\ Keep = s + 1 /\ g # s + 1
              BY <1>k, <2>4, <4>1, <5>4
            <7>. QED
              BY <7>1
          <6>. QED
            BY <6>2, <6>3
        <5>. QED
          BY <5>3, <5>4
      <4>3. \A m \in Kept : m \in Kept' \/ (m \in aged' /\ \E g \in Gens : g >= Keep /\ m \in Messages(gens[g]))
        <5>1. SUFFICES ASSUME NEW m, m \in Kept, m \notin Kept'
                       PROVE  m \in aged' /\ \E g \in Gens : g >= Keep /\ m \in Messages(gens[g])
          OBVIOUS
        <5>2. PICK g \in Gens : m \in Messages(gens[g])
          BY <5>1 DEF Kept
        <5>3. \A h \in Gens : m \notin Messages(gens'[h])
          BY <5>1 DEF Kept
        <5>4. g = s + 1
          BY <2>4, <3>1, <5>2, <5>3
        <5>. QED
          BY <1>k, <2>1, <4>1, <5>2, <5>4
      <4>. QED
        BY <1>k, <2>1, <2>3, <4>2, <4>3, Forgets
    <3>3. ASSUME s # Keep - 1 PROVE Lost'
      <4>1. gens[s + 1] = << >> /\ Messages(<< >>) = {}
        BY <2>1, <2>3, <3>3, KeptIs DEF Making
      <4>. HIDE DEF s
      <4>2. \A m \in Kept' : \E g \in Gens : g < Keep + 1 /\ m \in Messages(gens[g])
        <5>1. SUFFICES ASSUME NEW m, m \in Kept' PROVE \E g \in Gens : g < Keep + 1 /\ m \in Messages(gens[g])
          OBVIOUS
        <5>2. PICK g \in Gens : m \in Messages(gens'[g])
          BY <5>1 DEF Kept
        <5>3. CASE g = s + 1
          BY <1>k, <2>4, <3>1, <5>2, <5>3
        <5>4. CASE g # s + 1
          <6>1. g # s
            BY <2>4, <3>1, <5>2, <4>1
          <6>2. m \in Messages(gens[g])
            BY <3>1, <5>2, <5>4, <6>1
          <6>3. g < Keep + 1
            <7>1. g \in Nat /\ g =< Keep /\ Keep \in Nat
              BY <1>k, <5>4
            <7>. QED
              BY <7>1
          <6>. QED
            BY <6>2, <6>3
        <5>. QED
          BY <5>3, <5>4
      <4>3. \A m \in Kept : m \in Kept'
        <5>1. SUFFICES ASSUME NEW m, m \in Kept, m \notin Kept' PROVE FALSE
          OBVIOUS
        <5>2. PICK g \in Gens : m \in Messages(gens[g])
          BY <5>1 DEF Kept
        <5>3. \A h \in Gens : m \notin Messages(gens'[h])
          BY <5>1 DEF Kept
        <5>. QED
          BY <2>4, <3>1, <4>1, <5>2, <5>3
      <4>4. Keep + 1 \in Nat
        BY <1>k
      <4>. QED
        BY <2>1, <2>3, <4>2, <4>3, <4>4, Forgets
    <3>4. s # 0 => gens'[s - 1 + 1] = << >>
      BY <2>4, <3>1
    <3>5. Making'
      BY <1>k, <2>1, <2>4, <3>4 DEF Making
    <3>. QED
      BY <3>2, <3>3, <3>5
  <2>6. CASE s \notin exists /\ UNCHANGED <<gens, refused>>
    <3>1. gens[s] = << >>
      BY <2>4, <2>6 DEF LogTypeOK
    <3>2. s # 0 => gens'[s - 1 + 1] = << >>
      BY <2>4, <2>6, <3>1
    <3>3. Making'
      BY <1>k, <2>1, <2>4, <3>2 DEF Making
    <3>. QED
      BY <1>1, <2>1, <2>3, <2>6, <3>3
  <2>. QED
    BY <2>2, <2>5, <2>6
<1>6. CASE Reopen
  <2>1. UNCHANGED <<gens, accepted, aged, refused>> /\ logPc' # "shift"
    BY <1>6 DEF Reopen
  <2>. QED
    BY <1>1, <1>f, <2>1 DEF Forgotten, Making
<1>7. CASE WriteLine
  <2>1. PICK n \in IF log = "open" THEN Written ELSE {0} :
            /\ gens' = IF n = 0 THEN gens
                       ELSE [gens EXCEPT ![0] = Append(@, [line EXCEPT !.n = n])]
            /\ accepted' = IF n = line.size THEN Append(accepted, line.msg) ELSE accepted
    BY <1>7 DEF WriteLine
  <2>2. n \in Nat /\ logPc = "write" /\ logPc' = "idle" /\ UNCHANGED <<aged, refused>>
        /\ line \in Piece
    BY <1>7, <2>1 DEF Written, WriteLine, LogTypeOK, Piece
  <2>3. Lost /\ line.size # 0
    BY <1>f, <2>2, LogAssumption DEF Forgotten, LogPlace
  <2>4. CASE n = 0
    BY <1>1, <2>1, <2>2, <2>3, <2>4 DEF Making
  <2>5. CASE n # 0
    <3>1. PICK p \in Piece : /\ p = [line EXCEPT !.n = n]
                             /\ p.msg = line.msg /\ p.size = line.size /\ p.n = n
      <4>1. [line EXCEPT !.n = n] \in Piece
        BY <2>2 DEF Piece
      <4>2. /\ [line EXCEPT !.n = n].msg = line.msg /\ [line EXCEPT !.n = n].size = line.size
            /\ [line EXCEPT !.n = n].n = n
        BY <2>2 DEF Piece
      <4>. QED
        BY <4>1, <4>2
    <3>2. gens' = [gens EXCEPT ![0] = Append(gens[0], p)]
      BY <1>k, <2>1, <2>5, <3>1
    <3>3. accepted' = IF p.n = p.size THEN Append(accepted, p.msg) ELSE accepted
      BY <2>1, <3>1
    <3>4. PICK file \in Seq(Piece) : file = gens[0]
      BY <1>k
    <3>5. Messages(Append(file, p)) = Messages(file) \cup (IF p.n = p.size THEN {p.msg} ELSE {})
      <4>. DEFINE longer == Append(file, p)
                  l == Len(file)
      <4>1. /\ l \in Nat /\ DOMAIN file = 1 .. l /\ DOMAIN longer = 1 .. l + 1
            /\ \A i \in 1 .. l : longer[i] = file[i]
            /\ longer[l + 1] = p
        BY <3>4
      <4>. HIDE DEF longer, l
      <4>2. Whole(longer) = Whole(file) \cup (IF p.n = p.size THEN {l + 1} ELSE {})
        BY <4>1 DEF Whole
      <4>3. Messages(longer) = {longer[i].msg : i \in Whole(longer)}
        BY DEF Messages
      <4>4. \A i \in Whole(file) : longer[i].msg = file[i].msg
        BY <4>1 DEF Whole
      <4>5. Messages(file) = {longer[i].msg : i \in Whole(file)}
        BY <4>4 DEF Messages
      <4>6. Messages(longer) = Messages(file) \cup (IF p.n = p.size THEN {p.msg} ELSE {})
        <5>1. CASE p.n = p.size
          <6>1. Whole(longer) = Whole(file) \cup {l + 1}
            BY <4>2, <5>1
          <6>. QED
            BY <4>1, <4>3, <4>5, <5>1, <6>1
        <5>2. CASE p.n # p.size
          <6>1. Whole(longer) = Whole(file)
            BY <4>2, <5>2
          <6>. QED
            BY <4>3, <4>5, <5>2, <6>1
        <5>. QED
          BY <5>1, <5>2
      <4>. QED
        BY <4>6 DEF longer
    <3>6. /\ gens'[0] = Append(file, p) /\ \A g \in Gens : g # 0 => gens'[g] = gens[g]
          /\ gens[0] = file
      BY <1>k, <3>2, <3>4
    <3>7. Kept' = Kept \cup (IF p.n = p.size THEN {p.msg} ELSE {})
      <4>1. \A m : m \in Kept' <=> \E g \in Gens : m \in Messages(gens'[g])
        BY DEF Kept
      <4>2. \A m : m \in Kept <=> \E g \in Gens : m \in Messages(gens[g])
        BY DEF Kept
      <4>. QED
        BY <1>k, <3>5, <3>6, <4>1, <4>2
    <3>8. Lost'
      <4>1. CASE p.n # p.size
        BY <2>2, <2>3, <3>3, <3>7, <4>1 DEF Lost
      <4>2. CASE p.n = p.size
        <5>. DEFINE a == Len(accepted)
        <5>1. /\ a \in Nat /\ DOMAIN accepted = 1 .. a /\ DOMAIN accepted' = 1 .. a + 1
              /\ \A k \in 1 .. a : accepted'[k] = accepted[k]
              /\ accepted'[a + 1] = p.msg
          <6>1. accepted \in Seq(Nat) /\ p.msg \in Nat
            BY DEF LogTypeOK, Piece
          <6>. QED
            BY <3>3, <4>2, <6>1
        <5>2. \A k \in 1 .. a : accepted[k] # p.msg
          BY <2>2, <3>1, <5>1 DEF Pending, Accepted
        <5>3. Kept' = Kept \cup {p.msg}
          BY <3>7, <4>2
        <5>. HIDE DEF a
        <5>4. ASSUME NEW k \in DOMAIN accepted', accepted'[k] \notin Kept', NEW j \in 1 .. k
              PROVE  accepted'[j] \in aged' \ Kept'
          <6>1. k \in 1 .. a
            BY <5>1, <5>3, <5>4
          <6>2. j \in 1 .. a /\ accepted'[j] = accepted[j] /\ accepted'[k] = accepted[k]
            BY <5>1, <6>1
          <6>3. accepted[j] \in aged \ Kept
            BY <2>3, <5>1, <5>3, <5>4, <6>1, <6>2 DEF Lost
          <6>. QED
            BY <2>2, <5>2, <5>3, <6>2, <6>3
        <5>. QED
          BY <5>4 DEF Lost
      <4>. QED
        BY <4>1, <4>2
    <3>. QED
      BY <2>2, <3>8 DEF Making
  <2>. QED
    BY <2>4, <2>5
<1>8. CASE LogClose
  BY <1>1, <1>8, <1>f DEF LogClose, Forgotten, Making
<1>9. CASE LogExit
  BY <1>1, <1>9, <1>f DEF LogExit, Forgotten, Making
<1>10. CASE UNCHANGED logVars
  BY <1>1, <1>10, <1>f DEF logVars, Forgotten, Making
<1>. QED
  BY <1>2, <1>3, <1>4, <1>5, <1>6, <1>7, <1>8, <1>9, <1>10 DEF LogMoves, LogStep

\* What LogInv says of contents and of what was forgotten is Retained.
LEMMA RetainedIs == LogTypeOK /\ Contents /\ Forgotten => Retained
<1>. SUFFICES ASSUME LogTypeOK, Contents, Forgotten PROVE Retained
  OBVIOUS
<1>1. Kept \subseteq ToSet(accepted)
  BY DEF Contents, Kept, Messages, Whole, ToSet, Accepted
<1>2. \A g, h \in Gens :
           \A i \in Whole(gens[g]), j \in Whole(gens[h]), k, l \in DOMAIN accepted :
               /\ g > h \/ (g = h /\ i < j)
               /\ accepted[k] = gens[g][i].msg /\ accepted[l] = gens[h][j].msg
               => k < l
  BY DEF Contents, Precedes
<1>3. ~refused => Lost
  BY DEF Forgotten
<1>. QED
  BY <1>1, <1>2, <1>3 DEF Retained, Lost

-----------------------------------------------------------------------------
(* How large a file is. *)

Within(file) == Bytes(file) <= MaxSize \/ Len(file) = 1

\* The size that is remembered is that of the file, and what does not fit into it goes to
\* an empty one.
Bounded ==
    MaxSize > 0 /\ ~refused =>
        /\ \A g \in Gens : Within(gens[g])
        /\ log \in {"open", "closed"} => size = Bytes(gens[0])
        /\ logPc = "write" => size + line.size <= MaxSize \/ gens[0] = << >>
        /\ logPc = "reopen" => gens[0] = << >>

\* No step makes a file larger than it may be.
LEMMA BoundedStep == LogTypeOK /\ LogPlace /\ Bounded /\ LogMoves => Bounded'
<1>. SUFFICES ASSUME LogTypeOK, LogPlace, LogMoves, Bounded, MaxSize > 0, ~refused'
              PROVE  /\ \A g \in Gens : Within(gens'[g])
                     /\ log' \in {"open", "closed"} => size' = Bytes(gens'[0])
                     /\ logPc' = "write" => size' + line'.size <= MaxSize \/ gens'[0] = << >>
                     /\ logPc' = "reopen" => gens'[0] = << >>
  BY DEF Bounded, Within
<1>k. /\ Keep \in Nat \ {0} /\ Keep \in Gens /\ 0 \in Gens /\ gens \in [Gens -> Seq(Piece)]
      /\ shifting \in Gens /\ MaxSize \in Nat
  BY LogAssumption DEF Gens, LogTypeOK
<1>e. Bytes(<< >>) = 0 /\ Within(<< >>)
  <2>1. << >> \in Seq(Piece)
    OBVIOUS
  <2>. QED
    BY <1>k, <2>1, BytesAdd DEF Within
<1>1. ASSUME ~refused
      PROVE  /\ \A g \in Gens : Within(gens[g])
             /\ log \in {"open", "closed"} => size = Bytes(gens[0])
             /\ logPc = "write" => size + line.size <= MaxSize \/ gens[0] = << >>
             /\ logPc = "reopen" => gens[0] = << >>
  BY <1>1 DEF Bounded
<1>2. ASSUME NEW cut \in 1 .. Keep + 1, NEW gone \in SUBSET Gens,
             LogOpen(cut, gone) \/ LogOpenFails(cut, gone)
      PROVE  /\ \A g \in Gens : Within(gens'[g])
             /\ log' \in {"open", "closed"} => size' = Bytes(gens'[0])
             /\ logPc' \notin {"write", "reopen"}
  <2>1. /\ gens' = [g \in Gens |-> IF g \in gone THEN << >> ELSE gens[g]]
        /\ refused' = (refused \/ gone # Aged(cut)) /\ log = "off" /\ logPc' = logPc
        /\ log' \in {"open", "closed"} => size' = Bytes(gens[0])
    BY <1>2 DEF LogOpen, LogOpenFails, Prune
  <2>2. gone = Aged(cut) /\ ~refused
    BY <2>1
  <2>3. 0 \notin gone
    BY <2>2 DEF Aged
  <2>4. gens'[0] = gens[0] /\ \A g \in Gens : gens'[g] \in {<< >>, gens[g]}
    BY <1>k, <2>1, <2>3
  <2>. QED
    BY <1>1, <1>e, <2>1, <2>2, <2>4 DEF LogPlace
<1>3. ASSUME NEW m \in waiting, NEW s \in Sizes, LogPublish(m, s)
      PROVE  /\ \A g \in Gens : Within(gens'[g])
             /\ log' \in {"open", "closed"} => size' = Bytes(gens'[0])
             /\ logPc' = "write" => size' + line'.size <= MaxSize
             /\ logPc' # "reopen"
  <2>1. UNCHANGED <<gens, log, size, refused>> /\ logPc = "idle"
    BY <1>3 DEF LogPublish
  <2>2. logPc' # "reopen"
    BY <1>3 DEF LogPublish
  <2>3. ASSUME logPc' = "write" PROVE size' + line'.size <= MaxSize
    <3>1. line' = [msg |-> m, size |-> s, n |-> 0] /\ ~(size + s > MaxSize)
      BY <1>3, <2>1, <2>3 DEF LogPublish
    <3>2. size \in Nat /\ s \in Nat
      BY LogAssumption DEF LogTypeOK
    <3>. QED
      BY <1>k, <2>1, <3>1, <3>2
  <2>. QED
    BY <1>1, <2>1, <2>2, <2>3
<1>4. CASE RemoveOldest
  <2>1. /\ \A g \in Gens : gens'[g] \in {<< >>, gens[g]}
        /\ ~refused /\ log' = "dead" /\ logPc' = "shift"
    BY <1>4, <1>k DEF RemoveOldest
  <2>. QED
    BY <1>1, <1>e, <2>1
<1>5. CASE Shift
  <2>1. /\ log' = "dead" /\ logPc' \in {"shift", "reopen"} /\ shifting < Keep
        /\ shifting # 0 => logPc' = logPc /\ logPc = "shift"
        /\ \/ Rename(shifting, shifting + 1) /\ UNCHANGED refused
           \/ shifting \notin exists /\ UNCHANGED <<gens, refused>>
    BY <1>5 DEF Shift, LogPlace
  <2>2. ~refused /\ gens'[shifting] = << >>
        /\ \A g \in Gens : \E h \in Gens : gens'[g] \in {<< >>, gens[h]}
    <3>1. CASE Rename(shifting, shifting + 1) /\ UNCHANGED refused
      <4>1. shifting + 1 \in Gens /\ shifting # shifting + 1
        BY <1>k, <2>1 DEF Gens
      <4>2. gens' = [gens EXCEPT ![shifting + 1] = gens[shifting], ![shifting] = << >>]
        BY <3>1 DEF Rename
      <4>. QED
        BY <1>k, <3>1, <4>1, <4>2
    <3>2. CASE shifting \notin exists /\ UNCHANGED <<gens, refused>>
      <4>1. gens[shifting] = << >>
        BY <1>k, <3>2 DEF LogTypeOK
      <4>. QED
        BY <1>k, <3>2, <4>1
    <3>. QED
      BY <2>1, <3>1, <3>2
  <2>3. \A g \in Gens : Within(gens'[g])
    BY <1>1, <1>e, <2>2
  <2>4. logPc' = "reopen" => gens'[0] = << >>
    BY <2>1, <2>2
  <2>. QED
    BY <2>1, <2>3, <2>4
<1>6. CASE Reopen
  BY <1>1, <1>6, <1>e DEF Reopen, LogPlace
<1>7. CASE WriteLine
  <2>1. PICK n \in IF log = "open" THEN Written ELSE {0} :
            /\ gens' = IF n = 0 THEN gens
                       ELSE [gens EXCEPT ![0] = Append(@, [line EXCEPT !.n = n])]
            /\ size' = size + n
    BY <1>7 DEF WriteLine
  <2>2. /\ logPc = "write" /\ logPc' = "idle" /\ UNCHANGED <<log, refused>>
        /\ line \in Piece /\ line.size \in Nat /\ size \in Nat
    BY <1>7 DEF WriteLine, LogTypeOK, Piece
  <2>3. n \in Nat /\ n =< line.size /\ (n # 0 => log = "open")
    BY <2>1, <2>2 DEF Written
  <2>4. CASE n = 0
    BY <1>1, <2>1, <2>2, <2>4
  <2>5. CASE n # 0
    <3>1. PICK p \in Piece : p = [line EXCEPT !.n = n] /\ p.n = n
      <4>1. [line EXCEPT !.n = n] \in Piece
        BY <2>2, <2>3 DEF Piece
      <4>2. [line EXCEPT !.n = n].n = n
        BY <2>2 DEF Piece
      <4>. QED
        BY <4>1, <4>2
    <3>2. PICK file \in Seq(Piece) : file = gens[0]
      BY <1>k
    <3>3. gens'[0] = Append(file, p) /\ \A g \in Gens : g # 0 => gens'[g] = gens[g]
      BY <1>k, <2>1, <2>5, <3>1, <3>2
    <3>4. Bytes(Append(file, p)) = Bytes(file) + n /\ Bytes(file) \in Nat
      BY <3>1, BytesAdd
    <3>5. size = Bytes(file)
      BY <1>1, <2>2, <2>3, <2>5, <3>2
    <3>6. Within(Append(file, p))
      <4>1. CASE file = << >>
        BY <4>1 DEF Within
      <4>2. CASE size + line.size <= MaxSize
        BY <1>k, <2>2, <2>3, <3>4, <3>5, <4>2 DEF Within
      <4>. QED
        BY <1>1, <2>2, <3>2, <4>1, <4>2
    <3>. QED
      BY <1>1, <2>1, <2>2, <3>3, <3>4, <3>5, <3>6
  <2>. QED
    BY <2>4, <2>5
<1>8. CASE LogClose
  BY <1>1, <1>8 DEF LogClose
<1>9. CASE LogExit
  BY <1>1, <1>9 DEF LogExit
<1>10. CASE UNCHANGED logVars
  BY <1>1, <1>10 DEF logVars
<1>. QED
  BY <1>2, <1>3, <1>4, <1>5, <1>6, <1>7, <1>8, <1>9, <1>10 DEF LogMoves, LogStep

-----------------------------------------------------------------------------
(* What a reader of the current file is told. *)

\* The first of some numbers is the one that is noticed.
LEMMA SomeNoticed ==
    ASSUME NEW file \in Seq(Piece), NEW b \in DOMAIN file, Malformed(file, b)
    PROVE  ErrorEvent \in Shown(file)
<1>. DEFINE M == {x \in DOMAIN file : Malformed(file, x)}
<1>1. M \in SUBSET Nat /\ M # {}
  BY DEF M
<1>. HIDE DEF M
<1>2. PICK x \in M : \A y \in M : x <= y
  BY <1>1, LeastNat
<1>3. x \in DOMAIN file /\ Malformed(file, x) /\ x \in Nat
  BY <1>1, <1>2 DEF M
<1>4. ASSUME NEW j \in 1 .. x - 1 PROVE ~Malformed(file, j)
  BY <1>2, <1>3 DEF M
<1>. QED
  BY <1>3, <1>4 DEF Shown, Noticed

\* A message that was written in full begins a line, or what it ends is malformed.
LEMMA GapIs == LogTypeOK /\ Contents => GapIsDisclosed
<1>. SUFFICES ASSUME LogTypeOK, Contents, NEW i \in DOMAIN gens[0], Contains(accepted, gens[0][i].msg)
              PROVE  Shown(gens[0]) \cap {gens[0][i].msg, ErrorEvent} # {}
  BY DEF GapIsDisclosed
<1>1. 0 \in Gens /\ accepted \in Seq(Nat)
  BY LogAssumption DEF Gens, LogTypeOK
<1>2. PICK file \in Seq(Piece) : file = gens[0]
  BY <1>1 DEF LogTypeOK
<1>3. i \in Whole(file)
  <2>1. Accepted(gens[0][i].msg)
    BY <1>1 DEF Contains, Accepted
  <2>. QED
    BY <1>1, <1>2, <2>1 DEF Contents
<1>4. CASE Begins(file, i)
  <2>1. Readable(file, i)
    BY <1>3, <1>4 DEF Readable, Whole
  <2>. QED
    BY <1>2, <2>1 DEF Shown
<1>5. CASE ~Begins(file, i)
  <2>1. i \in Nat /\ i # 1 /\ i - 1 \in DOMAIN file /\ file[i - 1].n # file[i - 1].size
    BY <1>2, <1>5 DEF Begins
  <2>. DEFINE P == {j \in 1 .. i - 1 : \A k \in j .. i - 1 : file[k].n # file[k].size}
  <2>2. P \in SUBSET Nat /\ P # {}
    <3>1. i - 1 \in P
      BY <2>1
    <3>. QED
      BY <3>1
  <2>. HIDE DEF P
  <2>3. PICK j \in P : \A y \in P : j <= y
    BY <2>2, LeastNat
  <2>4. /\ j \in 1 .. i - 1 /\ j \in Nat /\ j \in DOMAIN file /\ j # Len(file)
        /\ \A k \in j .. i - 1 : file[k].n # file[k].size
    BY <1>2, <2>1, <2>2, <2>3 DEF P
  <2>5. Begins(file, j)
    <3>1. ASSUME j # 1, file[j - 1].n # file[j - 1].size PROVE FALSE
      <4>1. j - 1 \in 1 .. i - 1 /\ \A k \in j - 1 .. i - 1 : k = j - 1 \/ k \in j .. i - 1
        BY <2>1, <2>4, <3>1
      <4>2. j - 1 \in P
        BY <2>4, <3>1, <4>1 DEF P
      <4>. QED
        BY <2>3, <2>4, <4>2
    <3>. QED
      BY <3>1 DEF Begins
  <2>6. Malformed(file, j)
    <3>1. j \in j .. i - 1
      BY <2>1, <2>4
    <3>. QED
      BY <2>4, <2>5, <3>1 DEF Malformed, Readable
  <2>. QED
    BY <1>2, <2>4, <2>6, SomeNoticed
<1>. QED
  BY <1>4, <1>5

-----------------------------------------------------------------------------
(* The theorems about the log. *)

LogInv == /\ LogTypeOK /\ LogPlace /\ NumbersOK
          /\ Contents /\ Pending /\ Forgotten /\ Bounded

\* LogInv holds of a log that nothing was written to.
LEMMA LogInvInit == FanoutInit => LogInv
<1>. SUFFICES ASSUME FanoutInit PROVE LogInv
  OBVIOUS
<1>. USE DEF FanoutInit, LogInit
<1>k. 0 \in Gens /\ MaxSize \in Nat
  BY LogAssumption DEF Gens
<1>1. LogTypeOK /\ LogPlace
  BY <1>k DEF LogTypeOK, LogPlace, NoLine, Piece
<1>2. NumbersOK /\ Logged = {}
  BY DEF Init, NumbersOK, Logged
<1>3. Contents /\ Pending /\ Forgotten
  BY DEF Contents, Pending, Forgotten, Lost, Making
<1>4. Bounded
  <2>1. << >> \in Seq(Piece)
    OBVIOUS
  <2>2. \A g \in Gens : gens[g] = << >>
    OBVIOUS
  <2>3. Within(<< >>)
    BY <1>k, <2>1, BytesAdd DEF Within
  <2>. QED
    BY <2>2, <2>3 DEF Bounded
<1>. QED
  BY <1>1, <1>2, <1>3, <1>4 DEF LogInv

\* The invariant of the log, of Fanout: through crashes, restarts and refused operations.
LEMMA LogInvKept == FanoutSpec => []LogInv
<1>1. LogInv /\ [FanoutNext]_fanoutVars => LogInv'
  BY LogSteps, LogTypeStep, LogPlaceStep, ContentsStep, ForgottenStep, BoundedStep DEF LogInv
<1>. QED
  BY <1>1, LogInvInit, PTL DEF FanoutSpec

\* Every variable of the log keeps its type, over rotations, crashes and restarts.
THEOREM LogTypeCorrect == FanoutSpec => []LogTypeOK
<1>1. LogInv => LogTypeOK
  BY DEF LogInv
<1>. QED
  BY <1>1, LogInvKept, PTL

\* Rotation, pruning and crashes forget the oldest messages first and keep the order of the
\* others (logSink.rotate, pruneAged, Publish), for any number of files, sessions and faults.
THEOREM OldestForgottenFirst == FanoutSpec => []Retained
<1>1. LogInv => Retained
  BY RetainedIs DEF LogInv
<1>. QED
  BY <1>1, LogInvKept, PTL

\* No file of the log outgrows MaxSize, unless with a single line (logSink.Publish takes the
\* size from what it finds at the start and counts what it writes, in part or in full).
THEOREM FilesAreBounded == FanoutSpec => []LogIsBounded
<1>1. LogInv => LogIsBounded
  BY DEF LogInv, Bounded, Within, LogIsBounded
<1>. QED
  BY <1>1, LogInvKept, PTL

\* A message that was accepted and is not shown is announced by an error event (ReadLog,
\* scanMessages), whatever part of whatever line was written.
THEOREM GapsAreDisclosed == FanoutSpec => []GapIsDisclosed
<1>1. LogInv => GapIsDisclosed
  BY GapIs DEF LogInv
<1>. QED
  BY <1>1, LogInvKept, PTL
=============================================================================
