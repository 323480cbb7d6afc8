--------------------------- MODULE ConsoleProofs ---------------------------
(***************************************************************************)
(* Proofs about the console: the histories the egress monitor keeps, the   *)
(* captured messages, the names of destinations, what an inspection        *)
(* concludes, the rates on show, what the cursor is on and how far a quit  *)
(* key is, whatever the machine, the tools, the keys and the queue do.     *)
(***************************************************************************)
EXTENDS Console, FoldLemmas, TLAPS

\* A sequence, of whatever.
IsSeq(s) == \E S : s \in Seq(S)

\* Append, for sequences of anything.
LEMMA SeqAppend ==
  ASSUME NEW s, IsSeq(s), NEW e
  PROVE  /\ IsSeq(Append(s, e)) /\ Len(s) \in Nat /\ Len(Append(s, e)) = Len(s) + 1
         /\ Append(s, e)[Len(s) + 1] = e
         /\ \A i \in 1 .. Len(s) : Append(s, e)[i] = s[i]
<1>1. PICK S : s \in Seq(S)
  BY DEF IsSeq
<1>2. s \in Seq(S \cup {e}) /\ e \in S \cup {e}
  BY <1>1
<1>3. Append(s, e) \in Seq(S \cup {e})
  BY <1>2
<1> QED
  BY <1>2, <1>3 DEF IsSeq

\* Tail, for sequences of anything.
LEMMA SeqTail ==
  ASSUME NEW s, IsSeq(s), s # << >>
  PROVE  /\ IsSeq(Tail(s)) /\ Len(s) \in Nat \ {0} /\ Len(Tail(s)) = Len(s) - 1
         /\ \A i \in 1 .. Len(s) - 1 : Tail(s)[i] = s[i + 1]
<1>1. PICK S : s \in Seq(S)
  BY DEF IsSeq
<1> QED
  BY <1>1 DEF IsSeq

\* The empty sequence is a sequence.
LEMMA SeqEmpty ==
  ASSUME NEW s, s = << >>
  PROVE  IsSeq(s) /\ Len(s) = 0
<1>1. s \in Seq({})
  OBVIOUS
<1>2. IsSeq(s)
  BY <1>1 DEF IsSeq
<1>3. Len(s) = 0
  OBVIOUS
<1> QED
  BY <1>2, <1>3

\* Two sequences, one after the other.
LEMMA SeqConcat ==
  ASSUME NEW S, NEW a \in Seq(S), NEW b \in Seq(S)
  PROVE  /\ a \o b \in Seq(S) /\ Len(a \o b) = Len(a) + Len(b)
         /\ \A k \in 1 .. Len(a) : (a \o b)[k] = a[k]
         /\ \A k \in 1 .. Len(b) : (a \o b)[Len(a) + k] = b[k]
<1>1. a \o b \in Seq(S) /\ Len(a \o b) = Len(a) + Len(b)
  OBVIOUS
<1>2. \A k \in 1 .. Len(a) : (a \o b)[k] = a[k]
  OBVIOUS
<1>3. \A k \in 1 .. Len(b) : (a \o b)[Len(a) + k] = b[k]
  OBVIOUS
<1> QED
  BY <1>1, <1>2, <1>3

-----------------------------------------------------------------------------
(* The histories of the monitor. *)

\* Histories and their ages: of the same subjects, as long as they are old.
InStep(rings, ages) ==
    /\ DOMAIN rings = DOMAIN ages
    /\ \A k \in DOMAIN rings : /\ IsSeq(rings[k]) /\ Len(rings[k]) = ages[k]
                               /\ ages[k] \in 1 .. SparkLen

\* The least of two numbers.
LEMMA MinOfTwo ==
  ASSUME NEW a \in Int, NEW b \in Int
  PROVE  Min({a, b}) = IF a <= b THEN a ELSE b
<1> DEFINE m == IF a <= b THEN a ELSE b
<1>1. m \in {a, b} /\ \A y \in {a, b} : m <= y
  OBVIOUS
<1>2. \A x \in {a, b} : (\A y \in {a, b} : x <= y) => x = m
  OBVIOUS
<1> QED
  BY <1>1, <1>2 DEF Min

\* A history that gets one more rate is no longer than SparkLen, and ends with it.
LEMMA PushedRing ==
  ASSUME NEW r, IsSeq(r), Len(r) \in 0 .. SparkLen, NEW e
  PROVE  /\ IsSeq(Push(r, e)) /\ Len(Push(r, e)) = Min({Len(r) + 1, SparkLen})
         /\ Len(Push(r, e)) \in 1 .. SparkLen
         /\ Push(r, e)[Len(Push(r, e))] = e
<1> DEFINE t == Append(r, e)
<1>1. SparkLen \in Nat \ {0}
  BY EgressAssumption
<1>2. IsSeq(t) /\ Len(t) = Len(r) + 1 /\ t[Len(r) + 1] = e
  BY SeqAppend
<1>3. t # << >>
  BY <1>2, SeqEmpty
<1>4. IsSeq(Tail(t)) /\ Len(Tail(t)) = Len(r) /\ (Len(r) >= 1 => Tail(t)[Len(r)] = e)
  <2> HIDE DEF t
  <2>1. /\ IsSeq(Tail(t)) /\ Len(Tail(t)) = Len(t) - 1
        /\ \A i \in 1 .. Len(t) - 1 : Tail(t)[i] = t[i + 1]
    BY <1>2, <1>3, SeqTail
  <2>2. Len(r) \in Nat /\ Len(t) - 1 = Len(r)
    BY <1>1, <1>2
  <2>3. Len(r) >= 1 => Tail(t)[Len(r)] = t[Len(r) + 1]
    BY <2>1, <2>2
  <2> QED
    BY <1>2, <2>1, <2>2, <2>3
<1>5. Min({Len(r) + 1, SparkLen}) = IF Len(r) + 1 <= SparkLen THEN Len(r) + 1 ELSE SparkLen
  BY <1>1, MinOfTwo
<1>6. CASE Len(r) + 1 > SparkLen
  <2>1. Push(r, e) = Tail(t)
    BY <1>6, <1>2 DEF Push
  <2> QED
    BY <2>1, <1>1, <1>4, <1>5, <1>6
<1>7. CASE Len(r) + 1 <= SparkLen
  <2>1. Push(r, e) = t
    BY <1>7, <1>1, <1>2 DEF Push
  <2> QED
    BY <2>1, <1>1, <1>2, <1>5, <1>7
<1> QED
  BY <1>1, <1>6, <1>7

\* Advance adds one rate to each history that goes on and starts one for whatever is new.
LEMMA AdvanceInStep ==
  ASSUME NEW rings, NEW ages, InStep(rings, ages), NEW rates
  PROVE  LET new == Advance(rings, rates)
         IN  /\ InStep(new, Older(ages, DOMAIN rates))
             /\ DOMAIN new = DOMAIN rates
             /\ \A k \in DOMAIN rates : new[k][Len(new[k])] = rates[k]
<1> DEFINE new == Advance(rings, rates)
           older == Older(ages, DOMAIN rates)
<1>1. SUFFICES ASSUME NEW k \in DOMAIN rates
               PROVE  /\ IsSeq(new[k]) /\ Len(new[k]) = older[k] /\ older[k] \in 1 .. SparkLen
                      /\ new[k][Len(new[k])] = rates[k]
  BY DEF Advance, Older, InStep
<1>2. IsSeq(Ring(rings, k)) /\ Len(Ring(rings, k)) \in 0 .. SparkLen
      /\ Len(Ring(rings, k)) = At(ages, k)
  <2>1. CASE k \in DOMAIN rings
    BY <2>1 DEF Ring, At, InStep
  <2>2. CASE k \notin DOMAIN rings
    <3>1. Ring(rings, k) = << >> /\ At(ages, k) = 0
      BY <2>2 DEF Ring, At, InStep
    <3>2. IsSeq(Ring(rings, k)) /\ Len(Ring(rings, k)) = 0
      BY <3>1, SeqEmpty
    <3>3. 0 \in 0 .. SparkLen
      BY EgressAssumption
    <3> QED
      BY <3>1, <3>2, <3>3
  <2> QED
    BY <2>1, <2>2
<1>3. new[k] = Push(Ring(rings, k), rates[k]) /\ older[k] = Min({At(ages, k) + 1, SparkLen})
  BY DEF Advance, Older
<1> QED
  BY <1>2, <1>3, PushedRing

\* Each history is in step with how long its subject has been there, and ends with what is
\* on show.
RingsInv == /\ InStep(spark, age.app) /\ InStep(sparkPID, age.pid) /\ InStep(sparkConn, age.conn)
            /\ RingsInStep

\* The last tool of a sample is what moves the histories on.
LEMMA PsRings ==
  ASSUME RingsInv, NEW ok \in BOOLEAN, Ps(ok)
  PROVE  RingsInv'
<1> DEFINE path == IF ok THEN proc ELSE [p \in Pids |-> NoPath]
           keys == {Key(s) : s \in conns}
           live == {p \in Pids : path[p] # Own /\ \E s \in conns : s.pid = p}
           apps == {AppOf(path, p) : p \in live}
           rate == [p \in live |-> Rate(prev, snap.procs, p)]
           connRate == [k \in keys |-> Rate(prevConn, snap.conns, k)]
           Members(a) == {p \in live : AppOf(path, p) = a}
           groups1 == [a \in apps |->
                        Group(IF a \in Paths THEN a ELSE NoPath, Members(a), rate,
                              [s \in {c \in conns : c.pid \in Members(a)} |-> connRate[Key(s)]])]
           rates == [a \in apps |-> groups1[a].rate]
<1>1. /\ sparkConn' = Advance(sparkConn, connRate)
      /\ sparkPID' = Advance(sparkPID, rate)
      /\ spark' = Advance(spark, rates)
      /\ age' = [app |-> Older(age.app, apps), pid |-> Older(age.pid, live),
                 conn |-> Older(age.conn, keys)]
      /\ shown' = groups1
  BY DEF Ps
<1> HIDE DEF path, keys, rate, connRate
<1>2. InStep(sparkConn', age.conn') /\ DOMAIN sparkConn' = keys
  <2>1. DOMAIN connRate = keys
    BY DEF connRate
  <2> QED
    BY <1>1, <2>1, AdvanceInStep DEF RingsInv
<1>3. InStep(sparkPID', age.pid') /\ DOMAIN sparkPID' = live
  <2>1. DOMAIN rate = live
    BY DEF rate
  <2> QED
    BY <1>1, <2>1, AdvanceInStep DEF RingsInv
<1>4. /\ InStep(spark', age.app') /\ DOMAIN spark' = apps
      /\ \A a \in apps : spark'[a][Len(spark'[a])] = shown'[a].rate
  <2>1. DOMAIN rates = apps
    OBVIOUS
  <2>2. \A a \in apps : rates[a] = shown'[a].rate
    BY <1>1
  <2>3. spark' = Advance(spark, rates) /\ age'.app = Older(age.app, DOMAIN rates)
    BY <1>1, <2>1
  <2>4. InStep(spark, age.app)
    BY DEF RingsInv
  <2> HIDE DEF rates
  <2>5. /\ InStep(spark', age'.app) /\ DOMAIN spark' = DOMAIN rates
        /\ \A a \in DOMAIN rates : spark'[a][Len(spark'[a])] = rates[a]
    BY <2>3, <2>4, AdvanceInStep
  <2> QED
    BY <2>1, <2>2, <2>5
<1>5. DOMAIN shown' = apps
  BY <1>1
<1>6. \A a \in apps : DOMAIN shown'[a].members = Members(a)
  BY <1>1 DEF Group
<1>7. live = UNION {DOMAIN shown'[a].members : a \in DOMAIN shown'}
  <2> HIDE DEF live
  <2>1. live = UNION {Members(a) : a \in apps}
    OBVIOUS
  <2> HIDE DEF Members, apps
  <2>2. {DOMAIN shown'[a].members : a \in apps} = {Members(a) : a \in apps}
    BY <1>6
  <2> QED
    BY <1>5, <2>1, <2>2
<1> QED
  BY <1>2, <1>3, <1>4, <1>5, <1>7 DEF RingsInv, RingsInStep, InStep

\* What the histories are about.
ringVars == <<spark, sparkPID, sparkConn, age, shown>>

\* Only the last part of a sample changes the histories.
LEMMA OnlyPs ==
  ASSUME [Next]_allVars
  PROVE  Ps(TRUE) \/ Ps(FALSE) \/ UNCHANGED ringVars
<1> USE DEF ringVars
<1>1. ASSUME UNCHANGED egressVars \/ UNCHANGED monitorVars
      PROVE  UNCHANGED ringVars
  BY <1>1 DEF egressVars, monitorVars
<1>2. CASE UNCHANGED allVars
  BY <1>1, <1>2 DEF allVars
<1>3. CASE Sampler
  <2>1. CASE Tick
    BY <2>1, <1>1 DEF Tick
  <2>2. CASE Warm
    BY <2>2, <1>1 DEF Warm
  <2>3. CASE PostSample
    BY <2>3, <1>1 DEF PostSample
  <2>4. ASSUME NEW ok \in BOOLEAN, Sample(ok)
        PROVE  Ps(ok) \/ UNCHANGED ringVars
    BY <2>4 DEF Sample, Nettop, Lsof
  <2> QED
    BY <1>3, <2>1, <2>2, <2>3, <2>4 DEF Sampler
<1>4. CASE \E s \in Senders : PostMessage(s)
  BY <1>4, <1>1 DEF PostMessage
<1>5. CASE \E k \in Keystrokes : Press(k)
  BY <1>5, <1>1 DEF Press
<1>6. CASE Loop
  BY <1>6, <1>1 DEF Loop, Unmoved, SwitchFace, Quit, InspectionKey, ZoomKey, TreeKey,
                    FindingsKey, Inspection, ShowSample, ShowMessage
<1>7. CASE World
  BY <1>7, <1>1 DEF World, Alone, Activity, Exits, Closes
<1>8. CASE Deadline \/ Failure
  BY <1>8, <1>1 DEF Deadline, Failure, Unmoved
<1> QED
  BY <1>2, <1>3, <1>4, <1>5, <1>6, <1>7, <1>8 DEF Next

\* No histories yet.
LEMMA RingsStart ==
  ASSUME EgressInit
  PROVE  RingsInv
BY DEF EgressInit, RingsInv, RingsInStep, InStep, None

\* The histories stay in step.
LEMMA RingsKept ==
  ASSUME RingsInv, [Next]_allVars
  PROVE  RingsInv'
<1>1. CASE Ps(TRUE) \/ Ps(FALSE)
  BY <1>1, PsRings
<1>2. CASE UNCHANGED ringVars
  <2>1. /\ spark' = spark /\ sparkPID' = sparkPID /\ sparkConn' = sparkConn
        /\ age' = age /\ shown' = shown
    BY <1>2 DEF ringVars
  <2>2. InStep(spark, age.app)' /\ InStep(sparkPID, age.pid)' /\ InStep(sparkConn, age.conn)'
    BY <2>1 DEF RingsInv, InStep
  <2>3. /\ DOMAIN spark = DOMAIN shown /\ DOMAIN age.app = DOMAIN shown
        /\ DOMAIN sparkPID = UNION {DOMAIN shown[a].members : a \in DOMAIN shown}
        /\ DOMAIN age.pid = DOMAIN sparkPID /\ DOMAIN age.conn = DOMAIN sparkConn
    BY DEF RingsInv, RingsInStep
  <2>4. /\ \A a \in DOMAIN spark : /\ Len(spark[a]) = age.app[a]
                                   /\ spark[a][Len(spark[a])] = shown[a].rate
        /\ \A p \in DOMAIN sparkPID : Len(sparkPID[p]) = age.pid[p]
        /\ \A k \in DOMAIN sparkConn : Len(sparkConn[k]) = age.conn[k]
    BY DEF RingsInv, RingsInStep
  <2>5. RingsInStep'
    <3>1. (/\ DOMAIN spark = DOMAIN shown /\ DOMAIN age.app = DOMAIN shown
           /\ DOMAIN sparkPID = UNION {DOMAIN shown[a].members : a \in DOMAIN shown}
           /\ DOMAIN age.pid = DOMAIN sparkPID /\ DOMAIN age.conn = DOMAIN sparkConn)'
      BY <2>1, <2>3
    <3>2. (/\ \A a \in DOMAIN spark : /\ Len(spark[a]) = age.app[a]
                                      /\ spark[a][Len(spark[a])] = shown[a].rate
           /\ \A p \in DOMAIN sparkPID : Len(sparkPID[p]) = age.pid[p]
           /\ \A k \in DOMAIN sparkConn : Len(sparkConn[k]) = age.conn[k])'
      BY <2>1, <2>4
    <3> QED
      BY <3>1, <3>2 DEF RingsInStep
  <2> QED
    BY <2>2, <2>5 DEF RingsInv
<1> QED
  BY <1>1, <1>2, OnlyPs

\* Whatever exits, opens, closes and is named between nettop, lsof and ps, and whichever
\* of them fail: after every sample each history has an entry per sample its subject was
\* in, ends with the rate on show, and those of what is gone are gone.
THEOREM HistoriesInStep == Spec => []RingsInStep
<1>1. ConsoleInit => RingsInv
  BY RingsStart DEF ConsoleInit
<1>2. RingsInv /\ [Next]_allVars => RingsInv'
  BY RingsKept
<1>3. RingsInv => RingsInStep
  BY DEF RingsInv
<1> QED
  BY <1>1, <1>2, <1>3, PTL DEF Spec

-----------------------------------------------------------------------------
(* The captured messages. *)

\* buf is the end of all.
EndOf(buf, all) ==
    /\ IsSeq(buf) /\ IsSeq(all) /\ Len(buf) \in 0 .. MaxPerApp /\ Len(buf) <= Len(all)
    /\ \A i \in 1 .. Len(buf) : buf[i] = all[Len(all) - Len(buf) + i]

\* A run of messages in buf that all tell their process one way is one process's.
OneProcess(buf) ==
    \A i, j \in 1 .. Len(buf) : \A how \in {"path", "name"} :
        i <= j /\ (\A k \in i .. j : Told(buf[k].from, how))
            => ToldBy(buf[i].from, how) = ToldBy(buf[j].from, how)

\* Two messages of one process that tell it the same way agree.
LEMMA SameAreTold ==
  ASSUME NEW a, NEW b, SameProc(a, b), NEW how \in {"path", "name"}, Told(a, how), Told(b, how)
  PROVE  ToldBy(a, how) = ToldBy(b, how)
<1>1. CASE how = "path"
  BY <1>1 DEF SameProc, Unowned, Told, ToldBy, Known
<1>2. CASE how = "name"
  BY <1>2 DEF SameProc, Unowned, Told, ToldBy, Known
<1> QED
  BY <1>1, <1>2

\* The buffer of a pid is the end of what came for its process, without what was counted
\* as lost.
Accounted(buf, all, lost) ==
    /\ EndOf(buf, all) /\ OneProcess(buf) /\ buf # << >> /\ lost = Len(all) - Len(buf)

\* The same, of the buffer the loop keeps for p.
BufferOf(p) == Accounted(buffer[p], ingested[p], At(dropped, p))

\* So is every buffer there is, and only for a pid with a buffer is anything counted.
MessagesInv == /\ DOMAIN buffer = DOMAIN ingested /\ DOMAIN dropped \subseteq DOMAIN buffer
               /\ \A p \in DOMAIN buffer : BufferOf(p)

\* Only the loop's handler of messages changes the buffers.
LEMMA OnlyMessages ==
  ASSUME [Next]_allVars
  PROVE  ShowMessage \/ UNCHANGED messageVars
<1>1. ASSUME UNCHANGED consoleVars
      PROVE  UNCHANGED messageVars
  BY <1>1 DEF consoleVars
<1>2. CASE UNCHANGED allVars
  BY <1>1, <1>2 DEF allVars
<1>3. CASE Sampler
  BY <1>3, <1>1 DEF Sampler, Tick, Warm, PostSample
<1>4. CASE \E s \in Senders : PostMessage(s)
  BY <1>4 DEF PostMessage
<1>5. CASE \E k \in Keystrokes : Press(k)
  BY <1>5 DEF Press
<1>6. CASE Loop
  BY <1>6 DEF Loop, Unmoved, SwitchFace, Quit, InspectionKey, ZoomKey, TreeKey,
              FindingsKey, Inspection, ShowSample
<1>7. CASE World
  BY <1>7 DEF World
<1>8. CASE Deadline \/ Failure
  BY <1>8 DEF Deadline, Failure, Unmoved
<1> QED
  BY <1>2, <1>3, <1>4, <1>5, <1>6, <1>7, <1>8 DEF Next

\* What a buffer is after one more message.
Grown(buf, m) == Append(IF Len(buf) < MaxPerApp THEN buf ELSE Tail(buf), m)

\* grow keeps the end of what came, counts what it drops, and does not mix processes.
LEMMA GrownBuffer ==
  ASSUME NEW buf, NEW all, NEW m, EndOf(buf, all)
  PROVE  /\ EndOf(Grown(buf, m), Append(all, m)) /\ Grown(buf, m) # << >>
         /\ Len(all) - Len(buf) + (IF Len(buf) < MaxPerApp THEN 0 ELSE 1)
                = Len(Append(all, m)) - Len(Grown(buf, m))
         /\ (OneProcess(buf) /\ (buf = << >> \/ SameProc(buf[Len(buf)].from, m.from)))
                => OneProcess(Grown(buf, m))
<1> DEFINE kept == IF Len(buf) < MaxPerApp THEN buf ELSE Tail(buf)
           cut == IF Len(buf) < MaxPerApp THEN 0 ELSE 1
           n == Len(kept)
           b == Grown(buf, m)
           all2 == Append(all, m)
<1>1. MaxPerApp \in Nat \ {0} /\ cut \in {0, 1}
  BY ConsoleAssumption
<1>2. /\ Len(buf) \in 0 .. MaxPerApp /\ Len(buf) <= Len(all) /\ Len(all) \in Nat
      /\ Len(all2) = Len(all) + 1 /\ all2[Len(all) + 1] = m
      /\ \A i \in 1 .. Len(all) : all2[i] = all[i]
  BY SeqAppend DEF EndOf
<1>3. /\ IsSeq(kept) /\ n = Len(buf) - cut /\ n \in Nat /\ n + 1 <= MaxPerApp
      /\ \A i \in 1 .. n : kept[i] = buf[i + cut]
  <2>1. CASE Len(buf) < MaxPerApp
    BY <2>1, <1>1, <1>2 DEF EndOf
  <2>2. CASE Len(buf) = MaxPerApp
    <3>1. buf # << >>
      BY <2>2, <1>1, SeqEmpty
    <3>2. /\ IsSeq(Tail(buf)) /\ Len(Tail(buf)) = Len(buf) - 1
          /\ \A i \in 1 .. Len(buf) - 1 : Tail(buf)[i] = buf[i + 1]
      BY <3>1, SeqTail DEF EndOf
    <3> QED
      BY <2>2, <3>2, <1>1, <1>2
  <2> QED
    BY <2>1, <2>2, <1>1, <1>2
<1> HIDE DEF kept, cut, all2
<1>4. /\ IsSeq(b) /\ Len(b) = n + 1 /\ b[n + 1] = m
      /\ \A i \in 1 .. n : b[i] = kept[i]
  <2>1. b = Append(kept, m)
    BY DEF Grown, kept
  <2> QED
    BY <2>1, <1>3, SeqAppend
<1> HIDE DEF b
<1>5. b # << >>
  BY <1>3, <1>4, SeqEmpty
<1>6. \A i \in 1 .. n : b[i] = buf[i + cut] /\ i + cut \in 1 .. Len(buf)
  BY <1>1, <1>2, <1>3, <1>4
<1> HIDE DEF n
<1>7. EndOf(b, all2)
  <2>1. IsSeq(all2)
    BY SeqAppend DEF EndOf, all2
  <2>2. ASSUME NEW i \in 1 .. Len(b)
        PROVE  b[i] = all2[Len(all2) - Len(b) + i]
    <3>1. CASE i = n + 1
      BY <3>1, <1>2, <1>3, <1>4
    <3>2. CASE i \in 1 .. n
      <4>1. b[i] = all[Len(all) - Len(buf) + (i + cut)]
        BY <3>2, <1>6 DEF EndOf
      <4>2. /\ Len(all2) - Len(b) + i = Len(all) - Len(buf) + (i + cut)
            /\ Len(all2) - Len(b) + i \in 1 .. Len(all)
        BY <3>2, <1>1, <1>2, <1>3, <1>4
      <4> QED
        BY <4>1, <4>2, <1>2
    <3> QED
      BY <3>1, <3>2, <1>3, <1>4
  <2> QED
    BY <2>1, <2>2, <1>1, <1>2, <1>3, <1>4 DEF EndOf
<1>8. Len(all) - Len(buf) + cut = Len(all2) - Len(b)
  BY <1>1, <1>2, <1>3, <1>4
<1>9. ASSUME OneProcess(buf), buf = << >> \/ SameProc(buf[Len(buf)].from, m.from)
      PROVE  OneProcess(b)
  <2> SUFFICES ASSUME NEW i \in 1 .. n + 1, NEW j \in 1 .. n + 1, i <= j,
                      NEW how \in {"path", "name"}, \A k \in i .. j : Told(b[k].from, how)
               PROVE  ToldBy(b[i].from, how) = ToldBy(b[j].from, how)
    BY <1>4 DEF OneProcess
  <2>1. CASE i = j
    BY <2>1
  <2>2. ASSUME i < j, NEW l \in i .. j, l <= n
        PROVE  ToldBy(buf[i + cut].from, how) = ToldBy(buf[l + cut].from, how)
    <3>1. \A k \in i + cut .. l + cut : Told(buf[k].from, how)
      <4> SUFFICES ASSUME NEW k \in i + cut .. l + cut
                   PROVE  Told(buf[k].from, how)
        OBVIOUS
      <4>1. k - cut \in i .. j /\ k - cut \in 1 .. n /\ (k - cut) + cut = k
        BY <2>2, <1>1, <1>3
      <4>2. Told(b[k - cut].from, how)
        BY <4>1
      <4>3. b[k - cut] = buf[(k - cut) + cut]
        BY <4>1, <1>6
      <4> QED
        BY <4>1, <4>2, <4>3
    <3>2. i + cut \in 1 .. Len(buf) /\ l + cut \in 1 .. Len(buf) /\ i + cut <= l + cut
      BY <2>2, <1>1, <1>3, <1>6
    <3> QED
      BY <3>1, <3>2, <1>9 DEF OneProcess
  <2>3. CASE i < j /\ j <= n
    BY <2>2, <2>3, <1>3, <1>6
  <2>4. CASE i < j /\ j = n + 1
    <3>1. n \in i .. j /\ n <= n /\ i \in 1 .. n /\ n \in 1 .. n
      BY <2>4, <1>3
    <3>2. ToldBy(b[i].from, how) = ToldBy(b[n].from, how)
      BY <3>1, <2>2, <2>4, <1>6
    <3>3. b[n] = buf[Len(buf)] /\ Len(buf) # 0
      BY <3>1, <1>1, <1>2, <1>3, <1>6
    <3>4. SameProc(b[n].from, m.from)
      BY <3>3, <1>9, SeqEmpty
    <3>5. Told(b[n].from, how) /\ Told(m.from, how)
      BY <3>1, <2>4, <1>4
    <3> QED
      BY <3>2, <3>4, <3>5, <2>4, <1>4, SameAreTold
  <2>5. i = j \/ (i < j /\ j <= n) \/ (i < j /\ j = n + 1)
    BY <1>3
  <2> QED
    BY <2>1, <2>3, <2>4, <2>5
<1> QED
  BY <1>5, <1>7, <1>8, <1>9 DEF b, all2, cut

\* A message that is taken in goes to the buffer of its pid, and to no other.
LEMMA IngestKeeps ==
  ASSUME MessagesInv, NEW m, Ingest(m)
  PROVE  MessagesInv'
<1> DEFINE p == m.from.pid
           buf == IF Recycled(m) THEN << >> ELSE Ring(buffer, p)
           all == IF Recycled(m) THEN << >> ELSE Ring(ingested, p)
           lost == IF Recycled(m) THEN Without(dropped, p) ELSE dropped
           Fit == /\ EndOf(buf, all) /\ OneProcess(buf) /\ At(lost, p) = Len(all) - Len(buf)
                  /\ buf = << >> \/ SameProc(buf[Len(buf)].from, m.from)
<1>1. /\ buffer' = With(buffer, p, Grown(buf, m))
      /\ dropped' = IF Len(buf) < MaxPerApp THEN lost ELSE With(lost, p, At(lost, p) + 1)
      /\ ingested' = With(ingested, p, Append(all, m))
  BY DEF Ingest, Kept, Grown
<1>2. Fit
  <2>1. ASSUME buf = << >>, all = << >>, At(lost, p) = 0
        PROVE  Fit
    <3>1. IsSeq(buf) /\ Len(buf) = 0 /\ IsSeq(all) /\ Len(all) = 0
      BY <2>1, SeqEmpty
    <3> QED
      BY <2>1, <3>1, ConsoleAssumption DEF EndOf, OneProcess
  <2>2. CASE Recycled(m)
    <3>1. At(lost, p) = 0
      BY <2>2 DEF Without, At
    <3> QED
      BY <2>1, <2>2, <3>1
  <2>3. CASE ~Recycled(m) /\ p \notin DOMAIN buffer
    <3>1. buf = << >> /\ all = << >> /\ At(lost, p) = 0
      BY <2>3 DEF MessagesInv, Ring, At
    <3> QED
      BY <2>1, <3>1
  <2>4. CASE ~Recycled(m) /\ p \in DOMAIN buffer
    <3>1. buf = buffer[p] /\ all = ingested[p] /\ lost = dropped
      BY <2>4 DEF MessagesInv, Ring
    <3>2. SameProc(buf[Len(buf)].from, m.from)
      BY <2>4, <3>1 DEF Recycled
    <3> QED
      BY <2>4, <3>1, <3>2 DEF MessagesInv, BufferOf, Accounted
  <2> QED
    BY <2>2, <2>3, <2>4
<1> HIDE DEF buf, all
<1>3. /\ EndOf(Grown(buf, m), Append(all, m)) /\ Grown(buf, m) # << >>
      /\ OneProcess(Grown(buf, m))
      /\ Len(all) - Len(buf) + (IF Len(buf) < MaxPerApp THEN 0 ELSE 1)
             = Len(Append(all, m)) - Len(Grown(buf, m))
  BY <1>2, GrownBuffer
<1>4. /\ DOMAIN buffer' = DOMAIN buffer \cup {p} /\ buffer'[p] = Grown(buf, m)
      /\ DOMAIN ingested' = DOMAIN ingested \cup {p} /\ ingested'[p] = Append(all, m)
      /\ \A q \in DOMAIN buffer \ {p} : buffer'[q] = buffer[q] /\ ingested'[q] = ingested[q]
  BY <1>1 DEF With, MessagesInv
<1>5. /\ DOMAIN dropped' \subseteq DOMAIN dropped \cup {p}
      /\ At(dropped', p) = At(lost, p) + (IF Len(buf) < MaxPerApp THEN 0 ELSE 1)
      /\ \A q \in DOMAIN buffer \ {p} : At(dropped', q) = At(dropped, q)
  <2>1. /\ DOMAIN lost \subseteq DOMAIN dropped
        /\ \A q \in DOMAIN buffer \ {p} : At(lost, q) = At(dropped, q)
    BY DEF Without, At
  <2>2. At(lost, p) \in Int
    BY <1>2 DEF EndOf, IsSeq
  <2> HIDE DEF lost
  <2>3. CASE Len(buf) < MaxPerApp
    BY <2>1, <2>2, <2>3, <1>1
  <2>4. CASE ~(Len(buf) < MaxPerApp)
    <3>1. dropped' = With(lost, p, At(lost, p) + 1)
      BY <2>4, <1>1
    <3>2. /\ DOMAIN dropped' = DOMAIN lost \cup {p} /\ At(dropped', p) = At(lost, p) + 1
          /\ \A q \in DOMAIN buffer \ {p} : At(dropped', q) = At(lost, q)
      BY <3>1 DEF With, At
    <3> QED
      BY <2>1, <2>4, <3>2
  <2> QED
    BY <2>3, <2>4
<1>6. BufferOf(p)'
  <2>1. Accounted(buffer'[p], ingested'[p], At(dropped', p))
    BY <1>2, <1>3, <1>4, <1>5 DEF Accounted
  <2> QED
    BY <2>1 DEF BufferOf, Accounted, EndOf, OneProcess, At
<1>7. \A q \in DOMAIN buffer \ {p} : BufferOf(q)'
  <2> SUFFICES ASSUME NEW q \in DOMAIN buffer \ {p}
               PROVE  BufferOf(q)'
    OBVIOUS
  <2>1. Accounted(buffer[q], ingested[q], At(dropped, q))
    BY DEF MessagesInv, BufferOf
  <2>2. Accounted(buffer'[q], ingested'[q], At(dropped', q))
    BY <2>1, <1>4, <1>5
  <2> QED
    BY <2>2 DEF BufferOf, Accounted, EndOf, OneProcess, At
<1> QED
  BY <1>4, <1>5, <1>6, <1>7 DEF MessagesInv

\* MessagesInv holds throughout, whatever else the console does.
LEMMA MessagesKept == ConsoleInit /\ [][Next]_allVars => []MessagesInv
<1>1. ConsoleInit => MessagesInv
  BY DEF ConsoleInit, MessagesInv, None
<1>2. MessagesInv /\ [Next]_allVars => MessagesInv'
  <2> SUFFICES ASSUME MessagesInv, [Next]_allVars
               PROVE  MessagesInv'
    OBVIOUS
  <2>1. ASSUME UNCHANGED <<buffer, dropped, ingested>>
        PROVE  MessagesInv'
    <3>1. ASSUME NEW p \in DOMAIN buffer
          PROVE  BufferOf(p)'
      <4>1. Accounted(buffer[p], ingested[p], At(dropped, p))
        BY DEF MessagesInv, BufferOf
      <4>2. Accounted(buffer'[p], ingested'[p], At(dropped', p))
        BY <2>1, <4>1
      <4> QED
        BY <4>2 DEF BufferOf, Accounted, EndOf, OneProcess, At
    <3> QED
      BY <2>1, <3>1 DEF MessagesInv
  <2>2. CASE UNCHANGED messageVars
    BY <2>1, <2>2 DEF messageVars
  <2>3. CASE ShowMessage
    BY <2>1, <2>3, IngestKeeps DEF ShowMessage, ShowNotice, Refuse
  <2> QED
    BY <2>2, <2>3, OnlyMessages
<1> QED
  BY <1>1, <1>2, PTL

\* However many messages come, of however many processes, in whatever order, with pids that
\* are used again: the buffer of a pid is the end of what came for the process that has it
\* now, and what was lost of it is counted.
THEOREM MessagesAccounted == Spec => []BufferAccounted
<1>1. MessagesInv => BufferAccounted
  <2> SUFFICES ASSUME MessagesInv, NEW p \in DOMAIN buffer
               PROVE  buffer[p] = SubSeq(ingested[p], Len(ingested[p]) - Len(buffer[p]) + 1,
                                         Len(ingested[p]))
    BY DEF MessagesInv, BufferOf, Accounted, BufferAccounted
  <2> DEFINE b == buffer[p]
             all == ingested[p]
             end == SubSeq(all, Len(all) - Len(b) + 1, Len(all))
  <2>1. EndOf(b, all)
    BY DEF MessagesInv, BufferOf, Accounted
  <2> HIDE DEF b, all
  <2>2. PICK S, T : b \in Seq(S) /\ all \in Seq(T)
    BY <2>1 DEF EndOf, IsSeq
  <2>3. Len(b) \in Nat /\ Len(all) \in Nat /\ Len(b) <= Len(all)
    BY <2>1, <2>2 DEF EndOf
  <2>4. /\ end \in Seq(T) /\ Len(end) = Len(b)
        /\ \A i \in 1 .. Len(b) : end[i] = all[Len(all) - Len(b) + i]
    BY <2>2, <2>3
  <2> HIDE DEF end
  <2>5. b \in Seq(S \cup T) /\ end \in Seq(S \cup T)
    BY <2>2, <2>4
  <2>6. \A i \in 1 .. Len(b) : b[i] = end[i]
    BY <2>1, <2>4 DEF EndOf
  <2>7. b = end
    BY <2>4, <2>5, <2>6
  <2> QED
    BY <2>7 DEF b, all, end
<1> QED
  BY <1>1, MessagesKept, PTL DEF Spec

\* "A reused PID must not inherit the prior process's flows", as far as the messages tell,
\* for every sequence of messages.
THEOREM BuffersNeverMixed == Spec => []NeverMixed
<1>1. MessagesInv => NeverMixed
  <2> SUFFICES ASSUME MessagesInv, NEW p \in DOMAIN buffer
               PROVE  \A i, j \in DOMAIN buffer[p] : \A how \in {"path", "name"} :
                          i <= j /\ (\A k \in i .. j : Told(buffer[p][k].from, how))
                              => ToldBy(buffer[p][i].from, how) = ToldBy(buffer[p][j].from, how)
    BY DEF NeverMixed
  <2>1. OneProcess(buffer[p]) /\ DOMAIN buffer[p] = 1 .. Len(buffer[p])
    BY DEF MessagesInv, BufferOf, Accounted, EndOf, IsSeq
  <2> QED
    BY <2>1 DEF OneProcess
<1> QED
  BY <1>1, MessagesKept, PTL DEF Spec

-----------------------------------------------------------------------------
(* The names of destinations. *)

\* What the resolver observes: an address, with a name or with none.
Answers == [ip : IPs, name : Names \cup {Blank}]

\* The latest answer in obs with a name for ip.
Namings(obs, ip) == {i \in DOMAIN obs : obs[i].ip = ip /\ obs[i].name # Blank}
Latest(obs, ip) == Max({0} \cup Namings(obs, ip))

\* It is 0 or the largest number of such an answer.
LEMMA LatestIs ==
  ASSUME NEW obs \in Seq(Answers), NEW ip
  PROVE  /\ Latest(obs, ip) \in 0 .. Len(obs)
         /\ Latest(obs, ip) # 0 => Latest(obs, ip) \in Namings(obs, ip)
         /\ \A i \in Namings(obs, ip) : i <= Latest(obs, ip)
<1> DEFINE T == {0} \cup Namings(obs, ip)
<1>1. Namings(obs, ip) \subseteq 1 .. Len(obs) /\ Len(obs) \in Nat
  BY DEF Namings
<1>2. T \in SUBSET (0 .. Len(obs)) /\ T # {}
  BY <1>1
<1> HIDE DEF T
<1>3. \E x \in T : \A y \in T : x >= y
  BY <1>1, <1>2, LargestNat
<1>4. Max(T) \in T /\ \A y \in T : Max(T) >= y
  BY <1>3 DEF Max
<1>5. Latest(obs, ip) = Max(T)
  BY DEF Latest, T
<1>6. \A y \in T : y \in Int
  BY <1>2
<1> QED
  BY <1>1, <1>2, <1>4, <1>5, <1>6 DEF T

\* An answer that names ip is the latest one for ip, and changes nothing for the others.
LEMMA LatestAppended ==
  ASSUME NEW obs \in Seq(Answers), NEW e \in Answers, NEW ip
  PROVE  Latest(Append(obs, e), ip) = IF e.ip = ip /\ e.name # Blank THEN Len(obs) + 1
                                      ELSE Latest(obs, ip)
<1> DEFINE new == Append(obs, e)
<1>1. /\ new \in Seq(Answers) /\ Len(new) = Len(obs) + 1 /\ new[Len(obs) + 1] = e
      /\ \A i \in 1 .. Len(obs) : new[i] = obs[i]
      /\ Len(obs) \in Nat /\ DOMAIN new = 1 .. Len(obs) + 1 /\ DOMAIN obs = 1 .. Len(obs)
  OBVIOUS
<1> HIDE DEF new
<1>2. Namings(new, ip) = Namings(obs, ip) \cup IF e.ip = ip /\ e.name # Blank THEN {Len(obs) + 1} ELSE {}
  BY <1>1 DEF Namings
<1>3. /\ Latest(obs, ip) \in 0 .. Len(obs)
      /\ Latest(obs, ip) # 0 => Latest(obs, ip) \in Namings(obs, ip)
      /\ \A i \in Namings(obs, ip) : i <= Latest(obs, ip)
  BY LatestIs
<1>4. /\ Latest(new, ip) \in 0 .. Len(obs) + 1
      /\ Latest(new, ip) # 0 => Latest(new, ip) \in Namings(new, ip)
      /\ \A i \in Namings(new, ip) : i <= Latest(new, ip)
  BY <1>1, LatestIs
<1>5. CASE e.ip = ip /\ e.name # Blank
  <2>1. Len(obs) + 1 \in Namings(new, ip)
    BY <1>2, <1>5
  <2>2. Len(obs) + 1 <= Latest(new, ip) /\ Latest(new, ip) \in 0 .. Len(obs) + 1
    BY <1>4, <2>1
  <2>3. Latest(new, ip) = Len(obs) + 1
    BY <1>1, <2>2
  <2> QED
    BY <1>5, <2>3 DEF new
<1>6. CASE ~(e.ip = ip /\ e.name # Blank)
  <2>1. Namings(new, ip) = Namings(obs, ip)
    BY <1>2, <1>6
  <2> QED
    BY <1>3, <1>4, <1>6, <2>1 DEF new, Latest
<1> QED
  BY <1>5, <1>6 DEF new

\* The addresses by when they were last named.
Sorted(ord, obs) ==
    \A i, j \in DOMAIN ord : i < j => Latest(obs, ord[i]) < Latest(obs, ord[j])

\* The cache holds the DnsCap addresses that were named last, in that order.
NameInv ==
    /\ NameTypeOK
    /\ Len(order) <= DnsCap /\ Sorted(order, observed)
    /\ DOMAIN name = {order[i] : i \in DOMAIN order}
    /\ \A ip \in DOMAIN name : /\ Latest(observed, ip) # 0
                               /\ name[ip] = observed[Latest(observed, ip)].name
    /\ \A k \in IPs \ DOMAIN name : Latest(observed, k) # 0 =>
          /\ Len(order) = DnsCap
          /\ \A ip \in DOMAIN name : Latest(observed, k) < Latest(observed, ip)

\* ord without its place c, and then ip.
Shifted(new, ord, c, ip) ==
    LET m == IF c <= Len(ord) THEN Len(ord) - 1 ELSE Len(ord)
    IN  /\ Len(new) = m + 1 /\ new[m + 1] = ip
        /\ \A k \in 1 .. m : new[k] = ord[IF k < c THEN k ELSE k + 1]

\* touch moves ip from where it is to the end.
LEMMA TouchMoves ==
  ASSUME order \in Seq(IPs), NEW ip \in {order[i] : i \in DOMAIN order}
  PROVE  \E c \in DOMAIN order : /\ order[c] = ip
                                 /\ Touched(ip) \in Seq(IPs) /\ Shifted(Touched(ip), order, c, ip)
<1> DEFINE T == {j \in DOMAIN order : order[j] = ip}
           First(j) == order[j] = ip /\ \A k \in 1 .. j - 1 : order[k] # ip
           c == CHOOSE j \in DOMAIN order : First(j)
<1>1. \E j \in DOMAIN order : First(j)
  <2>1. T \in SUBSET Nat /\ T # {}
    OBVIOUS
  <2>2. PICK j \in T : \A k \in T : j <= k
    <3> HIDE DEF T
    <3> QED
      BY <2>1, LeastNat
  <2>3. j \in DOMAIN order /\ First(j)
    BY <2>2
  <2> QED
    BY <2>3
<1>2. c \in DOMAIN order /\ First(c)
  BY <1>1
<1>3. Touched(ip) = SubSeq(order, 1, c - 1) \o SubSeq(order, c + 1, Len(order)) \o <<ip>>
  BY DEF Touched
<1> HIDE DEF c
<1>4. ip \in IPs /\ c \in 1 .. Len(order) /\ Len(order) \in Nat
  BY <1>2
<1> DEFINE a == SubSeq(order, 1, c - 1)
           b == SubSeq(order, c + 1, Len(order))
<1>5. a \in Seq(IPs) /\ Len(a) = c - 1 /\ \A k \in 1 .. c - 1 : a[k] = order[k]
  BY <1>4
<1>6. b \in Seq(IPs) /\ Len(b) = Len(order) - c /\ \A k \in 1 .. Len(order) - c : b[k] = order[c + k]
  <2>1. CASE c = Len(order)
    <3>1. b = << >>
      BY <2>1, <1>4
    <3> QED
      BY <3>1, <2>1, <1>4
  <2>2. CASE c < Len(order)
    <3>1. Len(b) = Len(order) - c
      BY <2>2, <1>4
    <3>2. ASSUME NEW k \in 1 .. Len(order) - c
          PROVE  b[k] = order[c + k] /\ b[k] \in IPs
      <4>1. c + k \in 1 .. Len(order) /\ c + 1 + k - 1 = c + k
        BY <1>4
      <4> QED
        BY <2>2, <1>4, <4>1
    <3>3. b \in Seq(IPs)
      BY <2>2, <1>4
    <3> QED
      BY <3>1, <3>2, <3>3
  <2> QED
    BY <2>1, <2>2, <1>4
<1> HIDE DEF a, b
<1>7. /\ Touched(ip) \in Seq(IPs) /\ Len(Touched(ip)) = Len(order)
      /\ \A k \in 1 .. Len(order) : Touched(ip)[k] = IF k <= c - 1 THEN a[k]
                                        ELSE IF k <= Len(order) - 1 THEN b[k - (c - 1)] ELSE ip
  <2>1. Touched(ip) = (a \o b) \o <<ip>>
    BY <1>3 DEF a, b
  <2>2. a \o b \in Seq(IPs) /\ Len(a \o b) = Len(order) - 1
    <3>1. a \in Seq(IPs) /\ b \in Seq(IPs) /\ Len(a) = c - 1 /\ Len(b) = Len(order) - c
      BY <1>5, <1>6
    <3>2. a \o b \in Seq(IPs) /\ Len(a \o b) = Len(a) + Len(b)
      BY <3>1, SeqConcat
    <3> QED
      BY <3>1, <3>2, <1>4
  <2>3. \A k \in 1 .. Len(order) - 1 : (a \o b)[k] = IF k <= c - 1 THEN a[k] ELSE b[k - (c - 1)]
    <3>1. a \in Seq(IPs) /\ b \in Seq(IPs) /\ Len(a) = c - 1 /\ Len(b) = Len(order) - c
      BY <1>5, <1>6
    <3>2. /\ \A k \in 1 .. Len(a) : (a \o b)[k] = a[k]
          /\ \A k \in 1 .. Len(b) : (a \o b)[Len(a) + k] = b[k]
      BY <3>1, SeqConcat
    <3> SUFFICES ASSUME NEW k \in 1 .. Len(order) - 1
                 PROVE  (a \o b)[k] = IF k <= c - 1 THEN a[k] ELSE b[k - (c - 1)]
      OBVIOUS
    <3>3. CASE k <= c - 1
      BY <3>1, <3>2, <3>3, <1>4
    <3>4. CASE ~(k <= c - 1)
      <4>1. k - (c - 1) \in 1 .. Len(b) /\ Len(a) + (k - (c - 1)) = k
        BY <3>1, <3>4, <1>4
      <4>2. (a \o b)[Len(a) + (k - (c - 1))] = b[k - (c - 1)]
        BY <3>2, <4>1
      <4> QED
        BY <3>4, <4>1, <4>2
    <3> QED
      BY <3>3, <3>4
  <2> DEFINE ab == a \o b
  <2> HIDE DEF ab
  <2>4. ab \o <<ip>> \in Seq(IPs) /\ Len(ab \o <<ip>>) = Len(order)
        /\ \A k \in 1 .. Len(order) : (ab \o <<ip>>)[k] = IF k <= Len(order) - 1 THEN ab[k] ELSE ip
    <3>1. ab \in Seq(IPs) /\ Len(ab) = Len(order) - 1 /\ Len(order) \in Nat
      BY <2>2, <1>4 DEF ab
    <3>2. <<ip>> \in Seq(IPs) /\ Len(<<ip>>) = 1 /\ <<ip>>[1] = ip
      BY <1>4
    <3>3. /\ ab \o <<ip>> \in Seq(IPs) /\ Len(ab \o <<ip>>) = Len(ab) + Len(<<ip>>)
          /\ \A k \in 1 .. Len(ab) : (ab \o <<ip>>)[k] = ab[k]
          /\ \A k \in 1 .. Len(<<ip>>) : (ab \o <<ip>>)[Len(ab) + k] = <<ip>>[k]
      BY <3>1, <3>2, SeqConcat
    <3>4. (ab \o <<ip>>)[Len(order)] = ip
      BY <3>1, <3>2, <3>3
    <3>5. Len(ab \o <<ip>>) = Len(order)
      BY <3>1, <3>2, <3>3
    <3>6. \A k \in 1 .. Len(order) : k \in 1 .. Len(ab) \/ k = Len(order)
      BY <3>1
    <3>7. ASSUME NEW k \in 1 .. Len(order)
          PROVE  (ab \o <<ip>>)[k] = IF k <= Len(order) - 1 THEN ab[k] ELSE ip
      <4>1. CASE k \in 1 .. Len(ab)
        BY <3>1, <3>3, <4>1
      <4>2. CASE k = Len(order)
        BY <3>1, <3>4, <4>2
      <4> QED
        BY <3>6, <4>1, <4>2
    <3> QED
      BY <3>3, <3>5, <3>7
  <2>5. Touched(ip) = ab \o <<ip>>
    BY <2>1 DEF ab
  <2>6. \A k \in 1 .. Len(order) - 1 : ab[k] = IF k <= c - 1 THEN a[k] ELSE b[k - (c - 1)]
    BY <2>3 DEF ab
  <2>7. Len(order) \in Nat /\ c \in 1 .. Len(order)
    BY <1>4
  <2>8. ASSUME NEW k \in 1 .. Len(order)
        PROVE  Touched(ip)[k] = IF k <= c - 1 THEN a[k]
                                ELSE IF k <= Len(order) - 1 THEN b[k - (c - 1)] ELSE ip
    <3>1. Touched(ip)[k] = IF k <= Len(order) - 1 THEN ab[k] ELSE ip
      BY <2>4, <2>5
    <3>2. CASE k \in 1 .. Len(order) - 1
      BY <2>6, <2>7, <3>1, <3>2
    <3>3. CASE k = Len(order)
      BY <2>7, <3>1, <3>3
    <3> QED
      BY <2>7, <3>2, <3>3
  <2> QED
    BY <2>4, <2>5, <2>8
<1>8. Shifted(Touched(ip), order, c, ip)
  <2>1. \A k \in 1 .. Len(order) - 1 : Touched(ip)[k] = order[IF k < c THEN k ELSE k + 1]
    <3> SUFFICES ASSUME NEW k \in 1 .. Len(order) - 1
                 PROVE  Touched(ip)[k] = order[IF k < c THEN k ELSE k + 1]
      OBVIOUS
    <3>1. CASE k < c
      BY <3>1, <1>4, <1>5, <1>7
    <3>2. CASE k >= c
      <4>1. k - (c - 1) \in 1 .. Len(order) - c /\ c + (k - (c - 1)) = k + 1
        BY <3>2, <1>4
      <4>2. Touched(ip)[k] = b[k - (c - 1)]
        <5>1. k \in 1 .. Len(order) /\ ~(k <= c - 1) /\ k <= Len(order) - 1
          BY <3>2, <1>4
        <5> QED
          BY <5>1, <1>7
      <4>3. b[k - (c - 1)] = order[c + (k - (c - 1))]
        BY <4>1, <1>6
      <4> QED
        BY <3>2, <4>1, <4>2, <4>3, <1>4
    <3> QED
      BY <3>1, <3>2, <1>4
  <2> QED
    BY <2>1, <1>4, <1>7 DEF Shifted
<1> QED
  BY <1>2, <1>7, <1>8

\* What is left keeps its order, and ip, now the latest, comes after it.
LEMMA MoveSorts ==
  ASSUME order \in Seq(IPs), observed \in Seq(Answers), Sorted(order, observed),
         NEW ip \in IPs, NEW n \in Names, n # Blank,
         NEW new \in Seq(IPs), NEW c \in 1 .. Len(order) + 1, Shifted(new, order, c, ip),
         \A j \in DOMAIN order : j # c => order[j] # ip
  PROVE  /\ Sorted(new, Append(observed, [ip |-> ip, name |-> n]))
         /\ {new[k] : k \in DOMAIN new} = {order[j] : j \in DOMAIN order \ {c}} \cup {ip}
<1> DEFINE m == IF c <= Len(order) THEN Len(order) - 1 ELSE Len(order)
           g(k) == IF k < c THEN k ELSE k + 1
           e == [ip |-> ip, name |-> n]
           obs == Append(observed, e)
<1>1. /\ Len(new) = m + 1 /\ new[m + 1] = ip
      /\ \A k \in 1 .. m : new[k] = order[g(k)]
      /\ DOMAIN new = 1 .. m + 1 /\ m \in Nat /\ Len(order) \in Nat
  BY DEF Shifted
<1>2. \A k \in 1 .. m : g(k) \in DOMAIN order \ {c}
  BY <1>1
<1>3. \A k, l \in 1 .. m : k < l => g(k) < g(l)
  BY <1>1
<1>4. \A j \in DOMAIN order \ {c} : \E k \in 1 .. m : g(k) = j
  <2> SUFFICES ASSUME NEW j \in DOMAIN order \ {c}
               PROVE  \E k \in 1 .. m : g(k) = j
    OBVIOUS
  <2>1. CASE j < c
    <3>1. j \in 1 .. m /\ g(j) = j
      BY <2>1, <1>1
    <3> QED
      BY <3>1
  <2>2. CASE j > c
    <3>1. j - 1 \in 1 .. m /\ g(j - 1) = j
      BY <2>2, <1>1
    <3> QED
      BY <3>1
  <2> QED
    BY <2>1, <2>2
<1>5. e \in Answers /\ e.ip = ip /\ e.name # Blank
  BY DEF Answers
<1> HIDE DEF e
<1>6. \A x \in IPs : Latest(obs, x) = IF x = ip THEN Len(observed) + 1 ELSE Latest(observed, x)
  BY <1>5, LatestAppended
<1>7. \A x \in IPs : Latest(observed, x) \in 0 .. Len(observed)
  BY LatestIs
<1> HIDE DEF g, m, obs
<1>8. Sorted(new, obs)
  <2> SUFFICES ASSUME NEW k \in 1 .. m + 1, NEW l \in 1 .. m + 1, k < l
               PROVE  Latest(obs, new[k]) < Latest(obs, new[l])
    BY <1>1 DEF Sorted
  <2>1. k \in 1 .. m /\ new[k] = order[g(k)] /\ new[k] \in IPs /\ new[k] # ip
    BY <1>1, <1>2
  <2>2. Latest(obs, new[k]) = Latest(observed, order[g(k)])
    BY <2>1, <1>6
  <2>3. CASE l = m + 1
    <3>1. Latest(obs, new[l]) = Len(observed) + 1
      BY <2>3, <1>1, <1>6
    <3> QED
      BY <3>1, <2>1, <2>2, <1>7
  <2>4. CASE l # m + 1
    <3>1. l \in 1 .. m /\ new[l] = order[g(l)] /\ new[l] \in IPs /\ new[l] # ip
      BY <2>4, <1>1, <1>2
    <3>2. Latest(obs, new[l]) = Latest(observed, order[g(l)])
      BY <3>1, <1>6
    <3>3. g(k) < g(l) /\ g(k) \in DOMAIN order /\ g(l) \in DOMAIN order
      BY <2>1, <3>1, <1>2, <1>3
    <3> QED
      BY <2>2, <3>2, <3>3 DEF Sorted
  <2> QED
    BY <2>3, <2>4
<1>9. {new[k] : k \in DOMAIN new} = {order[j] : j \in DOMAIN order \ {c}} \cup {ip}
  <2>1. ASSUME NEW k \in DOMAIN new
        PROVE  new[k] \in {order[j] : j \in DOMAIN order \ {c}} \cup {ip}
    <3>1. CASE k = m + 1
      BY <3>1, <1>1
    <3>2. CASE k \in 1 .. m
      BY <3>2, <1>1, <1>2
    <3> QED
      BY <3>1, <3>2, <1>1
  <2>2. ASSUME NEW j \in DOMAIN order \ {c}
        PROVE  order[j] \in {new[k] : k \in DOMAIN new}
    <3>1. PICK k \in 1 .. m : g(k) = j
      BY <1>4
    <3>2. k \in DOMAIN new /\ new[k] = order[j]
      BY <3>1, <1>1
    <3> QED
      BY <3>2
  <2>3. ip \in {new[k] : k \in DOMAIN new}
    <3>1. m + 1 \in DOMAIN new
      BY <1>1
    <3> QED
      BY <3>1, <1>1
  <2> QED
    BY <2>1, <2>2, <2>3
<1> QED
  BY <1>8, <1>9 DEF obs, e

\* What an answer without a name leaves as it is.
LEMMA PutBlank ==
  ASSUME NameInv, NEW ip \in IPs, observed' = Append(observed, [ip |-> ip, name |-> Blank]),
         UNCHANGED <<name, order>>
  PROVE  NameInv'
<1> DEFINE e == [ip |-> ip, name |-> Blank]
<1>1. e \in Answers /\ e.name = Blank /\ observed \in Seq(Answers) /\ observed' = Append(observed, e)
  BY DEF NameInv, NameTypeOK, Answers
<1> HIDE DEF e
<1>2. observed' \in Seq(Answers) /\ \A i \in 1 .. Len(observed) : observed'[i] = observed[i]
  BY <1>1
<1>3. \A x : Latest(observed', x) = Latest(observed, x)
  BY <1>1, LatestAppended
<1>4. \A x : Latest(observed, x) \in 0 .. Len(observed)
  BY <1>1, LatestIs
<1>5. NameTypeOK'
  BY <1>2 DEF NameInv, NameTypeOK, Answers
<1>6. Sorted(order, observed)'
  BY <1>3 DEF NameInv, Sorted
<1>7. \A x \in DOMAIN name : observed'[Latest(observed', x)] = observed[Latest(observed, x)]
  <2>1. ASSUME NEW x \in DOMAIN name PROVE Latest(observed, x) \in 1 .. Len(observed)
    BY <1>4, <1>1 DEF NameInv
  <2> QED
    BY <2>1, <1>2, <1>3
<1> QED
  BY <1>3, <1>5, <1>6, <1>7 DEF NameInv

\* What an answer with a name comes to: one place of the order is given up, if there is
\* no room that of the address named longest ago, and ip is the latest.
LEMMA PutNamed ==
  ASSUME NameInv, NEW ip \in IPs, NEW n \in Names, n # Blank,
         observed' = Append(observed, [ip |-> ip, name |-> n]),
         order' \in Seq(IPs), NEW c \in 1 .. Len(order) + 1, Shifted(order', order, c, ip),
         \A j \in DOMAIN order : j # c => order[j] # ip,
         c = Len(order) + 1 => Len(order) < DnsCap,
         c \in DOMAIN order => order[c] = ip \/ (c = 1 /\ Len(order) = DnsCap),
         name' = Named(ip, n, {order[j] : j \in DOMAIN order \ {c}} \cup {ip})
  PROVE  NameInv'
<1> DEFINE e == [ip |-> ip, name |-> n]
           left == {order[j] : j \in DOMAIN order \ {c}}
<1>1. /\ e \in Answers /\ e.ip = ip /\ e.name = n /\ observed' = Append(observed, e)
      /\ observed \in Seq(Answers) /\ order \in Seq(IPs) /\ Len(observed) \in Nat
  BY DEF NameInv, NameTypeOK, Answers
<1> HIDE DEF e
<1>2. /\ observed' \in Seq(Answers) /\ observed'[Len(observed) + 1] = e
      /\ \A i \in 1 .. Len(observed) : observed'[i] = observed[i]
  BY <1>1
<1>3. \A x \in IPs : Latest(observed', x) = IF x = ip THEN Len(observed) + 1 ELSE Latest(observed, x)
  BY <1>1, LatestAppended
<1>4. \A x \in IPs : Latest(observed, x) \in 0 .. Len(observed)
  BY <1>1, LatestIs
<1>5. Sorted(order', observed') /\ {order'[k] : k \in DOMAIN order'} = left \cup {ip}
  BY <1>1, MoveSorts DEF NameInv, e
<1>6. /\ DOMAIN name' = left \cup {ip} /\ name'[ip] = n
      /\ \A x \in left \ {ip} : name'[x] = name[x]
  BY DEF Named
<1>7. left \subseteq DOMAIN name /\ DOMAIN name \subseteq IPs /\ left \subseteq IPs
  BY <1>1 DEF NameInv
<1> HIDE DEF left
<1>8. NameTypeOK'
  <2>1. \A x \in DOMAIN name : name[x] \in Names
    BY DEF NameInv, NameTypeOK
  <2>2. \A x \in DOMAIN name' : name'[x] \in Names
    BY <2>1, <1>6, <1>7
  <2> QED
    BY <2>2, <1>2, <1>6, <1>7 DEF NameTypeOK, Answers
<1>9. Len(order') <= DnsCap /\ (Len(order) = DnsCap => Len(order') = DnsCap)
  <2>1. Len(order) \in Nat /\ DnsCap \in Nat /\ Len(order) <= DnsCap
    BY <1>1, NameAssumption DEF NameInv
  <2> QED
    BY <2>1 DEF Shifted
<1>10. ASSUME NEW x \in DOMAIN name'
       PROVE  Latest(observed', x) # 0 /\ name'[x] = observed'[Latest(observed', x)].name
  <2>1. CASE x = ip
    BY <2>1, <1>1, <1>2, <1>3, <1>6
  <2>2. CASE x # ip
    <3>1. x \in DOMAIN name /\ x \in IPs /\ name'[x] = name[x] /\ Latest(observed', x) = Latest(observed, x)
      BY <2>2, <1>3, <1>6, <1>7
    <3>2. Latest(observed, x) \in 1 .. Len(observed) /\ name[x] = observed[Latest(observed, x)].name
      <4>1. Latest(observed, x) # 0 /\ name[x] = observed[Latest(observed, x)].name
        BY <3>1 DEF NameInv
      <4>2. Latest(observed, x) \in 0 .. Len(observed)
        BY <3>1, <1>4
      <4> QED
        BY <4>1, <4>2, <1>1
    <3> QED
      BY <3>1, <3>2, <1>2
  <2> QED
    BY <2>1, <2>2
<1>11. ASSUME NEW k \in IPs \ DOMAIN name', Latest(observed', k) # 0
       PROVE  /\ Len(order') = DnsCap
              /\ \A x \in DOMAIN name' : Latest(observed', k) < Latest(observed', x)
  <2>1. k # ip /\ k \notin left /\ Latest(observed', k) = Latest(observed, k)
    BY <1>3, <1>6, <1>11
  <2>2. Latest(observed', k) < Latest(observed', ip)
    BY <2>1, <1>1, <1>3, <1>4, <1>11
  <2>3. CASE k \notin DOMAIN name
    <3>1. Len(order) = DnsCap /\ \A x \in DOMAIN name : Latest(observed, k) < Latest(observed, x)
      BY <2>1, <2>3, <1>11 DEF NameInv
    <3>2. \A x \in left \ {ip} : Latest(observed', k) < Latest(observed', x)
      BY <3>1, <2>1, <1>3, <1>7
    <3> QED
      BY <2>2, <3>1, <3>2, <1>6, <1>9
  <2>4. CASE k \in DOMAIN name
    <3>1. c \in DOMAIN order /\ order[c] = k
      <4>1. PICK j \in DOMAIN order : order[j] = k
        BY <2>4 DEF NameInv
      <4>2. j = c
        BY <4>1, <2>1 DEF left
      <4> QED
        BY <4>1, <4>2
    <3>2. c = 1 /\ Len(order) = DnsCap
      BY <3>1, <2>1
    <3>3. ASSUME NEW x \in left \ {ip} PROVE Latest(observed', k) < Latest(observed', x)
      <4>1. PICK j \in DOMAIN order \ {c} : order[j] = x
        BY DEF left
      <4>2. c < j
        BY <4>1, <3>2, <1>1
      <4>3. Latest(observed, k) < Latest(observed, x)
        BY <4>1, <4>2, <3>1 DEF NameInv, Sorted
      <4> QED
        BY <4>3, <2>1, <1>3, <1>7
    <3> QED
      BY <2>2, <3>2, <3>3, <1>6, <1>9
  <2> QED
    BY <2>3, <2>4
<1> QED
  BY <1>5, <1>6, <1>8, <1>9, <1>10, <1>11 DEF NameInv

\* The observer's one step.
LEMMA PutKeepsNames ==
  ASSUME NameInv, NameNext
  PROVE  NameInv'
<1>1. PICK ip \in IPs, n \in Names \cup {Blank} : Put(ip, n)
  BY DEF NameNext
<1>2. order \in Seq(IPs) /\ Len(order) \in Nat /\ Len(order) <= DnsCap /\ DnsCap \in Nat \ {0}
      /\ DOMAIN name = {order[i] : i \in DOMAIN order}
  BY NameAssumption DEF NameInv, NameTypeOK
<1>3. \A i, j \in DOMAIN order : order[i] = order[j] => i = j
  <2> SUFFICES ASSUME NEW i \in DOMAIN order, NEW j \in DOMAIN order, order[i] = order[j], i < j
               PROVE  FALSE
    BY <1>2
  <2>1. order[i] \in IPs /\ observed \in Seq(Answers)
    BY <1>2 DEF NameInv, NameTypeOK, Answers
  <2>2. Latest(observed, order[i]) \in 0 .. Len(observed) /\ Len(observed) \in Nat
    BY <2>1, LatestIs
  <2>3. Latest(observed, order[i]) < Latest(observed, order[j])
    BY DEF NameInv, Sorted
  <2> QED
    BY <2>2, <2>3
<1>4. observed' = Append(observed, [ip |-> ip, name |-> n])
  BY <1>1 DEF Put
<1>5. CASE n = Blank
  <2>1. UNCHANGED <<name, order>>
    BY <1>1, <1>5 DEF Put
  <2> QED
    BY <2>1, <1>4, <1>5, PutBlank
<1>6. CASE n # Blank /\ ip \in DOMAIN name
  <2>1. order' = Touched(ip) /\ name' = Named(ip, n, DOMAIN name)
    BY <1>1, <1>6 DEF Put
  <2>2. PICK c \in DOMAIN order : order[c] = ip /\ order' \in Seq(IPs) /\ Shifted(order', order, c, ip)
    BY <2>1, <1>2, <1>6, TouchMoves
  <2>3. c \in 1 .. Len(order) + 1 /\ c # Len(order) + 1
    BY <1>2
  <2>4. \A j \in DOMAIN order : j # c => order[j] # ip
    BY <2>2, <1>3
  <2>5. DOMAIN name = {order[j] : j \in DOMAIN order \ {c}} \cup {ip}
    BY <2>2, <1>2
  <2> QED
    BY <2>1, <2>2, <2>3, <2>4, <2>5, <1>4, <1>6, PutNamed
<1>7. CASE n # Blank /\ ip \notin DOMAIN name
  <2> DEFINE old == IF Len(order) >= DnsCap THEN {order[1]} ELSE {}
  <2>1. /\ order' = Append(IF old = {} THEN order ELSE Tail(order), ip)
        /\ name' = Named(ip, n, (DOMAIN name \ old) \cup {ip})
    BY <1>1, <1>7 DEF Put
  <2>2. \A j \in DOMAIN order : order[j] # ip
    BY <1>2, <1>7
  <2>3. CASE Len(order) < DnsCap
    <3>0. old = {} /\ DOMAIN name \ old = DOMAIN name
      BY <2>3, <1>2
    <3>1. order' = Append(order, ip) /\ name' = Named(ip, n, DOMAIN name \cup {ip})
      BY <2>1, <3>0
    <3>2. order' \in Seq(IPs) /\ Shifted(order', order, Len(order) + 1, ip)
      BY <3>1, <1>2 DEF Shifted
    <3>3. DOMAIN order \ {Len(order) + 1} = DOMAIN order
      <4>1. DOMAIN order = 1 .. Len(order) /\ Len(order) + 1 \notin 1 .. Len(order)
        BY <1>2
      <4> QED
        BY <4>1
    <3>4. Len(order) + 1 \in 1 .. Len(order) + 1 /\ Len(order) + 1 \notin DOMAIN order
      BY <1>2
    <3> QED
      BY <2>2, <2>3, <3>1, <3>2, <3>3, <3>4, <1>2, <1>4, <1>7, PutNamed
  <2>4. CASE Len(order) = DnsCap
    <3>1. order' = Append(Tail(order), ip) /\ name' = Named(ip, n, (DOMAIN name \ {order[1]}) \cup {ip})
      BY <2>1, <2>4, <1>2
    <3>2. order # << >>
      BY <2>4, <1>2
    <3>3. order' \in Seq(IPs) /\ Shifted(order', order, 1, ip)
      BY <3>1, <3>2, <2>4, <1>2 DEF Shifted
    <3>4. 1 \in DOMAIN order /\ 1 # Len(order) + 1 /\ 1 \in 1 .. Len(order) + 1
      BY <2>4, <1>2
    <3>5. DOMAIN name \ {order[1]} = {order[j] : j \in DOMAIN order \ {1}}
      BY <3>4, <1>2, <1>3
    <3> QED
      BY <2>2, <2>4, <3>1, <3>3, <3>4, <3>5, <1>4, <1>7, PutNamed
  <2> QED
    BY <2>3, <2>4, <1>2
<1> QED
  BY <1>5, <1>6, <1>7

\* What the invariant says of the cache.
LEMMA NamesAreLatest ==
  ASSUME NameInv
  PROVE  KeepsLatest
<1> DEFINE seen == {ip \in IPs : LastSeen(ip) # 0}
<1>1. \A ip : LastSeen(ip) = Latest(observed, ip)
  BY DEF LastSeen, Latest, Namings
<1>2. /\ order \in Seq(IPs) /\ Len(order) \in Nat /\ Len(order) <= DnsCap /\ DnsCap \in Nat
      /\ observed \in Seq(Answers) /\ DOMAIN order = 1 .. Len(order) /\ DOMAIN name \subseteq IPs
      /\ DOMAIN name = {order[i] : i \in DOMAIN order}
  BY NameAssumption DEF NameInv, NameTypeOK, Answers
<1>3. \A ip : Latest(observed, ip) \in 0 .. Len(observed)
  BY <1>2, LatestIs
<1>4. DOMAIN name \subseteq seen
  BY <1>1, <1>2 DEF NameInv
<1>5. \A ip \in DOMAIN name : /\ name[ip] = observed[LastSeen(ip)].name
                              /\ \A k \in seen \ DOMAIN name : LastSeen(k) < LastSeen(ip)
  BY <1>1 DEF NameInv
<1>6. IsFiniteSet(DOMAIN name) /\ Cardinality(DOMAIN name) = Len(order)
  <2> DEFINE at == [i \in 1 .. Len(order) |-> order[i]]
  <2>1. at \in Bijection(1 .. Len(order), DOMAIN name)
    <3>1. at \in Surjection(1 .. Len(order), DOMAIN name)
      BY <1>2 DEF Surjection
    <3>2. ASSUME NEW i \in 1 .. Len(order), NEW j \in 1 .. Len(order), order[i] = order[j]
          PROVE  i = j
      <4>1. i < j => Latest(observed, order[i]) < Latest(observed, order[j])
        BY <1>2 DEF NameInv, Sorted
      <4>2. j < i => Latest(observed, order[j]) < Latest(observed, order[i])
        BY <1>2 DEF NameInv, Sorted
      <4>3. Latest(observed, order[i]) \in Int
        BY <1>3
      <4> QED
        BY <4>1, <4>2, <4>3, <3>2
    <3>3. at \in Injection(1 .. Len(order), DOMAIN name)
      BY <1>2, <3>2 DEF Injection, IsInjective
    <3> QED
      BY <3>1, <3>3 DEF Bijection
  <2> HIDE DEF at
  <2>2. IsFiniteSet(1 .. Len(order)) /\ Cardinality(1 .. Len(order)) = Len(order)
    <3>1. 1 \in Int /\ Len(order) \in Int /\ (IF 1 > Len(order) THEN 0 ELSE Len(order) - 1 + 1) = Len(order)
      BY <1>2
    <3> QED
      BY <3>1, FS_Interval
  <2>3. ExistsBijection(1 .. Len(order), DOMAIN name)
    BY <2>1 DEF ExistsBijection
  <2> QED
    BY <2>2, <2>3, FS_Bijection
<1>7. IsFiniteSet(seen)
  <2> DEFINE named == [i \in 1 .. Len(observed) |-> observed[i].ip]
  <2>1. Len(observed) \in Nat /\ DOMAIN observed = 1 .. Len(observed)
    BY <1>2
  <2>2. IsFiniteSet(1 .. Len(observed))
    BY <2>1, FS_Interval
  <2>3. IsFiniteSet({named[i] : i \in 1 .. Len(observed)})
    <3>1. named \in Surjection(1 .. Len(observed), {named[i] : i \in 1 .. Len(observed)})
      BY DEF Surjection
    <3> HIDE DEF named
    <3> QED
      BY <2>2, <3>1, FS_Surjection
  <2>4. seen \subseteq {named[i] : i \in 1 .. Len(observed)}
    <3> SUFFICES ASSUME NEW ip \in IPs, Latest(observed, ip) # 0
                 PROVE  \E i \in 1 .. Len(observed) : observed[i].ip = ip
      BY <1>1
    <3>1. Latest(observed, ip) \in Namings(observed, ip)
      BY <1>2, LatestIs
    <3> QED
      BY <3>1, <2>1 DEF Namings
  <2> QED
    BY <2>3, <2>4, FS_Subset
<1>8. Cardinality(seen) \in Nat /\ Len(order) <= Cardinality(seen)
  BY <1>4, <1>6, <1>7, FS_CardinalityType, FS_Subset
<1>9. Len(order) = Min({DnsCap, Cardinality(seen)})
  <2>1. Min({DnsCap, Cardinality(seen)}) = IF DnsCap <= Cardinality(seen) THEN DnsCap ELSE Cardinality(seen)
    BY <1>2, <1>8, MinOfTwo
  <2>2. CASE seen = DOMAIN name
    <3>1. Cardinality(seen) = Len(order)
      BY <2>2, <1>6
    <3> HIDE DEF seen
    <3> QED
      BY <2>1, <3>1, <1>2
  <2>3. CASE seen # DOMAIN name
    <3>1. PICK k \in seen : k \notin DOMAIN name
      BY <2>3, <1>4
    <3>2. Len(order) = DnsCap
      BY <3>1, <1>1 DEF NameInv
    <3> QED
      BY <2>1, <3>2, <1>2, <1>8
  <2> QED
    BY <2>2, <2>3
<1> QED
  BY <1>4, <1>5, <1>6, <1>9 DEF KeepsLatest

\* Only an answer changes the names.
LEMMA OnlyAnswers ==
  ASSUME [Next]_allVars
  PROVE  NameNext \/ UNCHANGED nameVars
<1>1. CASE UNCHANGED allVars
  BY <1>1 DEF allVars
<1>2. CASE Sampler
  BY <1>2 DEF Sampler, Tick, Warm, PostSample
<1>3. CASE \E s \in Senders : PostMessage(s)
  BY <1>3 DEF PostMessage
<1>4. CASE \E k \in Keystrokes : Press(k)
  BY <1>4 DEF Press
<1>5. CASE Loop
  BY <1>5 DEF Loop, Unmoved, SwitchFace, Quit, InspectionKey, ZoomKey, TreeKey, FindingsKey,
              Inspection, ShowSample, ShowMessage
<1>6. CASE World
  BY <1>6 DEF World
<1>7. CASE Deadline \/ Failure
  BY <1>7 DEF Deadline, Failure, Unmoved
<1> QED
  BY <1>1, <1>2, <1>3, <1>4, <1>5, <1>6, <1>7 DEF Next

\* Whatever the order and the number of answers: the cache holds the addresses that were
\* named last, each with its last name.
THEOREM NamesAreTheLatest == Spec => []KeepsLatest
<1>1. ConsoleInit => NameInv
  <2> SUFFICES ASSUME NameInit PROVE NameInv
    BY DEF ConsoleInit
  <2>1. name = << >> /\ order = << >> /\ observed = << >>
    BY DEF NameInit
  <2>2. order \in Seq(IPs) /\ observed \in Seq(Answers) /\ DOMAIN order = {} /\ Len(order) = 0
        /\ DOMAIN observed = {} /\ DOMAIN name = {} /\ Len(observed) = 0
    BY <2>1
  <2>3. \A ip : Latest(observed, ip) = 0
    <3> SUFFICES ASSUME NEW ip PROVE Latest(observed, ip) = 0
      OBVIOUS
    <3>1. Latest(observed, ip) \in 0 .. Len(observed)
      BY <2>2, LatestIs
    <3> QED
      BY <2>2, <3>1
  <2> QED
    BY <2>2, <2>3, NameAssumption DEF NameInv, NameTypeOK, Sorted, Answers
<1>2. NameInv /\ [Next]_allVars => NameInv'
  <2> SUFFICES ASSUME NameInv, [Next]_allVars
               PROVE  NameInv'
    OBVIOUS
  <2>1. CASE NameNext
    BY <2>1, PutKeepsNames
  <2>2. CASE UNCHANGED nameVars
    BY <2>2 DEF nameVars, NameInv, NameTypeOK, Sorted
  <2> QED
    BY <2>1, <2>2, OnlyAnswers
<1>3. NameInv => KeepsLatest
  BY NamesAreLatest
<1> QED
  BY <1>1, <1>2, <1>3, PTL DEF Spec

-----------------------------------------------------------------------------
(* The pane. *)

\* The segments in w with the flow's endpoint, one way; how many there are up to the i-th packet; and
\* that bytes is what they carry.
Segments(w, way) == {i \in DOMAIN w : /\ w[i].of \in {"flow", "twin"} /\ w[i].way = way
                                       /\ w[i].data # "none"}
UpTo(w, way, i) == {j \in Segments(w, way) : j <= i}
Carried(bytes, w, way) ==
    /\ Len(bytes) = Cardinality(Segments(w, way))
    /\ \A i \in Segments(w, way) : bytes[Cardinality(UpTo(w, way, i))] = w[i].data

\* The segments are finitely many, and numbered from 1.
LEMMA SegmentsNumbered ==
  ASSUME NEW w \in Seq(Traffic), NEW way
  PROVE  /\ IsFiniteSet(Segments(w, way)) /\ Segments(w, way) \subseteq 1 .. Len(w)
         /\ Cardinality(Segments(w, way)) \in Nat
         /\ \A i \in Segments(w, way) :
               Cardinality(UpTo(w, way, i)) \in 1 .. Cardinality(Segments(w, way))
<1>1. Len(w) \in Nat /\ Segments(w, way) \subseteq 1 .. Len(w)
  BY DEF Segments
<1>2. IsFiniteSet(1 .. Len(w))
  BY <1>1, FS_Interval
<1>3. IsFiniteSet(Segments(w, way)) /\ Cardinality(Segments(w, way)) \in Nat
  BY <1>1, <1>2, FS_Subset, FS_CardinalityType
<1>4. ASSUME NEW i \in Segments(w, way)
      PROVE  Cardinality(UpTo(w, way, i)) \in 1 .. Cardinality(Segments(w, way))
  <2>1. UpTo(w, way, i) \subseteq Segments(w, way) /\ i \in UpTo(w, way, i)
    BY <1>1 DEF UpTo
  <2>2. /\ IsFiniteSet(UpTo(w, way, i)) /\ Cardinality(UpTo(w, way, i)) \in Nat
        /\ Cardinality(UpTo(w, way, i)) <= Cardinality(Segments(w, way))
    BY <2>1, <1>3, FS_Subset, FS_CardinalityType
  <2>3. Cardinality(UpTo(w, way, i)) # 0
    BY <2>1, <2>2, FS_EmptySet
  <2> QED
    BY <2>2, <2>3, <1>3
<1> QED
  BY <1>1, <1>3, <1>4

\* A packet is added to the bytes if it is the flow's, and only then.
LEMMA TakeCarries ==
  ASSUME NEW w \in Seq(Traffic), NEW way, NEW bytes \in Seq(Chunks), Carried(bytes, w, way),
         NEW pkt \in Traffic
  PROVE  /\ Carried(IF Mine(pkt, way) THEN Append(bytes, pkt.data) ELSE bytes, Append(w, pkt), way)
         /\ (IF Mine(pkt, way) THEN Append(bytes, pkt.data) ELSE bytes) \in Seq(Chunks)
<1> DEFINE new == Append(w, pkt)
           n == Len(w) + 1
<1>1. /\ new \in Seq(Traffic) /\ Len(new) = n /\ new[n] = pkt /\ n \in Nat
      /\ \A i \in 1 .. Len(w) : new[i] = w[i]
      /\ DOMAIN new = 1 .. Len(w) \cup {n} /\ DOMAIN w = 1 .. Len(w)
  OBVIOUS
<1>2. pkt.data \in Chunks
  BY InspectAssumption DEF Packets
<1> HIDE DEF new
<1>3. Segments(new, way) = Segments(w, way) \cup IF Mine(pkt, way) THEN {n} ELSE {}
  BY <1>1 DEF Segments, Mine
<1>4. /\ IsFiniteSet(Segments(w, way)) /\ Segments(w, way) \subseteq 1 .. Len(w)
      /\ Cardinality(Segments(w, way)) \in Nat
      /\ \A i \in Segments(w, way) :
            Cardinality(UpTo(w, way, i)) \in 1 .. Cardinality(Segments(w, way))
  BY SegmentsNumbered
<1>5. \A i \in Segments(w, way) : UpTo(new, way, i) = UpTo(w, way, i) /\ new[i] = w[i]
  BY <1>1, <1>3, <1>4 DEF UpTo
<1>6. CASE ~Mine(pkt, way)
  <2>1. Segments(new, way) = Segments(w, way)
    BY <1>3, <1>6
  <2> QED
    BY <2>1, <1>5, <1>6 DEF Carried, new
<1>7. CASE Mine(pkt, way)
  <2> DEFINE more == Append(bytes, pkt.data)
             len == Cardinality(Segments(w, way))
  <2>1. Segments(new, way) = Segments(w, way) \cup {n} /\ n \notin Segments(w, way)
    BY <1>1, <1>3, <1>4, <1>7
  <2>2. Cardinality(Segments(new, way)) = len + 1
    BY <2>1, <1>4, FS_AddElement
  <2>3. /\ more \in Seq(Chunks) /\ Len(more) = len + 1 /\ more[len + 1] = pkt.data
        /\ \A k \in 1 .. len : more[k] = bytes[k]
    BY <1>2 DEF Carried
  <2>4. UpTo(new, way, n) = Segments(new, way)
    BY <2>1, <1>1, <1>4 DEF UpTo
  <2> HIDE DEF more
  <2>5. \A i \in Segments(new, way) : more[Cardinality(UpTo(new, way, i))] = new[i].data
    <3> SUFFICES ASSUME NEW i \in Segments(new, way)
                 PROVE  more[Cardinality(UpTo(new, way, i))] = new[i].data
      OBVIOUS
    <3>1. CASE i = n
      BY <3>1, <2>2, <2>3, <2>4, <1>1
    <3>2. CASE i \in Segments(w, way)
      BY <3>2, <2>3, <1>4, <1>5 DEF Carried
    <3> QED
      BY <3>1, <3>2, <2>1
  <2>6. Carried(more, new, way)
    BY <2>2, <2>3, <2>5 DEF Carried
  <2> QED
    BY <2>3, <2>6, <1>7 DEF more, new
<1> QED
  BY <1>6, <1>7

\* The first two bytes are those of the first two segments.
LEMMA FirstTwo ==
  ASSUME NEW w \in Seq(Traffic), NEW way, NEW bytes \in Seq(Chunks), Carried(bytes, w, way),
         Len(bytes) >= 2
  PROVE  \E i, j \in Segments(w, way) :
            /\ w[i].data = bytes[1] /\ w[j].data = bytes[2]
            /\ i < j /\ \A k \in Segments(w, way) : k = i \/ k >= j
<1> DEFINE S == Segments(w, way)
<1>1. IsFiniteSet(S) /\ S \subseteq Nat /\ Cardinality(S) >= 2
  BY SegmentsNumbered DEF Carried
<1>2. \A i \in S : bytes[Cardinality(UpTo(w, way, i))] = w[i].data
  BY DEF Carried
<1>3. \A i \in S : UpTo(w, way, i) = {j \in S : j <= i}
  BY DEF UpTo
<1> HIDE DEF S
<1>4. PICK i \in S : \A k \in S : i <= k
  <2>1. S # {}
    BY <1>1, FS_EmptySet
  <2> QED
    BY <2>1, <1>1, LeastNat
<1>5. PICK j \in S \ {i} : \A k \in S \ {i} : j <= k
  <2>1. S # {i}
    <3>1. Cardinality({i}) = 1
      BY FS_Singleton
    <3>2. Cardinality(S) # 1
      BY <1>1
    <3> QED
      BY <3>1, <3>2
  <2>2. S \ {i} # {} /\ S \ {i} \in SUBSET Nat
    BY <2>1, <1>1
  <2> QED
    BY <2>2, LeastNat
<1>6. i \in Nat /\ j \in Nat /\ i < j
  BY <1>1, <1>4, <1>5
<1>7. UpTo(w, way, i) = {i} /\ IsFiniteSet(UpTo(w, way, i)) /\ Cardinality(UpTo(w, way, i)) = 1
  <2>1. \A k \in S : k <= i <=> k = i
    BY <1>1, <1>4, <1>6
  <2>2. {k \in S : k <= i} = {i}
    BY <2>1
  <2>3. IsFiniteSet({i}) /\ Cardinality({i}) = 1
    BY FS_Singleton
  <2>4. UpTo(w, way, i) = {i}
    BY <2>2, <1>3
  <2> QED
    BY <2>3, <2>4
<1>8. UpTo(w, way, j) = UpTo(w, way, i) \cup {j} /\ j \notin UpTo(w, way, i)
  <2>1. \A k \in S : k <= j <=> (k = i \/ k = j)
    <3>1. \A k \in S \ {i} : k \in Nat /\ j <= k
      BY <1>1, <1>5
    <3> QED
      BY <3>1, <1>6
  <2>2. {k \in S : k <= j} = {i} \cup {j}
    BY <2>1
  <2> QED
    BY <2>2, <1>3, <1>6, <1>7
<1>9. Cardinality(UpTo(w, way, j)) = 2
  <2> DEFINE u == UpTo(w, way, i)
  <2>1. IsFiniteSet(u) /\ Cardinality(u) = 1 /\ j \notin u /\ UpTo(w, way, j) = u \cup {j}
    BY <1>7, <1>8
  <2> HIDE DEF u
  <2>2. Cardinality(u \cup {j}) = Cardinality(u) + 1
    BY <2>1, FS_AddElement
  <2> QED
    BY <2>1, <2>2
<1>10. w[i].data = bytes[1] /\ w[j].data = bytes[2]
  BY <1>2, <1>7, <1>8, <1>9
<1>11. \A k \in S : k = i \/ k >= j
  BY <1>1, <1>5
<1> QED
  BY <1>6, <1>10, <1>11 DEF S

\* What has been taken is what the packets so far carry, and the pane is empty until the
\* inspection concludes.
PaneInv ==
    /\ InspectTypeOK
    /\ taken \in [seen : Nat, sent : Seq(Chunks), received : Seq(Chunks), err : BOOLEAN]
    /\ Carried(taken.sent, wire, "sent") /\ Carried(taken.received, wire, "received")
    /\ probe # "off" => view = NoView
    /\ PaneShowsTheEndpoint

\* With no packet taken there are no segments.
LEMMA NothingCarried ==
  ASSUME NEW w, w = << >>, NEW way, NEW bytes, bytes = << >>
  PROVE  Carried(bytes, w, way)
<1>1. Segments(w, way) = {}
  BY DEF Segments
<1>2. Cardinality({}) = 0 /\ Len(bytes) = 0
  BY FS_EmptySet
<1> QED
  BY <1>1, <1>2 DEF Carried

\* What the engine concludes of what it took.
LEMMA ConcludedView ==
  ASSUME PaneInv, NEW t \in [seen : Nat, sent : Seq(Chunks), received : Seq(Chunks), err : BOOLEAN],
         t.sent = taken.sent, t.received = taken.received,
         view' = View(t), wire' = wire
  PROVE  PaneShowsTheEndpoint'
<1>1. /\ t.sent \in Seq(Chunks) /\ t.received \in Seq(Chunks)
      /\ Carried(t.sent, wire, "sent") /\ Carried(t.received, wire, "received")
      /\ wire \in Seq(Traffic)
  BY DEF PaneInv, InspectTypeOK
<1>2. \A way : Exchanged(way)' = Segments(wire, way)
  BY DEF Exchanged, Segments
<1>3. \A bytes, way : Crossed(bytes, way)' <=> Carried(bytes, wire, way)
  BY <1>2 DEF Crossed, Carried, UpTo
<1>4. /\ view'.verdict = Verdict(t) /\ view'.sni = HasSNI(t.sent) /\ view'.encrypted = Encrypted(t)
      /\ view'.sent = Rendered(t.sent, t) /\ view'.received = Rendered(t.received, t)
      /\ view'.volume = <<Len(t.sent), Len(t.received)>> /\ view'.err = t.err
      /\ view'["sent"] = Rendered(t.sent, t) /\ view'["received"] = Rendered(t.received, t)
  BY DEF View
<1>5. \A way \in {"sent", "received"} : \/ Crossed(view[way], way)'
                                       \/ (view'[way] = << >> /\ view'.encrypted)
  <2>1. \/ Crossed(view["sent"], "sent")'
        \/ (view'["sent"] = << >> /\ view'.encrypted)
    <3>1. CASE LooksPlaintext(t.sent) \/ ~Encrypted(t)
      <4>1. view'["sent"] = t.sent
        BY <3>1, <1>4 DEF Rendered
      <4> QED
        BY <4>1, <1>1, <1>3
    <3>2. CASE ~(LooksPlaintext(t.sent) \/ ~Encrypted(t))
      BY <3>2, <1>4 DEF Rendered
    <3> QED
      BY <3>1, <3>2
  <2>2. \/ Crossed(view["received"], "received")'
        \/ (view'["received"] = << >> /\ view'.encrypted)
    <3>1. CASE LooksPlaintext(t.received) \/ ~Encrypted(t)
      <4>1. view'["received"] = t.received
        BY <3>1, <1>4 DEF Rendered
      <4> QED
        BY <4>1, <1>1, <1>3
    <3>2. CASE ~(LooksPlaintext(t.received) \/ ~Encrypted(t))
      BY <3>2, <1>4 DEF Rendered
    <3> QED
      BY <3>1, <3>2
  <2> QED
    BY <2>1, <2>2
<1>6. view'.volume = <<Cardinality(Exchanged("sent")'), Cardinality(Exchanged("received")')>>
  BY <1>1, <1>2, <1>4 DEF Carried
<1>7. ASSUME view'.sni
      PROVE  \E i, j \in Exchanged("sent")' :
                /\ wire'[i].data = "hello1" /\ wire'[j].data = "hello2"
                /\ i < j /\ \A k \in Exchanged("sent")' : k = i \/ k >= j
  <2>1. Len(t.sent) >= 2 /\ t.sent[1] = "hello1" /\ t.sent[2] = "hello2"
    BY <1>4, <1>7 DEF HasSNI
  <2> QED
    BY <2>1, <1>1, <1>2, FirstTwo
<1>8. ASSUME view'.verdict = "no data"
      PROVE  Exchanged("sent")' = {} /\ Exchanged("received")' = {} /\ ~view'.err
  <2>1. t.sent = << >> /\ t.received = << >> /\ ~t.err
    BY <1>4, <1>8 DEF Verdict, Readable, LooksPlaintext
  <2>2. Len(t.sent) = 0 /\ Len(t.received) = 0
    BY <2>1
  <2>3. Segments(wire, "sent") = {} /\ Segments(wire, "received") = {}
    BY <2>2, <1>1, SegmentsNumbered, FS_EmptySet DEF Carried
  <2> QED
    BY <2>1, <2>3, <1>2, <1>4
<1>9. ASSUME view'.verdict = "plaintext"
      PROVE  \E b \in {view'.sent, view'.received} : \E i \in DOMAIN b : b[i] = "text"
  <2>1. LooksPlaintext(t.sent) \/ LooksPlaintext(t.received)
    BY <1>4, <1>9 DEF Verdict, Readable
  <2>2. ASSUME NEW b \in Seq(Chunks), LooksPlaintext(b)
        PROVE  Rendered(b, t) = b /\ 1 \in DOMAIN b /\ b[1] = "text"
    BY <2>2 DEF Rendered, LooksPlaintext
  <2> QED
    BY <2>1, <2>2, <1>1, <1>4
<1> QED
  BY <1>5, <1>6, <1>7, <1>8, <1>9 DEF PaneShowsTheEndpoint

\* One turn of the engine's loop.
LEMMA TakeKeepsPane ==
  ASSUME PaneInv, Take
  PROVE  PaneInv'
<1> DEFINE pkt == pend[1]
           Grows(way) == IF Mine(pkt, way) THEN Append(taken[way], pkt.data) ELSE taken[way]
<1>1. /\ pend \in Seq(Traffic) /\ wire \in Seq(Traffic) /\ pend # << >>
      /\ taken \in [seen : Nat, sent : Seq(Chunks), received : Seq(Chunks), err : BOOLEAN]
  BY DEF PaneInv, InspectTypeOK, Take
<1>2. pkt \in Traffic /\ Tail(pend) \in Seq(Traffic)
  BY <1>1
<1>3. /\ taken' = [taken EXCEPT !.seen = IF pkt.of = "junk" THEN @ ELSE @ + 1,
                               !.sent = Grows("sent"), !.received = Grows("received")]
      /\ wire' = Append(wire, pkt) /\ pend' = Tail(pend)
      /\ UNCHANGED <<target, probe, filtered, buffered, late, view>>
      /\ probe = "capture" /\ ~Over
  BY DEF Take
<1> HIDE DEF pkt
<1>4. /\ Carried(Grows("sent"), wire', "sent") /\ Grows("sent") \in Seq(Chunks)
      /\ Carried(Grows("received"), wire', "received") /\ Grows("received") \in Seq(Chunks)
  <2>1. /\ taken["sent"] \in Seq(Chunks) /\ Carried(taken["sent"], wire, "sent")
        /\ taken["received"] \in Seq(Chunks) /\ Carried(taken["received"], wire, "received")
    BY <1>1 DEF PaneInv
  <2> QED
    BY <2>1, <1>1, <1>2, <1>3, TakeCarries
<1> HIDE DEF Grows
<1>5. /\ taken' \in [seen : Nat, sent : Seq(Chunks), received : Seq(Chunks), err : BOOLEAN]
      /\ taken'.sent = Grows("sent") /\ taken'.received = Grows("received")
      /\ taken'.seen <= taken.seen + 1
  <2> DEFINE n == IF pkt.of = "junk" THEN taken.seen ELSE taken.seen + 1
  <2>1. n \in Nat /\ n <= taken.seen + 1
    BY <1>1
  <2>2. taken' = [taken EXCEPT !.seen = n, !.sent = Grows("sent"), !.received = Grows("received")]
    BY <1>3
  <2> HIDE DEF n
  <2>3. taken' = [seen |-> n, sent |-> Grows("sent"), received |-> Grows("received"), err |-> taken.err]
    BY <2>2, <1>1
  <2>4. taken.err \in BOOLEAN
    BY <1>1
  <2> QED
    BY <2>1, <2>3, <2>4, <1>4
<1>6. /\ wire' \in Seq(Traffic) /\ Len(wire') = Len(wire) + 1 /\ Len(wire') <= MaxPackets
  BY <1>1, <1>2, <1>3, InspectAssumption DEF Over, Enough
<1>7. InspectTypeOK'
  <2>1. taken'.seen <= Len(wire')
    BY <1>1, <1>5, <1>6 DEF PaneInv, InspectTypeOK
  <2> QED
    BY <2>1, <1>2, <1>3, <1>5, <1>6 DEF PaneInv, InspectTypeOK
<1>8. view' = NoView
  BY <1>3 DEF PaneInv
<1>9. PaneShowsTheEndpoint'
  BY <1>8 DEF PaneShowsTheEndpoint
<1> QED
  BY <1>3, <1>4, <1>5, <1>7, <1>8, <1>9 DEF PaneInv

\* Its end.
LEMMA ConcludeKeepsPane ==
  ASSUME PaneInv, NEW t \in [seen : Nat, sent : Seq(Chunks), received : Seq(Chunks), err : BOOLEAN],
         t.sent = taken.sent, t.received = taken.received, t.seen = taken.seen, Conclude(t)
  PROVE  PaneInv'
<1>1. /\ taken' = t /\ view' = View(t) /\ probe' = "off"
      /\ UNCHANGED <<target, filtered, buffered, pend, late, wire>>
  BY DEF Conclude
<1>2. PaneShowsTheEndpoint'
  BY <1>1, ConcludedView
<1>3. InspectTypeOK'
  BY <1>1 DEF PaneInv, InspectTypeOK
<1>4. Carried(taken'.sent, wire', "sent") /\ Carried(taken'.received, wire', "received")
  BY <1>1 DEF PaneInv
<1> QED
  BY <1>1, <1>2, <1>3, <1>4 DEF PaneInv

\* A new capture, and a closed pane, begin with nothing.
LEMMA FreshPane ==
  ASSUME PaneInv, filtered' \in BOOLEAN, probe' \in {"off", "capture"}, view' = NoView,
         buffered' = << >>, pend' = << >>, late' = FALSE, taken' = Nothing, wire' = << >>
  PROVE  PaneInv'
<1>1. << >> \in Seq(Traffic) /\ << >> \in Seq(Chunks) /\ Len(<< >>) = 0
  OBVIOUS
<1>2. /\ taken' \in [seen : Nat, sent : Seq(Chunks), received : Seq(Chunks), err : BOOLEAN]
      /\ taken'.sent = << >> /\ taken'.received = << >> /\ taken'.seen = 0 /\ taken'.err \in BOOLEAN
  BY <1>1 DEF Nothing
<1>3. Carried(taken'.sent, wire', "sent") /\ Carried(taken'.received, wire', "received")
  BY <1>2, NothingCarried
<1>4. InspectTypeOK'
  <2>1. 0 <= MaxPackets /\ taken'.seen <= 0
    BY <1>2, InspectAssumption
  <2>2. probe' \in {"off", "open", "capture"} /\ late' \in BOOLEAN
    OBVIOUS
  <2> QED
    BY <2>1, <2>2, <1>1, <1>2 DEF InspectTypeOK
<1>5. PaneShowsTheEndpoint'
  BY DEF PaneShowsTheEndpoint
<1> QED
  BY <1>2, <1>3, <1>4, <1>5 DEF PaneInv

\* A step that leaves the packets taken and the pane alone.
LEMMA SamePane ==
  ASSUME PaneInv, UNCHANGED <<taken, wire, view>>, filtered' \in BOOLEAN, late' \in BOOLEAN,
         buffered' \in Seq(Traffic), pend' \in Seq(Traffic), probe' \in {"off", "open", "capture"},
         probe' # "off" => view = NoView
  PROVE  PaneInv'
<1>1. PaneShowsTheEndpoint'
  <2>1. \A way : Exchanged(way)' = Exchanged(way)
    BY DEF Exchanged
  <2>2. \A bytes, way : Crossed(bytes, way)' <=> Crossed(bytes, way)
    BY <2>1 DEF Crossed
  <2>3. PaneShowsTheEndpoint
    BY DEF PaneInv
  <2> QED
    BY <2>1, <2>2, <2>3, Zenon DEF PaneShowsTheEndpoint
<1>2. InspectTypeOK'
  BY DEF PaneInv, InspectTypeOK
<1> QED
  BY <1>1, <1>2 DEF PaneInv

\* The steps of an inspection, and those that open and close the pane.
LEMMA InspectionKeepsPane ==
  ASSUME PaneInv,
         \/ UNCHANGED inspectVars
         \/ view = NoView /\ \E app, flow : Request(app, flow)
         \/ probe = "off" /\ ClosePane
         \/ Probe \/ Elapse \/ CaptureFault \/ \E pkt \in Traffic : Arrive(pkt)
  PROVE  PaneInv'
<1> USE DEF inspectVars, captureVars
<1>0. /\ filtered \in BOOLEAN /\ late \in BOOLEAN /\ buffered \in Seq(Traffic) /\ pend \in Seq(Traffic)
      /\ probe \in {"off", "open", "capture"} /\ (probe # "off" => view = NoView)
      /\ taken \in [seen : Nat, sent : Seq(Chunks), received : Seq(Chunks), err : BOOLEAN]
  BY DEF PaneInv, InspectTypeOK
<1>1. CASE UNCHANGED inspectVars
  BY <1>0, <1>1, SamePane
<1>2. CASE view = NoView /\ \E app, flow : Request(app, flow)
  BY <1>0, <1>2, SamePane DEF Request
<1>3. CASE probe = "off" /\ ClosePane
  BY <1>3, FreshPane DEF ClosePane
<1>4. CASE OpenCapture \/ FilterFails
  BY <1>0, <1>4, FreshPane DEF OpenCapture, FilterFails, CaptureFrom
<1>5. CASE Read
  <2>1. << >> \in Seq(Traffic)
    OBVIOUS
  <2> QED
    BY <2>1, <1>0, <1>5, SamePane DEF Read
<1>6. CASE Take
  BY <1>6, TakeKeepsPane
<1>7. CASE Ended
  BY <1>0, <1>7, ConcludeKeepsPane DEF Ended
<1>8. CASE ReadFails
  <2> DEFINE t == [taken EXCEPT !.err = TRUE]
  <2>1. /\ t \in [seen : Nat, sent : Seq(Chunks), received : Seq(Chunks), err : BOOLEAN]
        /\ t.sent = taken.sent /\ t.received = taken.received /\ t.seen = taken.seen
    BY <1>0
  <2>2. Conclude(t)
    BY <1>8 DEF ReadFails
  <2> HIDE DEF t
  <2> QED
    BY <2>1, <2>2, ConcludeKeepsPane
<1>9. CASE OpenFails
  <2>1. view'.verdict = "refused" /\ probe' = "off"
    BY <1>9 DEF OpenFails, Refused, View
  <2>2. PaneShowsTheEndpoint'
    BY <2>1 DEF PaneShowsTheEndpoint
  <2>3. InspectTypeOK' /\ taken' = taken /\ wire' = wire
    BY <2>1, <1>9 DEF OpenFails, PaneInv, InspectTypeOK
  <2> QED
    BY <2>1, <2>2, <2>3 DEF PaneInv
<1>10. CASE Elapse
  BY <1>0, <1>10, SamePane DEF Elapse
<1>11. CASE \E pkt \in Traffic : Arrive(pkt)
  <2>1. PICK pkt \in Traffic : Arrive(pkt)
    BY <1>11
  <2>2. Append(buffered, pkt) \in Seq(Traffic)
    BY <1>0
  <2> QED
    BY <2>1, <2>2, <1>0, SamePane DEF Arrive
<1> QED
  BY <1>1, <1>2, <1>3, <1>4, <1>5, <1>6, <1>7, <1>8, <1>9, <1>10, <1>11 DEF Probe, CaptureFault

\* Before anything is inspected.
LEMMA PaneInit ==
  ASSUME InspectInit
  PROVE  PaneInv
<1>1. << >> \in Seq(Traffic) /\ << >> \in Seq(Chunks) /\ Len(<< >>) = 0
  OBVIOUS
<1>2. /\ taken \in [seen : Nat, sent : Seq(Chunks), received : Seq(Chunks), err : BOOLEAN]
      /\ taken.sent = << >> /\ taken.received = << >> /\ taken.seen = 0 /\ taken.err \in BOOLEAN
  BY <1>1 DEF InspectInit, Nothing
<1>3. Carried(taken.sent, wire, "sent") /\ Carried(taken.received, wire, "received")
  BY <1>2, NothingCarried DEF InspectInit
<1>4. InspectTypeOK
  <2>1. 0 <= MaxPackets /\ taken.seen <= 0
    BY <1>2, InspectAssumption
  <2>2. /\ probe = "off" /\ filtered = TRUE /\ late = FALSE
        /\ buffered = << >> /\ pend = << >> /\ wire = << >>
    BY DEF InspectInit
  <2> QED
    BY <2>1, <2>2, <1>1, <1>2 DEF InspectTypeOK
<1>5. PaneShowsTheEndpoint
  BY DEF InspectInit, PaneShowsTheEndpoint
<1> QED
  BY <1>2, <1>3, <1>4, <1>5 DEF InspectInit, PaneInv

\* What the console's steps are to an inspection.
LEMMA OnlyInspections ==
  ASSUME [Next]_allVars
  PROVE  \/ UNCHANGED inspectVars
         \/ view = NoView /\ \E app, flow : Request(app, flow)
         \/ probe = "off" /\ ClosePane
         \/ Probe \/ Elapse \/ CaptureFault \/ \E pkt \in Traffic : Arrive(pkt)
<1>1. ASSUME UNCHANGED paneVars
      PROVE  UNCHANGED inspectVars
  BY <1>1 DEF paneVars
<1>2. CASE UNCHANGED allVars
  BY <1>1, <1>2 DEF allVars, consoleVars
<1>3. CASE Sampler
  BY <1>1, <1>3 DEF Sampler, Tick, Warm, PostSample, consoleVars
<1>4. CASE \E s \in Senders : PostMessage(s)
  BY <1>1, <1>4 DEF PostMessage
<1>5. CASE \E k \in Keystrokes : Press(k)
  BY <1>1, <1>5 DEF Press
<1>6. ASSUME NEW a, NEW flow, Inspecting(a, flow)
      PROVE  UNCHANGED inspectVars \/ \E app, f : Request(app, f)
  BY <1>6 DEF Inspecting
<1>7. CASE ZoomKey
  <2>1. view = NoView /\ InDashboard(queue[1].key)
    BY <1>7 DEF ZoomKey
  <2> QED
    BY <2>1, <1>6 DEF InDashboard
<1>8. CASE TreeKey
  <2>1. view = NoView /\ InTree(queue[1].key)
    BY <1>8 DEF TreeKey
  <2> DEFINE k == queue[1].key
  <2>2. CASE OnRow(k)
    <3>1. UNCHANGED inspectVars \/ \E app, f : Request(app, f)
      BY <2>2, <1>6 DEF OnRow, Unfold
    <3> QED
      BY <2>1, <3>1
  <2>3. CASE ~OnRow(k)
    BY <2>1, <2>3 DEF InTree, MoveInTree, SortTree
  <2> QED
    BY <2>2, <2>3
<1>9. CASE InspectionKey
  BY <1>9 DEF InspectionKey, Key1, Next1
<1>10. CASE SwitchFace \/ Quit \/ FindingsKey \/ ShowSample \/ ShowMessage
  BY <1>1, <1>10 DEF SwitchFace, Quit, FindingsKey, ShowSample, ShowMessage
<1>11. CASE Inspection
  BY <1>11 DEF Inspection
<1>12. CASE World
  BY <1>1, <1>12 DEF World
<1>13. CASE Deadline \/ Failure
  BY <1>13 DEF Deadline, Failure
<1> QED
  BY <1>2, <1>3, <1>4, <1>5, <1>7, <1>8, <1>9, <1>10, <1>11, <1>12, <1>13 DEF Next, Loop

\* Whatever else is on the interface, filtered or not, and wherever the capture ends: the
\* pane shows what crossed the wire with the endpoint of the inspected flow, each way and in
\* order, and calls it named or silent only if that was.
THEOREM PaneShows == Spec => []PaneShowsTheEndpoint
<1>1. ConsoleInit => PaneInv
  BY PaneInit DEF ConsoleInit
<1>2. PaneInv /\ [Next]_allVars => PaneInv'
  BY OnlyInspections, InspectionKeepsPane
<1>3. PaneInv => PaneShowsTheEndpoint
  BY DEF PaneInv
<1> QED
  BY <1>1, <1>2, <1>3, PTL DEF Spec

-----------------------------------------------------------------------------
(* Sums. *)

\* What w assigns to the members of T, added up.
SumOf(w, T) == MapThenSumSet(LAMBDA s : w[s], T)

\* It is the value of a sum's recursion.
LEMMA SumIs ==
    ASSUME NEW T, IsFiniteSet(T), NEW w, \A s \in T : w[s] \in Nat
    PROVE  \E it : SumOf(w, T) = it[T] /\ IsSum(it, w, T)
<1>. DEFINE v == [s \in T |-> w[s]]
            Is(it) == it = [t \in SUBSET T |-> IF t = {} THEN 0 ELSE w[Picked(t)] + it[t \ {Picked(t)}]]
<1>1. v \in [T -> Nat] /\ \A s \in T : v[s] = w[s]
  OBVIOUS
<1>2. \A t \in SUBSET T : t # {} => Picked(t) \in T
  BY DEF Picked
<1>. HIDE DEF v
<1>3. PICK g : g = [t \in SUBSET T |-> g[t]] /\ IsSum(g, v, T)
  BY <1>1, SumExists
<1>4. Is(g)
  <2>1. \A t \in SUBSET T : g[t] = IF t = {} THEN 0 ELSE w[Picked(t)] + g[t \ {Picked(t)}]
    BY <1>1, <1>2, <1>3 DEF IsSum
  <2>. QED
    BY <1>3, <2>1
<1>. DEFINE h == CHOOSE it : Is(it)
<1>5. Is(h)
  <2>. HIDE DEF Is
  <2>. QED
    BY <1>4
<1>6. SumOf(w, T) = h[T]
  BY DEF SumOf, MapThenSumSet, MapThenFoldSet, Picked
<1>. HIDE DEF h
<1>7. IsSum(h, w, T)
  BY <1>5 DEF IsSum
<1>. QED
  BY <1>6, <1>7

\* The laws of sums of natural numbers.
LEMMA SumLaws ==
    ASSUME NEW T, IsFiniteSet(T), NEW w, \A s \in T : w[s] \in Nat
    PROVE  /\ SumOf(w, T) \in Nat /\ SumOf(w, {}) = 0
           /\ \A x \in T : SumOf(w, T) = w[x] + SumOf(w, T \ {x})
<1>. DEFINE v == [s \in T |-> w[s]]
<1>1. v \in [T -> Nat] /\ \A s \in T : v[s] = w[s]
  OBVIOUS
<1>. HIDE DEF v
<1>2. PICK it : SumOf(w, T) = it[T] /\ IsSum(it, w, T)
  BY SumIs
<1>3. IsSum(it, v, T)
  BY <1>1, <1>2 DEF IsSum, Picked
<1>4. \A t \in SUBSET T : it[t] \in Nat
  BY <1>1, <1>3, SumType
<1>5. \A x \in T : it[T] = v[x] + it[T \ {x}]
  BY <1>1, <1>3, SumAny
<1>6. ASSUME NEW t \in SUBSET T PROVE SumOf(w, t) = it[t]
  <2>1. IsFiniteSet(t)
    BY FS_Subset
  <2>2. PICK g : SumOf(w, t) = g[t] /\ IsSum(g, w, t)
    BY <2>1, SumIs
  <2>. DEFINE D == {u \in SUBSET t : g[u] # it[u]}
  <2>3. D = {}
    <3>1. SUFFICES ASSUME D # {} PROVE FALSE
      OBVIOUS
    <3>2. PICK u \in D : \A r \in D : r \subseteq u => r = u
      <4>1. D \in SUBSET (SUBSET t)
        OBVIOUS
      <4>. HIDE DEF D
      <4>. QED
        BY <2>1, <3>1, <4>1, LeastSet
    <3>3. u \in SUBSET t /\ u \in SUBSET T /\ g[u] # it[u]
      BY <3>2
    <3>4. u # {}
      BY <3>3, <1>2, <2>2 DEF IsSum
    <3>5. Picked(u) \in u
      BY <3>4 DEF Picked
    <3>6. g[u \ {Picked(u)}] = it[u \ {Picked(u)}]
      BY <3>2, <3>3, <3>5
    <3>. QED
      BY <3>3, <3>4, <3>6, <1>2, <2>2 DEF IsSum
  <2>. QED
    BY <2>2, <2>3
<1>7. it[{}] = 0
  BY <1>2 DEF IsSum
<1>. QED
  BY <1>1, <1>2, <1>4, <1>5, <1>6, <1>7

\* A sum of fewer and smaller numbers is no larger.
LEMMA SumLess ==
    ASSUME NEW U, IsFiniteSet(U), NEW T \in SUBSET U, NEW w, NEW v,
           \A s \in T : w[s] \in Nat /\ w[s] <= v[s], \A s \in U : v[s] \in Nat
    PROVE  SumOf(w, T) <= SumOf(v, U)
<1>. DEFINE D == {u \in SUBSET U : ~(SumOf(w, T \cap u) <= SumOf(v, u))}
<1>1. D = {}
  <2>1. SUFFICES ASSUME D # {} PROVE FALSE
    OBVIOUS
  <2>2. PICK u \in D : \A r \in D : r \subseteq u => r = u
    <3>1. D \in SUBSET (SUBSET U)
      OBVIOUS
    <3>. HIDE DEF D
    <3>. QED
      BY <2>1, <3>1, LeastSet
  <2>3. u \in SUBSET U /\ ~(SumOf(w, T \cap u) <= SumOf(v, u)) /\ IsFiniteSet(u) /\ IsFiniteSet(T \cap u)
    BY <2>2, FS_Subset
  <2>4. SumOf(v, u) \in Nat /\ SumOf(w, T \cap u) \in Nat /\ SumOf(w, {}) = 0
    BY <2>3, SumLaws
  <2>5. PICK x \in u : TRUE
    <3>1. T \cap {} = {}
      OBVIOUS
    <3>. QED
      BY <2>3, <2>4, <3>1
  <2>6. PICK r \in SUBSET U : r = u \ {x}
    BY <2>3
  <2>7. SumOf(v, u) = v[x] + SumOf(v, r) /\ v[x] \in Nat
    BY <2>3, <2>6, SumLaws
  <2>8. SumOf(w, T \cap r) <= SumOf(v, r)
    BY <2>2, <2>3, <2>6
  <2>9. SumOf(v, r) \in Nat /\ SumOf(w, T \cap r) \in Nat
    <3>1. IsFiniteSet(r) /\ IsFiniteSet(T \cap r)
      BY FS_Subset
    <3>2. (\A s \in r : v[s] \in Nat) /\ (\A s \in T \cap r : w[s] \in Nat)
      OBVIOUS
    <3>3. SumOf(v, r) \in Nat
      BY <3>1, <3>2, SumLaws
    <3>4. SumOf(w, T \cap r) \in Nat
      BY <3>1, <3>2, SumLaws
    <3>. QED
      BY <3>3, <3>4
  <2>10. SumOf(w, T \cap u) <= v[x] + SumOf(w, T \cap r)
    <3>1. CASE x \in T
      <4>1. SumOf(w, T \cap u) = w[x] + SumOf(w, (T \cap u) \ {x})
        <5>1. PICK q : q = T \cap u
          OBVIOUS
        <5>2. IsFiniteSet(q) /\ x \in q /\ \A s \in q : w[s] \in Nat
          BY <2>3, <3>1, <5>1
        <5>3. SumOf(w, q) = w[x] + SumOf(w, q \ {x})
          BY <5>2, SumLaws
        <5>. QED
          BY <5>1, <5>3
      <4>2. (T \cap u) \ {x} = T \cap r
        BY <2>6
      <4>3. SumOf(w, T \cap u) = w[x] + SumOf(w, T \cap r)
        BY <4>1, <4>2
      <4>. QED
        BY <2>7, <2>9, <3>1, <4>3
    <3>2. CASE x \notin T
      <4>1. T \cap u = T \cap r
        BY <2>6, <3>2
      <4>2. SumOf(w, T \cap u) = SumOf(w, T \cap r)
        BY <4>1
      <4>. QED
        BY <2>7, <2>9, <4>2
    <3>. QED
      BY <3>1, <3>2
  <2>. QED
    BY <2>3, <2>4, <2>7, <2>8, <2>9, <2>10
<1>2. T \cap U = T
  OBVIOUS
<1>. QED
  BY <1>1, <1>2

-----------------------------------------------------------------------------
(* The rates. *)

\* What sockets have sent; -1 for one that is not open.
Counters == [Sockets -> Nat \cup {-1}]

\* The sockets of a key that are open by the counters so, and what they have sent.
OpenOf(so, k) == {s \in OfKey(k) : so[s] # -1}
BytesOf(so, k) == SumOf(so, OpenOf(so, k))

\* A sum of counters is a number.
LEMMA BytesNat ==
  ASSUME NEW so \in Counters, NEW k
  PROVE  /\ IsFiniteSet(OpenOf(so, k)) /\ OpenOf(so, k) \subseteq Sockets
         /\ \A s \in OpenOf(so, k) : so[s] \in Nat
         /\ BytesOf(so, k) \in Nat
         /\ \A x \in OpenOf(so, k) : BytesOf(so, k) = so[x] + SumOf(so, OpenOf(so, k) \ {x})
<1>1. OpenOf(so, k) \subseteq Sockets /\ IsFiniteSet(Sockets)
  BY EgressAssumption DEF OpenOf, OfKey
<1>2. IsFiniteSet(OpenOf(so, k))
  BY <1>1, FS_Subset
<1>3. \A s \in OpenOf(so, k) : so[s] \in Nat
  BY <1>1 DEF OpenOf, Counters
<1> QED
  BY <1>1, <1>2, <1>3, SumLaws DEF BytesOf

\* Sockets that close, or count less, add up to less.
LEMMA BytesLess ==
  ASSUME NEW so \in Counters, NEW so2 \in Counters, NEW k,
         \A s \in Sockets : so2[s] # -1 => so[s] # -1 /\ so2[s] <= so[s]
  PROVE  BytesOf(so2, k) <= BytesOf(so, k)
<1>1. OpenOf(so2, k) \in SUBSET OpenOf(so, k)
  BY DEF OpenOf, OfKey
<1>2. /\ IsFiniteSet(OpenOf(so, k)) /\ \A s \in OpenOf(so, k) : so[s] \in Nat
  BY BytesNat
<1>3. \A s \in OpenOf(so2, k) : so2[s] \in Nat /\ s \in Sockets
  BY BytesNat
<1>4. \A s \in OpenOf(so2, k) : so2[s] \in Nat /\ so2[s] <= so[s]
  BY <1>3 DEF OpenOf
<1> QED
  BY <1>1, <1>2, <1>4, SumLess DEF BytesOf

\* A socket that opens counts nothing.
LEMMA BytesOpened ==
  ASSUME NEW so \in Counters, NEW s \in Sockets, so[s] = -1, NEW k,
         NEW so2, so2 = [so EXCEPT ![s] = 0]
  PROVE  so2 \in Counters /\ BytesOf(so2, k) <= BytesOf(so, k)
<1>1. so2 \in Counters /\ so2[s] = 0 /\ \A r \in Sockets \ {s} : so2[r] = so[r]
  BY DEF Counters
<1>2. /\ IsFiniteSet(OpenOf(so2, k)) /\ OpenOf(so2, k) \subseteq Sockets
      /\ \A r \in OpenOf(so2, k) : so2[r] \in Nat
      /\ \A x \in OpenOf(so2, k) : BytesOf(so2, k) = so2[x] + SumOf(so2, OpenOf(so2, k) \ {x})
  BY <1>1, BytesNat
<1>3. /\ IsFiniteSet(OpenOf(so, k)) /\ OpenOf(so, k) \subseteq Sockets
      /\ \A r \in OpenOf(so, k) : so[r] \in Nat
      /\ BytesOf(so, k) \in Nat
  BY BytesNat
<1>4. s \notin OpenOf(so, k)
  BY DEF OpenOf
<1>5. OpenOf(so2, k) \ {s} = OpenOf(so, k)
  <2>1. \A r \in OfKey(k) : r \in Sockets
    BY DEF OfKey
  <2> QED
    BY <2>1, <1>1, <1>4 DEF OpenOf
<1>6. SumOf(so2, OpenOf(so2, k) \ {s}) <= BytesOf(so, k)
  <2>1. \A r \in OpenOf(so, k) : so2[r] = so[r]
    BY <1>1, <1>3, <1>4
  <2>2. \A r \in OpenOf(so, k) : so2[r] \in Nat /\ so2[r] <= so[r]
    BY <2>1, <1>3
  <2>3. SumOf(so2, OpenOf(so, k)) <= SumOf(so, OpenOf(so, k))
    BY <2>2, <1>3, SumLess
  <2> QED
    BY <2>3, <1>5 DEF BytesOf
<1>7. CASE s \in OpenOf(so2, k)
  <2>1. BytesOf(so2, k) = 0 + SumOf(so2, OpenOf(so2, k) \ {s})
    BY <1>1, <1>2, <1>7
  <2>2. SumOf(so2, OpenOf(so2, k) \ {s}) \in Nat
    <3>1. IsFiniteSet(OpenOf(so2, k) \ {s})
      BY <1>2, FS_Subset
    <3> QED
      BY <3>1, <1>2, SumLaws
  <2> QED
    BY <2>1, <2>2, <1>1, <1>6
<1>8. CASE s \notin OpenOf(so2, k)
  <2>1. OpenOf(so2, k) \ {s} = OpenOf(so2, k)
    BY <1>8
  <2> QED
    BY <2>1, <1>1, <1>6 DEF BytesOf
<1> QED
  BY <1>7, <1>8

\* What a socket sends is counted once, under its key.
LEMMA BytesSent ==
  ASSUME NEW so \in Counters, NEW s \in Sockets, so[s] # -1, NEW k,
         NEW so2, so2 = [so EXCEPT ![s] = @ + 1]
  PROVE  /\ so2 \in Counters
         /\ BytesOf(so2, k) <= BytesOf(so, k) + IF Key(s) = k THEN 1 ELSE 0
<1>1. /\ so2 \in Counters /\ so2[s] = so[s] + 1 /\ \A r \in Sockets \ {s} : so2[r] = so[r]
      /\ so[s] \in Nat
  BY DEF Counters
<1> DEFINE open == OpenOf(so, k)
<1>2. /\ IsFiniteSet(open) /\ open \subseteq Sockets /\ BytesOf(so, k) \in Nat
      /\ \A r \in open : so[r] \in Nat
  BY BytesNat
<1>0. \A x \in OpenOf(so2, k) : BytesOf(so2, k) = so2[x] + SumOf(so2, OpenOf(so2, k) \ {x})
  BY <1>1, BytesNat
<1>3. OpenOf(so2, k) = open
  <2>1. \A r \in OfKey(k) : r \in Sockets /\ (so2[r] # -1 <=> so[r] # -1)
    BY <1>1 DEF OfKey
  <2> QED
    BY <2>1 DEF OpenOf
<1>4. s \in open <=> Key(s) = k
  BY DEF OpenOf, OfKey
<1>5. \A r \in open : so2[r] \in Nat
  BY <1>1, <1>2
<1> HIDE DEF open
<1>6. BytesOf(so, k) = SumOf(so, open) /\ BytesOf(so2, k) = SumOf(so2, open)
  BY <1>3 DEF BytesOf, open
<1>7. CASE s \notin open
  <2>1. \A r \in open : so2[r] = so[r]
    BY <1>1, <1>2, <1>7
  <2>2. \A r \in open : so2[r] \in Nat /\ so2[r] <= so[r]
    BY <2>1, <1>2
  <2>3. SumOf(so2, open) <= SumOf(so, open)
    BY <2>2, <1>2, SumLess
  <2> QED
    BY <2>3, <1>1, <1>2, <1>4, <1>6, <1>7
<1>8. CASE s \in open
  <2>1. PICK rest : rest = open \ {s}
    OBVIOUS
  <2>2. /\ SumOf(so, open) = so[s] + SumOf(so, rest)
        /\ SumOf(so2, open) = so2[s] + SumOf(so2, rest)
    <3>1. \A x \in open : SumOf(so, open) = so[x] + SumOf(so, open \ {x})
      BY <1>2, SumLaws
    <3>2. \A x \in open : SumOf(so2, open) = so2[x] + SumOf(so2, open \ {x})
      BY <1>0, <1>3, <1>6
    <3> QED
      BY <3>1, <3>2, <2>1, <1>8
  <2>3. IsFiniteSet(rest) /\ \A r \in rest : so[r] \in Nat /\ so2[r] = so[r]
    BY <2>1, <1>1, <1>2, FS_Subset
  <2>4. \A r \in rest : so2[r] \in Nat /\ so2[r] <= so[r]
    BY <2>3
  <2>5. SumOf(so2, rest) <= SumOf(so, rest)
    BY <2>3, <2>4, SumLess
  <2>6. SumOf(so2, rest) \in Nat /\ SumOf(so, rest) \in Nat
    BY <2>3, <2>4, SumLaws
  <2> QED
    BY <2>2, <2>5, <2>6, <1>1, <1>4, <1>6, <1>8
<1> QED
  BY <1>7, <1>8

\* What was sent since some moment, by process and by connection.
Tallies == [pid : [Pids -> Nat], conn : [Keys -> Nat]]

\* A tool's totals, of some of K.
Totals(f, K) == DOMAIN f \subseteq K /\ \A k \in DOMAIN f : f[k] \in Nat

\* What was sent in between accounts for the difference of two totals.
Within(now, base, sent) == \A k \in DOMAIN now \cap DOMAIN base : now[k] <= base[k] + sent[k]

\* The machine's counters, against the totals of the latest nettop.
CountersInv ==
    /\ procOut \in [Pids -> Nat] /\ sockOut \in Counters /\ recent \in Tallies
    /\ \A p \in DOMAIN snap.procs : procOut[p] <= snap.procs[p] + recent.pid[p]
    /\ \A k \in DOMAIN snap.conns : BytesOf(sockOut, k) <= snap.conns[k] + recent.conn[k]

\* Those totals, against the base of the next rates.
TotalsInv ==
    /\ stage \in {"idle", "nettop", "lsof", "ps", "post"} /\ snap.recent \in Tallies
    /\ conns \subseteq Sockets
    /\ Totals(snap.procs, Pids) /\ Totals(snap.conns, Keys)
    /\ Totals(prev, Pids) /\ Totals(prevConn, Keys)
    /\ IF stage \in {"lsof", "ps"}
       THEN Within(snap.procs, prev, snap.recent.pid) /\ Within(snap.conns, prevConn, snap.recent.conn)
       ELSE prev = snap.procs /\ prevConn = snap.conns

\* With them, no rate on show includes what was sent before the previous sample.
RateInv == CountersInv /\ TotalsInv /\ RateIsRecent

\* What is counted may grow by what is then counted as sent since nettop.
LEMMA CountsKept ==
  ASSUME RateInv, UNCHANGED <<snap, conns, prev, prevConn, sparkConn, shown, stage>>,
         procOut' \in [Pids -> Nat], sockOut' \in Counters, recent' \in Tallies,
         NEW more \in Tallies,
         \A p \in Pids : procOut'[p] <= procOut[p] + more.pid[p],
         \A k \in Keys : BytesOf(sockOut', k) <= BytesOf(sockOut, k) + more.conn[k],
         \A p \in Pids : recent'.pid[p] = recent.pid[p] + more.pid[p],
         \A k \in Keys : recent'.conn[k] = recent.conn[k] + more.conn[k]
  PROVE  RateInv'
<1>1. TotalsInv'
  BY DEF RateInv, TotalsInv, Within, Totals
<1>2. RateIsRecent'
  BY DEF RateInv, RateIsRecent
<1>3. /\ procOut \in [Pids -> Nat] /\ sockOut \in Counters /\ recent \in Tallies
      /\ Totals(snap.procs, Pids) /\ Totals(snap.conns, Keys)
      /\ \A p \in DOMAIN snap.procs : procOut[p] <= snap.procs[p] + recent.pid[p]
      /\ \A k \in DOMAIN snap.conns : BytesOf(sockOut, k) <= snap.conns[k] + recent.conn[k]
  BY DEF RateInv, CountersInv, TotalsInv
<1>4. ASSUME NEW p \in DOMAIN snap.procs
      PROVE  procOut'[p] <= snap.procs[p] + recent'.pid[p]
  <2>1. p \in Pids /\ snap.procs[p] \in Nat
    BY <1>3 DEF Totals
  <2>2. /\ procOut[p] \in Nat /\ procOut'[p] \in Nat /\ recent.pid[p] \in Nat /\ more.pid[p] \in Nat
        /\ procOut[p] <= snap.procs[p] + recent.pid[p] /\ procOut'[p] <= procOut[p] + more.pid[p]
        /\ recent'.pid[p] = recent.pid[p] + more.pid[p]
    BY <2>1, <1>3 DEF Tallies
  <2> QED
    BY <2>1, <2>2
<1>5. ASSUME NEW k \in DOMAIN snap.conns
      PROVE  BytesOf(sockOut', k) <= snap.conns[k] + recent'.conn[k]
  <2>1. k \in Keys /\ snap.conns[k] \in Nat
    BY <1>3 DEF Totals
  <2>2. BytesOf(sockOut, k) \in Nat /\ BytesOf(sockOut', k) \in Nat
    BY <1>3, BytesNat
  <2>3. /\ recent.conn[k] \in Nat /\ more.conn[k] \in Nat
        /\ BytesOf(sockOut, k) <= snap.conns[k] + recent.conn[k]
        /\ BytesOf(sockOut', k) <= BytesOf(sockOut, k) + more.conn[k]
        /\ recent'.conn[k] = recent.conn[k] + more.conn[k]
    BY <2>1, <1>3 DEF Tallies
  <2> QED
    BY <2>1, <2>2, <2>3
<1>6. CountersInv'
  <2>1. snap' = snap
    OBVIOUS
  <2> QED
    BY <2>1, <1>4, <1>5 DEF CountersInv
<1> QED
  BY <1>1, <1>2, <1>6 DEF RateInv

\* A step of the machine in which nothing is sent.
LEMMA NothingSent ==
  ASSUME RateInv, UNCHANGED <<snap, conns, prev, prevConn, sparkConn, shown, stage, recent>>,
         procOut' \in [Pids -> Nat], \A p \in Pids : procOut'[p] <= procOut[p],
         sockOut' \in Counters, \A k : BytesOf(sockOut', k) <= BytesOf(sockOut, k)
  PROVE  RateInv'
<1> DEFINE more == [pid |-> [p \in Pids |-> 0], conn |-> [k \in Keys |-> 0]]
<1>1. /\ more \in Tallies /\ \A p \in Pids : more.pid[p] = 0
      /\ \A k \in Keys : more.conn[k] = 0
  BY DEF Tallies
<1> HIDE DEF more
<1>2. /\ procOut \in [Pids -> Nat] /\ sockOut \in Counters /\ recent \in Tallies /\ recent' = recent
  BY DEF RateInv, CountersInv
<1>3. \A k : BytesOf(sockOut, k) \in Nat /\ BytesOf(sockOut', k) \in Nat
  BY <1>2, BytesNat
<1>4. \A p \in Pids : /\ procOut'[p] <= procOut[p] + more.pid[p]
                      /\ recent'.pid[p] = recent.pid[p] + more.pid[p]
  BY <1>1, <1>2 DEF Tallies
<1>5. \A k \in Keys : /\ BytesOf(sockOut', k) <= BytesOf(sockOut, k) + more.conn[k]
                      /\ recent'.conn[k] = recent.conn[k] + more.conn[k]
  BY <1>1, <1>2, <1>3 DEF Tallies
<1> QED
  BY <1>1, <1>2, <1>4, <1>5, CountsKept

\* The machine may only send what is then counted as sent since nettop.
LEMMA MachineCounts ==
  ASSUME RateInv, Exits \/ Closes \/ Activity
  PROVE  RateInv'
<1>1. UNCHANGED <<monitorVars, stage>>
  BY DEF Exits, Closes, Activity, Alone
<1>2. UNCHANGED <<snap, conns, prev, prevConn, sparkConn, shown, stage>>
  BY <1>1 DEF monitorVars
<1>5. /\ procOut \in [Pids -> Nat] /\ sockOut \in Counters /\ recent \in Tallies
      /\ \A p \in Pids : procOut[p] <= procOut[p]
      /\ \A k : BytesOf(sockOut, k) <= BytesOf(sockOut, k)
  <2>1. procOut \in [Pids -> Nat] /\ sockOut \in Counters /\ recent \in Tallies
    BY DEF RateInv, CountersInv
  <2> QED
    BY <2>1, BytesNat
<1>7. CASE \E p \in Pids : Exit(p)
  <2>1. PICK p \in Pids : Exit(p)
    BY <1>7
  <2>2. /\ sockOut' = [s \in Sockets |-> IF s.pid = p THEN -1 ELSE sockOut[s]]
        /\ UNCHANGED <<procOut, recent>>
    BY <2>1 DEF Exit
  <2>3. sockOut' \in Counters /\ \A s \in Sockets : sockOut'[s] # -1 => sockOut[s] # -1 /\ sockOut'[s] <= sockOut[s]
    BY <2>2, <1>5 DEF Counters
  <2> QED
    BY <2>2, <2>3, <1>2, <1>5, BytesLess, NothingSent
<1>8. CASE \E s \in Sockets : Disconnect(s)
  <2>1. PICK s \in Sockets : Disconnect(s)
    BY <1>8
  <2>2. sockOut' = [sockOut EXCEPT ![s] = -1] /\ UNCHANGED <<procOut, recent>>
    BY <2>1 DEF Disconnect
  <2>3. sockOut' \in Counters /\ \A r \in Sockets : sockOut'[r] # -1 => sockOut[r] # -1 /\ sockOut'[r] <= sockOut[r]
    BY <2>2, <1>5 DEF Counters
  <2> QED
    BY <2>2, <2>3, <1>2, <1>5, BytesLess, NothingSent
<1>9. CASE \E p \in Pids, path \in Paths : Exec(p, path)
  <2>1. PICK p \in Pids : procOut' = [procOut EXCEPT ![p] = 0] /\ UNCHANGED <<sockOut, recent>>
    BY <1>9 DEF Exec
  <2>2. procOut' \in [Pids -> Nat] /\ \A q \in Pids : procOut'[q] <= procOut[q]
    BY <2>1, <1>5
  <2> QED
    BY <2>1, <2>2, <1>2, <1>5, NothingSent
<1>10. CASE \E s \in Sockets : Connect(s)
  <2>1. PICK s \in Sockets : /\ sockOut[s] = -1 /\ sockOut' = [sockOut EXCEPT ![s] = 0]
                             /\ UNCHANGED <<procOut, recent>>
    BY <1>10 DEF Connect
  <2>2. sockOut' \in Counters /\ \A k : BytesOf(sockOut', k) <= BytesOf(sockOut, k)
    BY <2>1, <1>5, BytesOpened
  <2> QED
    BY <2>1, <2>2, <1>2, <1>5, NothingSent
<1>11. CASE \E s \in Sockets : Send(s)
  <2>1. PICK s \in Sockets : Send(s)
    BY <1>11
  <2>2. /\ sockOut[s] # -1 /\ sockOut' = [sockOut EXCEPT ![s] = @ + 1]
        /\ procOut' = [procOut EXCEPT ![s.pid] = @ + 1]
        /\ recent' = [recent EXCEPT !.pid[s.pid] = @ + 1, !.conn[Key(s)] = @ + 1]
    BY <2>1 DEF Send
  <2>3. s.pid \in Pids /\ Key(s) \in Keys
    BY EgressAssumption DEF Keys
  <2> DEFINE more == [pid |-> [p \in Pids |-> IF p = s.pid THEN 1 ELSE 0],
                      conn |-> [k \in Keys |-> IF Key(s) = k THEN 1 ELSE 0]]
  <2>4. /\ more \in Tallies
        /\ \A p \in Pids : more.pid[p] = IF p = s.pid THEN 1 ELSE 0
        /\ \A k \in Keys : more.conn[k] = IF Key(s) = k THEN 1 ELSE 0
    BY DEF Tallies
  <2> HIDE DEF more
  <2>5. sockOut' \in Counters /\ \A k \in Keys : BytesOf(sockOut', k) <= BytesOf(sockOut, k) + more.conn[k]
    BY <2>2, <2>4, <1>5, BytesSent
  <2>6. procOut' \in [Pids -> Nat] /\ \A p \in Pids : procOut'[p] <= procOut[p] + more.pid[p]
    BY <2>2, <2>3, <2>4, <1>5
  <2>7. recent' = [pid |-> [recent.pid EXCEPT ![s.pid] = @ + 1],
                   conn |-> [recent.conn EXCEPT ![Key(s)] = @ + 1]]
    BY <2>2, <1>5 DEF Tallies
  <2>8. /\ recent' \in Tallies
        /\ \A p \in Pids : recent'.pid[p] = recent.pid[p] + more.pid[p]
        /\ \A k \in Keys : recent'.conn[k] = recent.conn[k] + more.conn[k]
    BY <2>3, <2>4, <2>7, <1>5 DEF Tallies
  <2> QED
    BY <2>4, <2>5, <2>6, <2>8, <1>2, CountsKept
<1> QED
  BY <1>7, <1>8, <1>9, <1>10, <1>11 DEF Exits, Closes, Activity, Alone

\* nettop takes the totals, and what is sent is counted from 0 again.
LEMMA NettopCounts ==
  ASSUME RateInv, NEW ok \in BOOLEAN, Nettop(ok)
  PROVE  RateInv'
<1>1. /\ stage = "nettop" /\ stage' = "lsof"
      /\ snap' = [procs |-> IF ok THEN ProcTotals ELSE None,
                  conns |-> IF ok THEN ConnTotals ELSE None,
                  recent |-> recent]
      /\ recent' = [pid |-> [p \in Pids |-> 0], conn |-> [k \in Keys |-> 0]]
      /\ UNCHANGED <<procOut, sockOut, conns, prev, prevConn>>
  BY DEF Nettop
<1>2. /\ procOut \in [Pids -> Nat] /\ sockOut \in Counters /\ recent \in Tallies
      /\ conns \subseteq Sockets /\ Totals(prev, Pids) /\ Totals(prevConn, Keys)
      /\ prev = snap.procs /\ prevConn = snap.conns
      /\ \A p \in DOMAIN prev : procOut[p] <= prev[p] + recent.pid[p]
      /\ \A k \in DOMAIN prevConn : BytesOf(sockOut, k) <= prevConn[k] + recent.conn[k]
  BY <1>1 DEF RateInv, CountersInv, TotalsInv
<1>3. \A k : BytesOf(sockOut, k) \in Nat
  BY <1>2, BytesNat
<1>4. /\ recent' \in Tallies /\ \A p \in Pids : recent'.pid[p] = 0
      /\ \A k \in Keys : recent'.conn[k] = 0
  BY <1>1 DEF Tallies
<1>5. snap'.recent = recent
  BY <1>1
<1>6. DOMAIN None = {}
  BY DEF None
<1>7. /\ DOMAIN snap'.procs \subseteq Pids
      /\ \A p \in DOMAIN snap'.procs : snap'.procs[p] = procOut[p]
  BY <1>1, <1>6 DEF ProcTotals
<1>8. /\ DOMAIN snap'.conns \subseteq Keys
      /\ \A k \in DOMAIN snap'.conns : snap'.conns[k] = BytesOf(sockOut, k)
  <2>1. DOMAIN ConnTotals \subseteq Keys
    BY DEF ConnTotals, Keys, Open
  <2>2. \A k \in DOMAIN ConnTotals : ConnTotals[k] = BytesOf(sockOut, k)
    BY DEF ConnTotals, BytesOf, SumOf, OpenOf, Open
  <2>3. snap'.conns = IF ok THEN ConnTotals ELSE None
    BY <1>1
  <2> HIDE DEF ConnTotals
  <2> QED
    BY <2>1, <2>2, <2>3, <1>6
<1>9. Totals(snap'.procs, Pids) /\ Totals(snap'.conns, Keys)
  BY <1>2, <1>3, <1>7, <1>8 DEF Totals
<1>10. Within(snap'.procs, prev, recent.pid)
  BY <1>2, <1>7 DEF Within
<1>11. Within(snap'.conns, prevConn, recent.conn)
  BY <1>2, <1>8 DEF Within
<1>12. TotalsInv'
  BY <1>1, <1>2, <1>5, <1>9, <1>10, <1>11 DEF TotalsInv
<1>13. CountersInv'
  <2>1. \A p \in DOMAIN snap'.procs : procOut'[p] <= snap'.procs[p] + recent'.pid[p]
    BY <1>1, <1>2, <1>4, <1>7
  <2>2. \A k \in DOMAIN snap'.conns : BytesOf(sockOut', k) <= snap'.conns[k] + recent'.conn[k]
    BY <1>1, <1>3, <1>4, <1>8
  <2> QED
    BY <2>1, <2>2, <1>1, <1>2, <1>4 DEF CountersInv
<1>14. RateIsRecent'
  BY <1>1 DEF RateIsRecent
<1> QED
  BY <1>12, <1>13, <1>14 DEF RateInv

\* No rate is more than what was sent between its two totals.
LEMMA RateWithin ==
  ASSUME NEW K, NEW base, NEW now, Totals(base, K), Totals(now, K),
         NEW sent \in [K -> Nat], Within(now, base, sent), NEW k \in K
  PROVE  Rate(base, now, k) <= sent[k]
<1>1. sent[k] \in Nat
  OBVIOUS
<1>2. CASE k \notin DOMAIN base
  BY <1>1, <1>2 DEF Rate
<1>3. CASE k \in DOMAIN base /\ k \notin DOMAIN now
  BY <1>1, <1>3 DEF Rate, RateOut, At, Totals
<1>4. CASE k \in DOMAIN base /\ k \in DOMAIN now
  <2>1. base[k] \in Nat /\ now[k] \in Nat /\ now[k] <= base[k] + sent[k]
    BY <1>4 DEF Totals, Within
  <2> QED
    BY <2>1, <1>1, <1>4 DEF Rate, RateOut, At
<1> QED
  BY <1>2, <1>3, <1>4

\* ps ends the sample, whose rates become what is shown.
LEMMA PsRates ==
  ASSUME RateInv, RingsInv, NEW ok \in BOOLEAN, Ps(ok)
  PROVE  RateInv'
<1> DEFINE path == IF ok THEN proc ELSE [p \in Pids |-> NoPath]
           keys == {Key(s) : s \in conns}
           live == {p \in Pids : path[p] # Own /\ \E s \in conns : s.pid = p}
           apps == {AppOf(path, p) : p \in live}
           rate == [p \in live |-> Rate(prev, snap.procs, p)]
           connRate == [k \in keys |-> Rate(prevConn, snap.conns, k)]
           Members(a) == {p \in live : AppOf(path, p) = a}
           groups1 == [a \in apps |->
                        Group(IF a \in Paths THEN a ELSE NoPath, Members(a), rate,
                              [s \in {c \in conns : c.pid \in Members(a)} |-> connRate[Key(s)]])]
<1>1. /\ stage = "ps" /\ stage' = "post" /\ sparkConn' = Advance(sparkConn, connRate)
      /\ shown' = groups1 /\ prev' = snap.procs /\ prevConn' = snap.conns
      /\ UNCHANGED <<machineVars, snap, conns>>
  BY DEF Ps
<1>2. /\ conns \subseteq Sockets /\ snap.recent \in Tallies
      /\ Totals(snap.procs, Pids) /\ Totals(snap.conns, Keys)
      /\ Totals(prev, Pids) /\ Totals(prevConn, Keys)
      /\ Within(snap.procs, prev, snap.recent.pid)
      /\ Within(snap.conns, prevConn, snap.recent.conn)
  BY <1>1 DEF RateInv, TotalsInv
<1>3. snap.recent.pid \in [Pids -> Nat] /\ snap.recent.conn \in [Keys -> Nat]
  BY <1>2 DEF Tallies
<1>4. live \subseteq Pids /\ \A p \in live : rate[p] <= snap.recent.pid[p]
  <2>1. \A p \in Pids : Rate(prev, snap.procs, p) <= snap.recent.pid[p]
    BY <1>2, <1>3, RateWithin
  <2> HIDE DEF path
  <2> QED
    BY <2>1
<1>5. \A k \in keys : connRate[k] <= snap.recent.conn[k]
  <2>1. \A k \in Keys : Rate(prevConn, snap.conns, k) <= snap.recent.conn[k]
    BY <1>2, <1>3, RateWithin
  <2>2. keys \subseteq Keys
    BY <1>2 DEF Keys
  <2> QED
    BY <2>1, <2>2
<1>6. ASSUME NEW a \in DOMAIN shown', NEW p \in DOMAIN shown'[a].members
      PROVE  shown'[a].members[p] <= snap'.recent.pid[p]
  <2>1. a \in apps
    BY <1>1
  <2>2. shown'[a].members = [q \in Members(a) |-> rate[q]]
    BY <1>1, <2>1 DEF Group
  <2>3. p \in live /\ shown'[a].members[p] = rate[p]
    BY <2>2
  <2> QED
    BY <2>3, <1>1, <1>4
<1>7. ASSUME NEW k \in DOMAIN sparkConn'
      PROVE  sparkConn'[k][Len(sparkConn'[k])] <= snap'.recent.conn[k]
  <2>1. DOMAIN connRate = keys
    OBVIOUS
  <2> HIDE DEF connRate, keys
  <2>2. DOMAIN sparkConn' = DOMAIN connRate
        /\ \A j \in DOMAIN connRate : sparkConn'[j][Len(sparkConn'[j])] = connRate[j]
    <3>1. InStep(sparkConn, age.conn)
      BY DEF RingsInv
    <3>2. sparkConn' = Advance(sparkConn, connRate)
      BY <1>1
    <3> QED
      BY <3>1, <3>2, AdvanceInStep
  <2> QED
    BY <2>1, <2>2, <1>1, <1>5
<1>8. RateIsRecent'
  BY <1>6, <1>7 DEF RateIsRecent
<1>9. CountersInv'
  BY <1>1 DEF RateInv, CountersInv, machineVars
<1>10. TotalsInv'
  BY <1>1, <1>2 DEF TotalsInv
<1> QED
  BY <1>8, <1>9, <1>10 DEF RateInv

\* What the console's steps are to the monitor and the machine.
LEMMA OnlySamples ==
  ASSUME [Next]_allVars
  PROVE  \/ UNCHANGED egressVars
         \/ /\ (stage = "idle" /\ stage' = "nettop") \/ (stage = "post" /\ stage' = "idle")
            /\ UNCHANGED <<machineVars, monitorVars>>
         \/ \E ok \in BOOLEAN : Sample(ok)
         \/ Exits \/ Closes \/ Activity
<1>1. CASE UNCHANGED allVars
  BY <1>1 DEF allVars
<1>2. CASE Sampler
  BY <1>2 DEF Sampler, Tick, Warm, PostSample
<1>3. CASE \E s \in Senders : PostMessage(s)
  BY <1>3 DEF PostMessage
<1>4. CASE \E k \in Keystrokes : Press(k)
  BY <1>4 DEF Press
<1>5. CASE Loop
  BY <1>5 DEF Loop, Unmoved, SwitchFace, Quit, InspectionKey, ZoomKey, TreeKey, FindingsKey,
              Inspection, ShowSample, ShowMessage
<1>6. CASE World
  BY <1>6 DEF World
<1>7. CASE Deadline \/ Failure
  BY <1>7 DEF Deadline, Failure, Unmoved
<1> QED
  BY <1>1, <1>2, <1>3, <1>4, <1>5, <1>6, <1>7 DEF Next

\* On a machine that has just been looked at, nothing was measured yet.
LEMMA RateStart ==
  ASSUME EgressInit
  PROVE  RateInv
<1>1. /\ procOut = [p \in Pids |-> 1] /\ stage = "idle" /\ conns = {}
      /\ recent = [pid |-> [p \in Pids |-> 0], conn |-> [k \in Keys |-> 0]]
      /\ snap = [procs |-> None, conns |-> None, recent |-> recent]
      /\ prev = None /\ prevConn = None
  BY DEF EgressInit
<1>2. procOut \in [Pids -> Nat] /\ recent \in Tallies
  BY <1>1 DEF Tallies
<1>3. sockOut \in Counters
  <2>1. PICK m \in Start : sockOut = [s \in Sockets |-> IF s \in m.open THEN 1 ELSE -1]
    BY DEF EgressInit
  <2> QED
    BY <2>1 DEF Counters
<1>4. DOMAIN None = {} /\ snap.procs = None /\ snap.conns = None /\ snap.recent = recent
  BY <1>1 DEF None
<1>5. Totals(None, Pids) /\ Totals(None, Keys)
  BY <1>4 DEF Totals
<1>6. CountersInv
  BY <1>2, <1>3, <1>4 DEF CountersInv
<1>7. TotalsInv
  BY <1>1, <1>2, <1>4, <1>5 DEF TotalsInv
<1>8. RateIsRecent
  BY <1>1 DEF RateIsRecent
<1> QED
  BY <1>6, <1>7, <1>8 DEF RateInv

\* No rate on show includes more, sample after sample.
LEMMA RatesKept ==
  ASSUME RateInv, RingsInv, [Next]_allVars
  PROVE  RateInv'
<1>1. CASE UNCHANGED egressVars
  <2>1. UNCHANGED <<procOut, sockOut, recent, snap, conns, prev, prevConn, stage, shown, sparkConn>>
    BY <1>1 DEF egressVars, machineVars, monitorVars
  <2>2. CountersInv'
    BY <2>1 DEF RateInv, CountersInv
  <2>3. TotalsInv'
    BY <2>1 DEF RateInv, TotalsInv
  <2>4. RateIsRecent'
    BY <2>1 DEF RateInv, RateIsRecent
  <2> QED
    BY <2>2, <2>3, <2>4 DEF RateInv
<1>2. CASE /\ (stage = "idle" /\ stage' = "nettop") \/ (stage = "post" /\ stage' = "idle")
           /\ UNCHANGED <<machineVars, monitorVars>>
  <2>1. UNCHANGED <<procOut, sockOut, recent, snap, conns, prev, prevConn>>
    BY <1>2 DEF machineVars, monitorVars
  <2>2. CountersInv'
    BY <2>1 DEF RateInv, CountersInv
  <2>3. TotalsInv'
    BY <2>1, <1>2 DEF RateInv, TotalsInv
  <2>4. RateIsRecent'
    BY <1>2 DEF RateIsRecent
  <2> QED
    BY <2>2, <2>3, <2>4 DEF RateInv
<1>3. ASSUME NEW ok \in BOOLEAN, Sample(ok)
      PROVE  RateInv'
  <2>1. CASE Nettop(ok)
    BY <2>1, NettopCounts
  <2>2. CASE Lsof(ok)
    <3>1. /\ stage = "lsof" /\ stage' = "ps" /\ conns' = IF ok THEN Listed ELSE {}
          /\ UNCHANGED <<procOut, sockOut, recent, snap, prev, prevConn>>
      BY <2>2 DEF Lsof, machineVars
    <3>2. conns' \subseteq Sockets
      BY <3>1 DEF Listed, Open
    <3>3. CountersInv'
      BY <3>1 DEF RateInv, CountersInv
    <3>4. TotalsInv'
      BY <3>1, <3>2 DEF RateInv, TotalsInv
    <3>5. RateIsRecent'
      BY <3>1 DEF RateIsRecent
    <3> QED
      BY <3>3, <3>4, <3>5 DEF RateInv
  <2>3. CASE Ps(ok)
    BY <2>3, PsRates
  <2> QED
    BY <1>3, <2>1, <2>2, <2>3 DEF Sample
<1>4. CASE Exits \/ Closes \/ Activity
  BY <1>4, MachineCounts
<1> QED
  BY <1>1, <1>2, <1>3, <1>4, OnlySamples

\* Whatever exits, opens, closes, sends and takes a used pid, and whichever tools fail: no
\* rate on show exceeds what was sent since the sample before.
THEOREM RatesAreRecent == Spec => []RateIsRecent
<1> DEFINE Inv == RateInv /\ RingsInv
<1>1. ConsoleInit => Inv
  BY RateStart, RingsStart DEF ConsoleInit
<1>2. Inv /\ [Next]_allVars => Inv'
  BY RatesKept, RingsKept
<1>3. Inv => RateIsRecent
  BY DEF RateInv
<1> QED
  BY <1>1, <1>2, <1>3, PTL DEF Spec

-----------------------------------------------------------------------------
(* Ranks. *)

\* A rank is a sequence of numbers.
LEMMA RankIs ==
  ASSUME NEW a \in Seq(Int)
  PROVE  /\ Len(a) \in Nat /\ DOMAIN a = 1 .. Len(a) /\ a \in [1 .. Len(a) -> Int]
         /\ \A i \in 1 .. Len(a) : a[i] \in Int
OBVIOUS

\* Of two different ranks of the same length one comes before the other.
LEMMA RankTotal ==
  ASSUME NEW a \in Seq(Int), NEW b \in Seq(Int), Len(a) = Len(b), a # b
  PROVE  Before(a, b) \/ Before(b, a)
<1> DEFINE T == {i \in 1 .. Len(a) : a[i] # b[i]}
<1>0. /\ Len(a) \in Nat /\ DOMAIN a = 1 .. Len(a) /\ DOMAIN b = 1 .. Len(a)
      /\ a \in [1 .. Len(a) -> Int] /\ b \in [1 .. Len(a) -> Int]
  BY RankIs
<1>1. T # {} /\ T \in SUBSET Nat
  <2>1. ASSUME T = {} PROVE FALSE
    <3>1. \A i \in 1 .. Len(a) : a[i] = b[i]
      BY <2>1
    <3>2. a = [i \in 1 .. Len(a) |-> a[i]] /\ b = [i \in 1 .. Len(a) |-> b[i]]
      BY <1>0
    <3> HIDE DEF T
    <3>3. a = b
      BY <3>1, <3>2, Zenon
    <3> QED
      BY <3>3
  <2> QED
    BY <2>1, <1>0
<1>2. PICK i \in T : \A j \in T : i <= j
  <2> HIDE DEF T
  <2> QED
    BY <1>1, LeastNat
<1>3. i \in 1 .. Len(a) /\ a[i] # b[i] /\ a[i] \in Int /\ b[i] \in Int
      /\ i \in DOMAIN a /\ i \in DOMAIN b
  BY <1>0, <1>2
<1>4. \A j \in 1 .. i - 1 : a[j] = b[j]
  BY <1>0, <1>2, <1>3
<1>5. a[i] < b[i] \/ b[i] < a[i]
  BY <1>3
<1>6. ASSUME a[i] < b[i] PROVE Before(a, b)
  BY <1>3, <1>4, <1>6 DEF Before
<1>7. ASSUME b[i] < a[i] PROVE Before(b, a)
  BY <1>3, <1>4, <1>7 DEF Before
<1> QED
  BY <1>5, <1>6, <1>7

\* No rank comes before itself.
LEMMA RankStrict ==
  ASSUME NEW a \in Seq(Int)
  PROVE  ~Before(a, a)
BY RankIs DEF Before

\* What comes before what comes before another, comes before that.
LEMMA RankTransitive ==
  ASSUME NEW a \in Seq(Int), NEW b \in Seq(Int), NEW c \in Seq(Int),
         Len(a) = Len(b), Len(b) = Len(c), Before(a, b), Before(b, c)
  PROVE  Before(a, c)
<1>0. /\ DOMAIN a = 1 .. Len(a) /\ DOMAIN b = 1 .. Len(a) /\ Len(a) \in Nat
      /\ \A i \in 1 .. Len(a) : a[i] \in Int /\ b[i] \in Int /\ c[i] \in Int
  BY RankIs
<1>1. PICK i \in 1 .. Len(a) : a[i] < b[i] /\ \A k \in 1 .. i - 1 : a[k] = b[k]
  BY <1>0 DEF Before
<1>2. PICK j \in 1 .. Len(a) : b[j] < c[j] /\ \A k \in 1 .. j - 1 : b[k] = c[k]
  BY <1>0 DEF Before
<1>3. /\ a[i] \in Int /\ b[i] \in Int /\ c[i] \in Int
      /\ a[j] \in Int /\ b[j] \in Int /\ c[j] \in Int /\ i \in Nat /\ j \in Nat
  BY <1>0
<1>4. CASE i <= j
  <2>1. a[i] < c[i]
    <3>1. CASE i = j
      BY <1>1, <1>2, <1>3, <3>1
    <3>2. CASE i # j
      <4>1. b[i] = c[i]
        BY <1>2, <1>3, <1>4, <3>2
      <4> QED
        BY <1>1, <4>1
    <3> QED
      BY <3>1, <3>2
  <2>2. \A k \in 1 .. i - 1 : a[k] = c[k]
    BY <1>1, <1>2, <1>3, <1>4
  <2> QED
    BY <2>1, <2>2, <1>0 DEF Before
<1>5. CASE j < i
  <2>1. a[j] < c[j]
    <3>1. a[j] = b[j]
      BY <1>1, <1>3, <1>5
    <3> QED
      BY <1>2, <3>1
  <2>2. \A k \in 1 .. j - 1 : a[k] = c[k]
    BY <1>1, <1>2, <1>3, <1>5
  <2> QED
    BY <2>1, <2>2, <1>0 DEF Before
<1> QED
  BY <1>3, <1>4, <1>5

\* The things of S, each with its rank.
Paired(S, f) == {<<f[x], x>> : x \in S}

\* Ranks of one length, that differ.
Ranks(S, f) == /\ f \in [S -> Seq(Int)]
               /\ \A x, y \in S : Len(f[x]) = Len(f[y]) /\ (f[x] = f[y] => x = y)

\* How many of S come before x.
Ahead(S, f, x) == {y \in S : Before(f[y], f[x])}

\* Each of S has a place of its own, and each place is taken.
LEMMA PlacesTaken ==
  ASSUME NEW S, IsFiniteSet(S), NEW f, Ranks(S, f), NEW i \in 1 .. Cardinality(S)
  PROVE  \E x \in S : Cardinality(Ahead(S, f, x)) = i - 1
<1> DEFINE n == Cardinality(S)
           place == [x \in S |-> Cardinality(Ahead(S, f, x)) + 1]
<1>1. n \in Nat
  BY FS_CardinalityType
<1>2. ASSUME NEW x \in S
      PROVE  /\ IsFiniteSet(Ahead(S, f, x)) /\ Ahead(S, f, x) \in SUBSET (S \ {x})
             /\ Cardinality(Ahead(S, f, x)) \in 0 .. n - 1
  <2>1. Ahead(S, f, x) \in SUBSET (S \ {x})
    BY RankStrict DEF Ahead, Ranks
  <2>2. IsFiniteSet(S \ {x}) /\ Cardinality(S \ {x}) = n - 1
    BY FS_RemoveElement
  <2>3. IsFiniteSet(Ahead(S, f, x)) /\ Cardinality(Ahead(S, f, x)) <= n - 1
    BY <2>1, <2>2, FS_Subset
  <2>4. Cardinality(Ahead(S, f, x)) \in Nat
    BY <2>3, FS_CardinalityType
  <2> QED
    BY <1>1, <2>1, <2>3, <2>4
<1>3. ASSUME NEW x \in S, NEW y \in S, Before(f[x], f[y])
      PROVE  Cardinality(Ahead(S, f, x)) < Cardinality(Ahead(S, f, y))
  <2>1. Ahead(S, f, x) \cup {x} \in SUBSET Ahead(S, f, y)
    BY <1>3, RankTransitive DEF Ahead, Ranks
  <2>2. Cardinality(Ahead(S, f, x) \cup {x}) = Cardinality(Ahead(S, f, x)) + 1
    BY <1>2, FS_AddElement
  <2>3. Cardinality(Ahead(S, f, x) \cup {x}) <= Cardinality(Ahead(S, f, y))
    BY <1>2, <2>1, FS_Subset
  <2>4. Cardinality(Ahead(S, f, x)) \in Nat /\ Cardinality(Ahead(S, f, y)) \in Nat
    BY <1>2, <1>1
  <2> QED
    BY <2>2, <2>3, <2>4
<1>4. place \in [S -> 1 .. n]
  BY <1>1, <1>2
<1>5. ASSUME NEW x \in S, NEW y \in S, place[x] = place[y]
      PROVE  x = y
  <2>1. SUFFICES ASSUME x # y PROVE FALSE
    OBVIOUS
  <2>2. Before(f[x], f[y]) \/ Before(f[y], f[x])
    BY <2>1, RankTotal DEF Ranks
  <2>3. Cardinality(Ahead(S, f, x)) \in Nat /\ Cardinality(Ahead(S, f, y)) \in Nat
    BY <1>2, <1>1
  <2>4. Cardinality(Ahead(S, f, x)) = Cardinality(Ahead(S, f, y))
    BY <1>5, <2>3
  <2> QED
    BY <1>3, <2>2, <2>3, <2>4
<1>6. place \in Injection(S, 1 .. n)
  BY <1>4, <1>5 DEF Injection, IsInjective
<1>7. IsFiniteSet(1 .. n) /\ Cardinality(1 .. n) = n
  BY <1>1, FS_Interval
<1>8. place \in Surjection(S, 1 .. n)
  <2> HIDE DEF place
  <2> QED
    BY <1>6, <1>7, FS_Injection
<1>9. PICK x \in S : place[x] = i
  BY <1>8 DEF Surjection
<1>10. Cardinality(Ahead(S, f, x)) + 1 = i /\ Cardinality(Ahead(S, f, x)) \in 0 .. n - 1
  BY <1>2, <1>9
<1> QED
  BY <1>1, <1>10

\* Nth finds one of S at every place, and the first place is before all others.
LEMMA NthOf ==
  ASSUME NEW S, IsFiniteSet(S), NEW f, Ranks(S, f), NEW i \in 1 .. Cardinality(S)
  PROVE  /\ Nth(Paired(S, f), i) \in S
         /\ i = 1 => \A y \in S \ {Nth(Paired(S, f), i)} : Before(f[Nth(Paired(S, f), i)], f[y])
<1> DEFINE E == Paired(S, f)
           Earlier(e) == {d \in E : Before(d[1], e[1])}
           At1(e) == Cardinality(Earlier(e)) = i - 1
           found == CHOOSE e \in E : At1(e)
<1>1. \A e \in E : e[2] \in S /\ e = <<f[e[2]], e[2]>> /\ e[1] = f[e[2]]
  BY DEF Paired
<1>2. \A x \in S : <<f[x], x>> \in E
  BY DEF Paired
<1>3. ASSUME NEW x \in S
      PROVE  /\ IsFiniteSet(Earlier(<<f[x], x>>)) /\ IsFiniteSet(Ahead(S, f, x))
             /\ Cardinality(Earlier(<<f[x], x>>)) = Cardinality(Ahead(S, f, x))
  <2> DEFINE pair == [y \in Ahead(S, f, x) |-> <<f[y], y>>]
             U == Earlier(<<f[x], x>>)
  <2>1. IsFiniteSet(Ahead(S, f, x))
    BY FS_Subset DEF Ahead
  <2>2. U = {d \in E : Before(d[1], f[x])}
    OBVIOUS
  <2>3. pair \in [Ahead(S, f, x) -> U]
    BY <1>2, <2>2 DEF Ahead
  <2>4. \A y, z \in Ahead(S, f, x) : pair[y] = pair[z] => y = z
    OBVIOUS
  <2>5. \A d \in U : d[2] \in Ahead(S, f, x) /\ pair[d[2]] = d
    <3> SUFFICES ASSUME NEW d \in U PROVE d[2] \in Ahead(S, f, x) /\ pair[d[2]] = d
      OBVIOUS
    <3>1. d \in E /\ Before(d[1], f[x])
      BY <2>2
    <3>2. d[2] \in S /\ d[1] = f[d[2]] /\ d = <<f[d[2]], d[2]>>
      BY <1>1, <3>1
    <3>3. d[2] \in Ahead(S, f, x)
      BY <3>1, <3>2 DEF Ahead
    <3> QED
      BY <3>2, <3>3
  <2> HIDE DEF pair, U
  <2>6. pair \in Bijection(Ahead(S, f, x), U)
    BY <2>3, <2>4, <2>5 DEF Bijection, Injection, Surjection, IsInjective
  <2> QED
    BY <2>1, <2>6, FS_Bijection DEF ExistsBijection, U
<1>4. PICK x \in S : Cardinality(Ahead(S, f, x)) = i - 1
  BY PlacesTaken
<1>5. <<f[x], x>> \in E /\ At1(<<f[x], x>>)
  BY <1>2, <1>3, <1>4
<1>6. found \in E /\ At1(found)
  <2> HIDE DEF E, At1
  <2> QED
    BY <1>5
<1>7. Nth(E, i) = found[2]
  BY DEF Nth
<1> HIDE DEF found
<1>8. found[2] \in S /\ found = <<f[found[2]], found[2]>>
  BY <1>1, <1>6
<1>9. ASSUME i = 1, NEW y \in S \ {found[2]}
      PROVE  Before(f[found[2]], f[y])
  <2>1. PICK z \in S : z = found[2]
    BY <1>8
  <2>2. Cardinality(Earlier(<<f[z], z>>)) = 0
    BY <1>6, <1>8, <1>9, <2>1
  <2>3. Ahead(S, f, z) = {}
    BY <1>3, <2>2, FS_EmptySet
  <2>4. ~Before(f[y], f[z])
    BY <2>3 DEF Ahead
  <2>5. f[y] # f[z] /\ Len(f[y]) = Len(f[z]) /\ f[y] \in Seq(Int) /\ f[z] \in Seq(Int)
    BY <2>1 DEF Ranks
  <2> QED
    BY <2>1, <2>4, <2>5, RankTotal
<1> QED
  BY <1>7, <1>8, <1>9

-----------------------------------------------------------------------------
(* The groups of a sample. *)

\* A group has processes, each with a rate, and their flows, at least one; its destinations
\* are theirs.
GroupOK(g) ==
    /\ DOMAIN g.members \subseteq Pids /\ DOMAIN g.members # {} /\ IsFiniteSet(DOMAIN g.members)
    /\ DOMAIN g.conns \subseteq Sockets /\ DOMAIN g.conns # {}
    /\ \A s \in DOMAIN g.conns : g.conns[s] \in Nat /\ s.pid \in DOMAIN g.members
    /\ DOMAIN g.dests = {s.ip : s \in DOMAIN g.conns}
    /\ g.rate \in Nat

\* Groups have no process in common.
GroupsOK(gs) ==
    /\ DOMAIN gs \subseteq Pids \cup Paths /\ IsFiniteSet(DOMAIN gs)
    /\ \A a \in DOMAIN gs : GroupOK(gs[a])
    /\ \A a, b \in DOMAIN gs : DOMAIN gs[a].members \cap DOMAIN gs[b].members # {} => a = b

\* The dashboards there can be.
Dashboards == [app : Nat, sel : Nat \ {0}, selDest : Nat \ {0}, byDest : BOOLEAN]

\* Every cursor is a position, and a dashboard is open or not.
CursorsOK ==
    /\ sortBy \in 1 .. 4 /\ selected \in Nat \ {0}
    /\ zoom # NoZoom => zoom \in Dashboards

\* The smallest of a group's pids is one of them.
LEMMA SmallestPid ==
  ASSUME NEW g, GroupOK(g)
  PROVE  Min(DOMAIN g.members) \in DOMAIN g.members /\ Min(DOMAIN g.members) \in Nat
<1>1. DOMAIN g.members \in SUBSET Nat /\ DOMAIN g.members # {}
  BY ViewAssumption DEF GroupOK
<1>2. \E x \in DOMAIN g.members : \A y \in DOMAIN g.members : x <= y
  BY <1>1, LeastNat
<1> QED
  BY <1>1, <1>2 DEF Min

\* Whatever groups are sorted by is a number.
LEMMA KeysAreNumbers ==
  ASSUME NEW g, GroupOK(g), sortBy \in 1 .. 4, NEW a \in Pids \cup Paths
  PROVE  SortKey(g, a) \in Int
<1>1. \A score : Band(score) \in Int
  BY DEF Band, Minimal, Low, Notable, Elevated
<1>2. Concern(g) \in Int
  BY <1>1 DEF Concern
<1>3. Exfil(g) \in Int
  BY <1>1 DEF Exfil, Minimal
<1>4. AppName[a] \in Int /\ g.rate \in Int
  BY ViewAssumption DEF GroupOK
<1>5. Sorts[sortBy] \in {"rate", "concern", "exfil", "app"}
  BY DEF Sorts
<1>6. CASE Sorts[sortBy] = "rate"
  BY <1>4, <1>6 DEF SortKey
<1>7. CASE Sorts[sortBy] = "concern"
  BY <1>2, <1>7 DEF SortKey
<1>8. CASE Sorts[sortBy] = "exfil"
  BY <1>3, <1>8 DEF SortKey
<1>9. CASE Sorts[sortBy] = "app"
  BY <1>4, <1>9 DEF SortKey
<1> QED
  BY <1>5, <1>6, <1>7, <1>8, <1>9

\* The flow that is picked is one of those asked for, and none of them is busier.
LEMMA BusiestIs ==
  ASSUME NEW g, GroupOK(g), NEW flows \in SUBSET DOMAIN g.conns, flows # {}
  PROVE  /\ Busiest(g, flows) \in flows /\ Busiest(g, flows) # NoFlow
         /\ \A s \in flows : g.conns[s] <= g.conns[Busiest(g, flows)]
<1> DEFINE f == [s \in flows |-> <<-g.conns[s], s.pid, LsofOrder[s]>>]
           b == Nth(Paired(flows, f), 1)
<1>1. flows \in SUBSET Sockets /\ IsFiniteSet(flows) /\ \A s \in flows : g.conns[s] \in Nat
  BY EgressAssumption, FS_Subset DEF GroupOK
<1>2. \A s \in flows : s.pid \in Int /\ LsofOrder[s] \in Int
  BY <1>1, EgressAssumption, ViewAssumption DEF Injection
<1>3. \A s, t \in flows : LsofOrder[s] = LsofOrder[t] => s = t
  BY <1>1, ViewAssumption DEF Injection, IsInjective
<1>4. \A s \in flows : f[s] \in Seq(Int) /\ Len(f[s]) = 3 /\ f[s][1] = -g.conns[s] /\ f[s][3] = LsofOrder[s]
                       /\ DOMAIN f[s] = 1 .. 3
  BY <1>1, <1>2
<1>5. Ranks(flows, f)
  BY <1>3, <1>4 DEF Ranks
<1>6. Cardinality(flows) \in Nat \ {0}
  BY <1>1, FS_CardinalityType, FS_EmptySet
<1>7. b \in flows /\ \A s \in flows \ {b} : Before(f[b], f[s])
  <2> HIDE DEF f
  <2>1. 1 \in 1 .. Cardinality(flows)
    BY <1>6
  <2> QED
    BY <1>1, <1>5, <2>1, NthOf
<1>8. Busiest(g, flows) = b
  <2>1. Paired(flows, f) = {<< <<-g.conns[s], s.pid, LsofOrder[s]>>, s>> : s \in flows}
    BY DEF Paired
  <2> QED
    BY <2>1 DEF Busiest
<1> HIDE DEF b
<1>9. ASSUME NEW s \in flows PROVE g.conns[s] <= g.conns[b]
  <2>1. g.conns[s] \in Nat /\ g.conns[b] \in Nat
    BY <1>1, <1>7
  <2>2. CASE s = b
    BY <2>1, <2>2
  <2>3. CASE s # b
    <3>1. Before(f[b], f[s])
      BY <1>7, <2>3
    <3>2. PICK i \in 1 .. 3 : f[b][i] < f[s][i] /\ \A j \in 1 .. i - 1 : f[b][j] = f[s][j]
      BY <1>4, <1>7, <3>1 DEF Before
    <3>3. f[b][1] = -g.conns[b] /\ f[s][1] = -g.conns[s]
      BY <1>4, <1>7
    <3>4. f[b][1] <= f[s][1]
      <4>1. CASE i = 1
        BY <2>1, <3>2, <3>3, <4>1
      <4>2. CASE i # 1
        <5>1. 1 \in 1 .. i - 1
          BY <4>2
        <5> QED
          BY <2>1, <3>2, <3>3, <5>1
      <4> QED
        BY <4>1, <4>2
    <3> HIDE DEF f
    <3> QED
      BY <2>1, <3>3, <3>4
  <2> QED
    BY <2>2, <2>3
<1>10. b # NoFlow
  BY <1>1, <1>7, ViewAssumption
<1> QED
  BY <1>7, <1>8, <1>9, <1>10

-----------------------------------------------------------------------------
(* The rows of the tree. *)

\* The rank of a row is that of its group, then its process and its flow.
RankOfRow(gs) == [row \in Rows(gs) |-> RowRank(gs[row[1]], row)]

\* What a row is.
RowOK(gs, row) ==
    /\ row[1] \in DOMAIN gs
    /\ \/ Len(row) = 1 /\ row = <<row[1]>>
       \/ Len(row) = 2 /\ row = <<row[1], row[2]>> /\ row[2] \in DOMAIN gs[row[1]].members
       \/ /\ Len(row) = 3 /\ row = <<row[1], row[2], row[3]>> /\ row[2] \in DOMAIN gs[row[1]].members
          /\ row[3] \in DOMAIN gs[row[1]].conns

\* Every row is an app's, one of its processes', or one of their flows'.
LEMMA RowsAre ==
  ASSUME NEW gs, NEW row \in Rows(gs)
  PROVE  RowOK(gs, row)
<1>1. ASSUME NEW r \in PidRows(gs)
      PROVE  r = <<r[1], r[2]>> /\ r[1] \in DOMAIN gs /\ r[2] \in DOMAIN gs[r[1]].members
  <2>1. PICK a \in DOMAIN gs : r \in {a} \X DOMAIN gs[a].members
    BY DEF PidRows
  <2> QED
    BY <2>1
<1>2. CASE row \in {<<a>> : a \in DOMAIN gs}
  <2>1. PICK a \in DOMAIN gs : row = <<a>>
    BY <1>2
  <2> QED
    BY <2>1 DEF RowOK
<1>3. CASE row \in PidRows(gs)
  <2>1. Len(<<row[1], row[2]>>) = 2
    OBVIOUS
  <2> QED
    BY <1>1, <1>3, <2>1 DEF RowOK
<1>4. CASE row \in FlowRows(gs)
  <2>1. PICK r \in PidRows(gs) : \E s \in FlowsOf(gs[r[1]], r[2]) : row = <<r[1], r[2], s>>
    BY <1>4 DEF FlowRows
  <2>2. PICK s \in DOMAIN gs[r[1]].conns : row = <<r[1], r[2], s>>
    BY <2>1 DEF FlowsOf
  <2>3. row[1] = r[1] /\ row[2] = r[2] /\ row[3] = s /\ Len(row) = 3
    BY <2>2
  <2> QED
    BY <1>1, <2>2, <2>3 DEF RowOK
<1> QED
  BY <1>2, <1>3, <1>4 DEF Rows

\* What a function makes of finitely many things is finite.
LEMMA ImageFinite ==
  ASSUME NEW S, IsFiniteSet(S), NEW h
  PROVE  IsFiniteSet({h[x] : x \in S})
<1> DEFINE f == [x \in S |-> h[x]]
<1>1. f \in Surjection(S, {h[x] : x \in S})
  BY DEF Surjection
<1> QED
  BY <1>1, FS_Surjection

\* The rows are finitely many.
LEMMA RowsFinite ==
  ASSUME NEW gs, GroupsOK(gs)
  PROVE  IsFiniteSet(Rows(gs))
<1>1. IsFiniteSet({<<a>> : a \in DOMAIN gs})
  <2> DEFINE h == [a \in DOMAIN gs |-> <<a>>]
  <2>1. IsFiniteSet({h[a] : a \in DOMAIN gs})
    BY ImageFinite DEF GroupsOK
  <2>2. {h[a] : a \in DOMAIN gs} = {<<a>> : a \in DOMAIN gs}
    OBVIOUS
  <2> QED
    BY <2>1, <2>2
<1>2. ASSUME NEW a \in DOMAIN gs PROVE IsFiniteSet({a} \X DOMAIN gs[a].members)
  BY FS_Singleton, FS_Product DEF GroupsOK, GroupOK
<1>3. IsFiniteSet(PidRows(gs))
  <2> DEFINE as == {b \in DOMAIN gs : AppName[b] \in expanded}
             sets == {{a} \X DOMAIN gs[a].members : a \in as}
  <2>1. IsFiniteSet(as)
    BY FS_Subset DEF GroupsOK
  <2>2. IsFiniteSet(sets)
    <3> DEFINE h == [a \in as |-> {a} \X DOMAIN gs[a].members]
    <3>1. {h[a] : a \in as} = sets
      OBVIOUS
    <3> HIDE DEF as, h, sets
    <3>2. IsFiniteSet({h[a] : a \in as})
      BY <2>1, ImageFinite
    <3> QED
      BY <3>1, <3>2
  <2>3. \A T \in sets : IsFiniteSet(T)
    BY <1>2
  <2>4. PidRows(gs) = UNION sets
    BY DEF PidRows
  <2> HIDE DEF sets
  <2> QED
    BY <2>2, <2>3, <2>4, FS_UNION
<1>4. IsFiniteSet(FlowRows(gs))
  <2> DEFINE rs == {q \in PidRows(gs) : q[2] \in expandedPID}
             Flows(r) == {<<r[1], r[2], s>> : s \in FlowsOf(gs[r[1]], r[2])}
             sets == {Flows(r) : r \in rs}
  <2>1. IsFiniteSet(rs)
    BY <1>3, FS_Subset
  <2>2. IsFiniteSet(sets)
    <3> DEFINE h == [r \in rs |-> Flows(r)]
    <3>1. {h[r] : r \in rs} = sets
      OBVIOUS
    <3> HIDE DEF rs, h, sets
    <3>2. IsFiniteSet({h[r] : r \in rs})
      BY <2>1, ImageFinite
    <3> QED
      BY <3>1, <3>2
  <2>3. ASSUME NEW r \in rs PROVE IsFiniteSet(Flows(r))
    <3>1. r[1] \in DOMAIN gs
      <4>1. PICK a \in DOMAIN gs : r \in {a} \X DOMAIN gs[a].members
        BY <2>3 DEF PidRows
      <4> QED
        BY <4>1
    <3>2. IsFiniteSet(FlowsOf(gs[r[1]], r[2]))
      <4>1. FlowsOf(gs[r[1]], r[2]) \in SUBSET Sockets
        BY <3>1 DEF FlowsOf, GroupsOK, GroupOK
      <4> QED
        BY <4>1, EgressAssumption, FS_Subset
    <3> DEFINE h == [s \in FlowsOf(gs[r[1]], r[2]) |-> <<r[1], r[2], s>>]
    <3>3. {h[s] : s \in FlowsOf(gs[r[1]], r[2])} = Flows(r)
      OBVIOUS
    <3>4. IsFiniteSet({h[s] : s \in FlowsOf(gs[r[1]], r[2])})
      BY <3>2, ImageFinite
    <3> QED
      BY <3>3, <3>4
  <2>4. FlowRows(gs) = UNION sets
    BY DEF FlowRows
  <2>5. \A T \in sets : IsFiniteSet(T)
    <3> HIDE DEF Flows, rs
    <3> QED
      BY <2>3
  <2> HIDE DEF sets
  <2> QED
    BY <2>2, <2>4, <2>5, FS_UNION
<1> QED
  BY <1>1, <1>3, <1>4, FS_Union DEF Rows

\* The ranks of groups are numbers, and differ by the smallest pid.
LEMMA GroupsRanked ==
  ASSUME NEW gs, GroupsOK(gs), CursorsOK, NEW a \in DOMAIN gs
  PROVE  /\ SortKey(gs[a], a) \in Int /\ Min(DOMAIN gs[a].members) \in Int
         /\ \A b \in DOMAIN gs : Min(DOMAIN gs[a].members) = Min(DOMAIN gs[b].members) => a = b
<1>1. GroupOK(gs[a]) /\ a \in Pids \cup Paths
  BY DEF GroupsOK
<1>2. SortKey(gs[a], a) \in Int
  BY <1>1, KeysAreNumbers DEF CursorsOK
<1>3. \A b \in DOMAIN gs : GroupOK(gs[b])
  BY DEF GroupsOK
<1>4. \A b \in DOMAIN gs : Min(DOMAIN gs[b].members) \in DOMAIN gs[b].members
                           /\ Min(DOMAIN gs[b].members) \in Nat
  BY <1>3, SmallestPid
<1> QED
  BY <1>2, <1>4 DEF GroupsOK

\* Rows have ranks of their own.
LEMMA RowsRanked ==
  ASSUME NEW gs, GroupsOK(gs), CursorsOK
  PROVE  Ranks(Rows(gs), RankOfRow(gs))
<1> DEFINE third(row) == IF Len(row) = 1 THEN -1 ELSE row[2]
           fourth(row) == IF Len(row) < 3 THEN -1 ELSE LsofOrder[row[3]]
<1>1. ASSUME NEW row \in Rows(gs)
      PROVE  RowRank(gs[row[1]], row) = <<SortKey(gs[row[1]], row[1]), Min(DOMAIN gs[row[1]].members),
                                          third(row), fourth(row)>>
  BY DEF RowRank
<1>2. ASSUME NEW row \in Rows(gs)
      PROVE  /\ RowOK(gs, row) /\ third(row) \in Int /\ fourth(row) \in Int
             /\ Len(row) # 1 => third(row) = row[2] /\ row[2] \in Nat
             /\ Len(row) = 1 => third(row) = -1
             /\ Len(row) = 3 => fourth(row) = LsofOrder[row[3]] /\ row[3] \in Sockets /\ fourth(row) \in Nat
             /\ Len(row) # 3 => fourth(row) = -1
  <2>1. RowOK(gs, row)
    BY RowsAre
  <2>2. GroupOK(gs[row[1]])
    BY <2>1 DEF RowOK, GroupsOK
  <2>3. Len(row) # 1 => row[2] \in Nat
    BY <2>1, <2>2, ViewAssumption DEF RowOK, GroupOK
  <2>4. Len(row) = 3 => row[3] \in Sockets
    BY <2>1, <2>2 DEF RowOK, GroupOK
  <2>5. Len(row) = 3 => LsofOrder[row[3]] \in Nat
    BY <2>4, ViewAssumption DEF Injection
  <2>6. Len(row) \in {1, 2, 3}
    BY <2>1 DEF RowOK
  <2> QED
    BY <2>1, <2>3, <2>4, <2>5, <2>6
<1>3. \A row \in Rows(gs) : /\ SortKey(gs[row[1]], row[1]) \in Int /\ Min(DOMAIN gs[row[1]].members) \in Int
                            /\ row[1] \in DOMAIN gs
  BY <1>2, GroupsRanked DEF RowOK
<1> HIDE DEF third, fourth
<1>4. ASSUME NEW row \in Rows(gs)
      PROVE  RowRank(gs[row[1]], row) \in Seq(Int) /\ Len(RowRank(gs[row[1]], row)) = 4
  <2> DEFINE k == SortKey(gs[row[1]], row[1])
             m == Min(DOMAIN gs[row[1]].members)
  <2>1. k \in Int /\ m \in Int /\ third(row) \in Int /\ fourth(row) \in Int
    BY <1>2, <1>3
  <2>2. RowRank(gs[row[1]], row) = <<k, m, third(row), fourth(row)>>
    BY <1>1
  <2> HIDE DEF k, m
  <2> QED
    BY <2>1, <2>2
<1>5. ASSUME NEW x \in Rows(gs), NEW y \in Rows(gs), RowRank(gs[x[1]], x) = RowRank(gs[y[1]], y)
      PROVE  x = y
  <2>1. /\ Min(DOMAIN gs[x[1]].members) = Min(DOMAIN gs[y[1]].members)
        /\ third(x) = third(y) /\ fourth(x) = fourth(y)
    BY <1>1, <1>5
  <2>2. x[1] = y[1]
    BY <1>3, <2>1, GroupsRanked
  <2>3. Len(x) \in {1, 2, 3} /\ Len(y) \in {1, 2, 3}
    BY <1>2 DEF RowOK
  <2>4. (Len(x) = 1) = (Len(y) = 1) /\ (Len(x) = 3) = (Len(y) = 3)
    BY <1>2, <2>1
  <2>5. Len(x) # 1 => x[2] = y[2]
    BY <1>2, <2>1, <2>4
  <2>6. Len(x) = 3 => x[3] = y[3]
    BY <1>2, <2>1, <2>4, ViewAssumption DEF Injection, IsInjective
  <2> QED
    BY <1>2, <2>2, <2>3, <2>4, <2>5, <2>6 DEF RowOK
<1> QED
  BY <1>4, <1>5 DEF Ranks, RankOfRow

\* The row under the cursor is one of them.
LEMMA SelectedIsRow ==
  ASSUME GroupsOK(groups), CursorsOK, selected \in OnScreen
  PROVE  SelectedRow \in Rows(groups) /\ RowOK(groups, SelectedRow)
<1>1. Paired(Rows(groups), RankOfRow(groups))
      = {<<RowRank(groups[row[1]], row), row>> : row \in Rows(groups)}
  BY DEF Paired, RankOfRow
<1>2. Nth(Paired(Rows(groups), RankOfRow(groups)), selected) \in Rows(groups)
  BY RowsFinite, RowsRanked, NthOf DEF OnScreen
<1>3. SelectedRow \in Rows(groups)
  BY <1>1, <1>2 DEF SelectedRow
<1> QED
  BY <1>3, RowsAre

\* The app of the dashboard is on show, unless it has vanished.
LEMMA ZoomedIsShown ==
  ASSUME GroupsOK(groups), CursorsOK, ~Vanished
  PROVE  Zoomed \in Namesakes /\ Zoomed \in DOMAIN groups
<1> DEFINE f == [a \in Namesakes |-> GroupRank(groups[a], a)]
<1>1. Namesakes \in SUBSET DOMAIN groups /\ Namesakes # {} /\ IsFiniteSet(Namesakes)
  BY FS_Subset DEF Namesakes, Vanished, GroupsOK
<1>2. Ranks(Namesakes, f)
  <2>1. \A a \in Namesakes : GroupRank(groups[a], a) \in Seq(Int) /\ Len(GroupRank(groups[a], a)) = 2
                             /\ GroupRank(groups[a], a)[2] = Min(DOMAIN groups[a].members)
    BY <1>1, GroupsRanked DEF GroupRank
  <2>2. \A a, b \in Namesakes : GroupRank(groups[a], a) = GroupRank(groups[b], b) => a = b
    BY <1>1, <2>1, GroupsRanked
  <2> QED
    BY <2>1, <2>2 DEF Ranks
<1>3. 1 \in 1 .. Cardinality(Namesakes)
  BY <1>1, FS_CardinalityType, FS_EmptySet
<1>4. Paired(Namesakes, f) = {<<GroupRank(groups[a], a), a>> : a \in Namesakes}
  BY DEF Paired
<1> HIDE DEF f
<1>5. Nth(Paired(Namesakes, f), 1) \in Namesakes
  BY <1>1, <1>2, <1>3, NthOf
<1> QED
  BY <1>1, <1>4, <1>5 DEF Zoomed

-----------------------------------------------------------------------------
(* The groups that are made. *)

\* A rate is a number.
LEMMA RateNat ==
  ASSUME NEW K, NEW base, NEW now, Totals(base, K), Totals(now, K), NEW k
  PROVE  Rate(base, now, k) \in Nat
<1>1. At(now, k) \in Nat
  BY DEF At, Totals
<1>2. CASE k \in DOMAIN base
  <2>1. base[k] \in Nat
    BY <1>2 DEF Totals
  <2> QED
    BY <1>1, <1>2, <2>1 DEF Rate, RateOut
<1>3. CASE k \notin DOMAIN base
  BY <1>3 DEF Rate
<1> QED
  BY <1>2, <1>3

\* ps, which ends a sample, makes groups.
LEMMA PsGroups ==
  ASSUME RateInv, proc \in [Pids -> Paths \cup {NoPath}], NEW ok \in BOOLEAN, Ps(ok)
  PROVE  GroupsOK(shown')
<1> DEFINE path == IF ok THEN proc ELSE [p \in Pids |-> NoPath]
           keys == {Key(s) : s \in conns}
           live == {p \in Pids : path[p] # Own /\ \E s \in conns : s.pid = p}
           apps == {AppOf(path, p) : p \in live}
           rate == [p \in live |-> Rate(prev, snap.procs, p)]
           connRate == [k \in keys |-> Rate(prevConn, snap.conns, k)]
           Members1(a) == {p \in live : AppOf(path, p) = a}
           Flows(a) == [s \in {c \in conns : c.pid \in Members1(a)} |-> connRate[Key(s)]]
           groups1 == [a \in apps |-> Group(IF a \in Paths THEN a ELSE NoPath, Members1(a), rate, Flows(a))]
<1>1. stage = "ps" /\ shown' = groups1
  BY DEF Ps
<1>2. /\ conns \subseteq Sockets /\ IsFiniteSet(conns)
      /\ Totals(snap.procs, Pids) /\ Totals(snap.conns, Keys)
      /\ Totals(prev, Pids) /\ Totals(prevConn, Keys)
  BY <1>1, EgressAssumption, FS_Subset DEF RateInv, TotalsInv
<1>3. path \in [Pids -> Paths \cup {NoPath}]
  OBVIOUS
<1> HIDE DEF path
<1>4. IsFiniteSet(live) /\ live \subseteq Pids
  <2> DEFINE h == [s \in conns |-> s.pid]
  <2>1. live \in SUBSET {h[s] : s \in conns}
    OBVIOUS
  <2>2. IsFiniteSet(conns) /\ live \subseteq Pids
    BY <1>2
  <2> HIDE DEF h, live
  <2>3. IsFiniteSet({h[s] : s \in conns})
    BY <2>2, ImageFinite
  <2> QED
    BY <2>1, <2>2, <2>3, FS_Subset
<1>5. apps \subseteq Pids \cup Paths
  BY <1>3, <1>4 DEF AppOf
<1>6. IsFiniteSet(apps)
  <2> DEFINE h == [p \in live |-> AppOf(path, p)]
  <2>1. {h[p] : p \in live} = apps
    OBVIOUS
  <2> HIDE DEF live, h, apps
  <2>2. IsFiniteSet({h[p] : p \in live})
    BY <1>4, ImageFinite
  <2> QED
    BY <2>1, <2>2
<1>7. \A p \in live : rate[p] \in Nat
  <2>1. \A p : Rate(prev, snap.procs, p) \in Nat
    BY <1>2, RateNat
  <2> QED
    BY <2>1
<1>8. \A s \in conns : connRate[Key(s)] \in Nat
  <2>1. \A k : Rate(prevConn, snap.conns, k) \in Nat
    BY <1>2, RateNat
  <2> QED
    BY <2>1
<1>9. ASSUME NEW a \in apps
      PROVE  /\ GroupOK(groups1[a]) /\ DOMAIN groups1[a].members = Members1(a)
  <2> DEFINE g == groups1[a]
  <2>1. /\ g.members = [p \in Members1(a) |-> rate[p]] /\ g.conns = Flows(a)
        /\ g.dests = [ip \in {s.ip : s \in DOMAIN Flows(a)} |-> Lookup(ip)]
        /\ g.rate = Total(rate, Members1(a))
    BY DEF Group
  <2>2. Members1(a) \in SUBSET live /\ IsFiniteSet(Members1(a))
    <3>1. Members1(a) \in SUBSET live
      OBVIOUS
    <3> QED
      BY <1>4, <3>1, FS_Subset
  <2>3. PICK p \in Members1(a) : TRUE
    OBVIOUS
  <2>4. PICK s \in conns : s.pid = p
    BY <2>3
  <2>5. DOMAIN Flows(a) = {c \in conns : c.pid \in Members1(a)}
    OBVIOUS
  <2>6. s \in DOMAIN Flows(a)
    BY <2>3, <2>4
  <2>7. \A c \in DOMAIN Flows(a) : Flows(a)[c] = connRate[Key(c)] /\ c \in conns /\ c.pid \in Members1(a)
    OBVIOUS
  <2>8. Total(rate, Members1(a)) \in Nat
    <3>1. Total(rate, Members1(a)) = SumOf(rate, Members1(a))
      BY DEF Total, SumOf
    <3> HIDE DEF rate, Members1
    <3>2. \A q \in Members1(a) : rate[q] \in Nat
      BY <1>7, <2>2
    <3> QED
      BY <2>2, <3>1, <3>2, SumLaws
  <2> HIDE DEF groups1, Members1, Flows, rate, connRate
  <2>9. DOMAIN g.members = Members1(a) /\ DOMAIN g.conns = DOMAIN Flows(a)
    BY <2>1
  <2>10. \A c \in DOMAIN g.conns : g.conns[c] \in Nat /\ c.pid \in DOMAIN g.members /\ c \in Sockets
    BY <1>2, <1>8, <2>1, <2>7, <2>9
  <2>11. DOMAIN g.dests = {c.ip : c \in DOMAIN g.conns}
    BY <2>1, <2>9
  <2> QED
    BY <1>4, <2>1, <2>2, <2>3, <2>6, <2>8, <2>9, <2>10, <2>11 DEF GroupOK
<1>10. ASSUME NEW a \in apps, NEW b \in apps, NEW p \in Members1(a), p \in Members1(b)
       PROVE  a = b
  BY <1>10
<1>11. DOMAIN groups1 = apps
  OBVIOUS
<1> HIDE DEF groups1, apps, Members1
<1>12. \A a, b \in apps : DOMAIN groups1[a].members \cap DOMAIN groups1[b].members # {} => a = b
  BY <1>9, <1>10
<1> QED
  BY <1>1, <1>5, <1>6, <1>9, <1>11, <1>12 DEF GroupsOK

-----------------------------------------------------------------------------
(* The cursor. *)

\* A cursor is clamped to a position, and where there is something to one of that.
LEMMA ClampedIs ==
  ASSUME NEW i \in Int, NEW n \in Nat
  PROVE  /\ Clamped(i, n) \in Nat \ {0}
         /\ n # 0 => Clamped(i, n) <= n
<1>1. Min({i, n}) \in {i, n} /\ Min({i, n}) <= i /\ Min({i, n}) <= n
  <2>1. \E x \in {i, n} : \A y \in {i, n} : x <= y
    OBVIOUS
  <2> QED
    BY <2>1 DEF Min
<1> QED
  BY <1>1 DEF Clamped

\* What the queue holds of samples are groups.
QueueOK == /\ IsSeq(queue)
           /\ \A i \in 1 .. Len(queue) : queue[i].type = "groups" => GroupsOK(queue[i].groups)

\* What is sampled, queued and shown is whole, and the cursors are positions.
CursorInv == /\ proc \in [Pids -> Paths \cup {NoPath}]
             /\ GroupsOK(shown) /\ GroupsOK(groups) /\ QueueOK /\ CursorsOK

\* What a step does to the queue.
LEMMA QueueMoves ==
  ASSUME [Next]_allVars
  PROVE  \/ queue' = queue
         \/ queue # << >> /\ queue' = Tail(queue)
         \/ \E ev : /\ queue' = Append(queue, ev)
                    /\ ev.type = "groups" => stage = "post" /\ ev.groups = shown
<1>1. CASE UNCHANGED allVars
  BY <1>1 DEF allVars, consoleVars
<1>2. CASE Sampler
  <2>1. CASE PostSample
    BY <2>1 DEF PostSample, Posted
  <2>2. CASE Tick \/ Warm \/ (Sample(TRUE) /\ UNCHANGED <<nameVars, consoleVars>>)
    BY <2>2 DEF Tick, Warm, consoleVars
  <2>3. CASE Spend("failures") /\ Sample(FALSE)
             /\ UNCHANGED <<nameVars, loopVars, queue, paneVars, messageVars>>
    BY <2>3
  <2> QED
    BY <1>2, <2>1, <2>2, <2>3 DEF Sampler
<1>3. CASE \E s \in Senders : PostMessage(s)
  <2>1. PICK s \in Senders : PostMessage(s)
    BY <1>3
  <2> DEFINE ev == [type |-> "message", from |-> s, n |-> spent'.messages]
  <2>2. queue' = queue \/ queue' = Append(queue, ev)
    BY <2>1 DEF PostMessage, Posted
  <2>3. ev.type # "groups"
    OBVIOUS
  <2> QED
    BY <2>2, <2>3
<1>4. CASE \E k \in Keystrokes : Press(k)
  <2>1. PICK k \in Keystrokes : Press(k)
    BY <1>4
  <2> DEFINE ev == [type |-> "key", key |-> k]
  <2>2. queue' = Append(queue, ev) /\ ev.type # "groups"
    BY <2>1 DEF Press
  <2> QED
    BY <2>2
<1>5. CASE Loop
  BY <1>5 DEF Loop, SwitchFace, Quit, InspectionKey, ZoomKey, TreeKey, FindingsKey,
              Inspection, ShowSample, ShowMessage, Key1, Next1
<1>6. CASE World
  BY <1>6 DEF World
<1>7. CASE Deadline \/ Failure
  BY <1>7 DEF Deadline, Failure
<1> QED
  BY <1>1, <1>2, <1>3, <1>4, <1>5, <1>6, <1>7 DEF Next

\* What is queued stays whole.
LEMMA QueueKept ==
  ASSUME QueueOK, GroupsOK(shown), [Next]_allVars
  PROVE  QueueOK'
<1>1. CASE queue' = queue
  BY <1>1 DEF QueueOK
<1>2. CASE queue # << >> /\ queue' = Tail(queue)
  <2>1. /\ IsSeq(queue') /\ Len(queue) \in Nat \ {0} /\ Len(queue') = Len(queue) - 1
        /\ \A i \in 1 .. Len(queue) - 1 : queue'[i] = queue[i + 1]
    BY <1>2, SeqTail DEF QueueOK
  <2> QED
    BY <2>1 DEF QueueOK
<1>3. ASSUME NEW ev, queue' = Append(queue, ev), ev.type = "groups" => ev.groups = shown
      PROVE  QueueOK'
  <2>1. /\ IsSeq(queue') /\ Len(queue) \in Nat /\ Len(queue') = Len(queue) + 1
        /\ queue'[Len(queue) + 1] = ev
        /\ \A i \in 1 .. Len(queue) : queue'[i] = queue[i]
    BY <1>3, SeqAppend DEF QueueOK
  <2>2. ASSUME NEW i \in 1 .. Len(queue'), queue'[i].type = "groups"
        PROVE  GroupsOK(queue'[i].groups)
    <3>1. CASE i = Len(queue) + 1
      BY <1>3, <2>1, <2>2, <3>1
    <3>2. CASE i \in 1 .. Len(queue)
      BY <2>1, <2>2, <3>2 DEF QueueOK
    <3> QED
      BY <2>1, <3>1, <3>2
  <2> QED
    BY <2>1, <2>2 DEF QueueOK
<1> QED
  BY <1>1, <1>2, <1>3, QueueMoves

\* Only these change what the view of the console is about.
LEMMA OnlyCursor ==
  ASSUME [Next]_allVars
  PROVE  UNCHANGED exfilVars \/ ZoomKey \/ TreeKey \/ ShowSample
<1>1. ASSUME UNCHANGED consoleVars
      PROVE  UNCHANGED exfilVars
  BY <1>1 DEF consoleVars, paneVars
<1>2. CASE UNCHANGED allVars
  BY <1>1, <1>2 DEF allVars
<1>3. CASE Sampler
  BY <1>1, <1>3 DEF Sampler, Tick, Warm, PostSample, paneVars
<1>4. CASE \E s \in Senders : PostMessage(s)
  BY <1>4 DEF PostMessage, paneVars
<1>5. CASE \E k \in Keystrokes : Press(k)
  BY <1>5 DEF Press, paneVars
<1>6. CASE Loop
  BY <1>6 DEF Loop, SwitchFace, Quit, InspectionKey, FindingsKey, Inspection, ShowMessage, paneVars
<1>7. CASE World
  BY <1>7 DEF World, paneVars
<1>8. CASE Deadline \/ Failure
  BY <1>8 DEF Deadline, Failure
<1> QED
  BY <1>2, <1>3, <1>4, <1>5, <1>6, <1>7, <1>8 DEF Next

\* A group has a process and a destination.
LEMMA BoxesAre ==
  ASSUME NEW g, GroupOK(g)
  PROVE  MemberCount(g) \in Nat \ {0} /\ DestCount(g) \in Nat \ {0}
<1>1. MemberCount(g) \in Nat \ {0}
  BY FS_CardinalityType, FS_EmptySet DEF GroupOK, MemberCount
<1>2. IsFiniteSet(DOMAIN g.conns)
  BY EgressAssumption, FS_Subset DEF GroupOK
<1>3. IsFiniteSet(DOMAIN g.dests) /\ DOMAIN g.dests # {}
  <2> DEFINE h == [s \in DOMAIN g.conns |-> s.ip]
  <2>1. IsFiniteSet({h[s] : s \in DOMAIN g.conns})
    BY <1>2, ImageFinite
  <2>2. {h[s] : s \in DOMAIN g.conns} = DOMAIN g.dests
    BY DEF GroupOK
  <2> QED
    BY <2>1, <2>2 DEF GroupOK
<1>4. DestCount(g) \in Nat \ {0}
  BY <1>3, FS_CardinalityType, FS_EmptySet DEF DestCount
<1> QED
  BY <1>1, <1>4

\* No key takes the cursors of the dashboard from their positions.
LEMMA DashboardKept ==
  ASSUME GroupsOK(groups), CursorsOK, zoom # NoZoom, NEW k, InDashboard(k)
  PROVE  groups' = groups /\ CursorsOK'
<1>1. UNCHANGED <<groups, treeVars>> /\ UNCHANGED <<sortBy, selected>>
  BY DEF InDashboard, treeVars
<1>2. zoom \in Dashboards
  BY DEF CursorsOK, Dashboards
<1>3. CASE zoom' = NoZoom
  BY <1>1, <1>3 DEF CursorsOK
<1>4. CASE ~Vanished /\ k \notin {"escape", "zoom"}
  <2> DEFINE g == groups[Zoomed]
             z == Reclamped(g)
  <2>1. zoom' = CASE k = "up" -> Moved(g, z, -1)
                  [] k = "down" -> Moved(g, z, 1)
                  [] k = "focus" -> [z EXCEPT !.byDest = ~@]
                  [] OTHER -> z
    BY <1>4 DEF InDashboard
  <2>2. MemberCount(g) \in Nat \ {0} /\ DestCount(g) \in Nat \ {0}
    BY <1>4, ZoomedIsShown, BoxesAre DEF GroupsOK
  <2> HIDE DEF g
  <2>3. \A i \in Int : /\ Clamped(i, MemberCount(g)) \in Nat \ {0}
                       /\ Clamped(i, DestCount(g)) \in Nat \ {0}
    BY <2>2, ClampedIs
  <2>4. z = [zoom EXCEPT !.sel = Clamped(zoom.sel, MemberCount(g)), !.selDest = Clamped(zoom.selDest, DestCount(g))]
    BY DEF Reclamped
  <2>5. zoom.sel \in Int /\ zoom.selDest \in Int
    BY <1>2 DEF Dashboards
  <2>6. z \in Dashboards
    BY <1>2, <2>3, <2>4, <2>5 DEF Dashboards
  <2> HIDE DEF z
  <2>7. ASSUME NEW by \in {-1, 1} PROVE Moved(g, z, by) \in Dashboards
    <3>1. z.sel + by \in Int /\ z.selDest + by \in Int
      BY <2>6 DEF Dashboards
    <3>2. /\ Clamped(z.sel + by, MemberCount(g)) \in Nat \ {0}
          /\ Clamped(z.selDest + by, DestCount(g)) \in Nat \ {0}
      BY <2>3, <3>1
    <3> QED
      BY <2>6, <3>2 DEF Moved, Dashboards
  <2>8. [z EXCEPT !.byDest = ~@] \in Dashboards
    BY <2>6 DEF Dashboards
  <2>9. zoom' \in Dashboards
    <3>1. Moved(g, z, -1) \in Dashboards /\ Moved(g, z, 1) \in Dashboards
      BY <2>7
    <3> QED
      BY <2>1, <2>6, <2>8, <3>1
  <2> QED
    BY <1>1, <2>9 DEF CursorsOK, Dashboards
<1> QED
  BY <1>1, <1>3, <1>4 DEF InDashboard

\* Nor does a key take the tree's.
LEMMA TreeKept ==
  ASSUME GroupsOK(groups), CursorsOK, NEW k, InTree(k)
  PROVE  groups' = groups /\ CursorsOK'
<1>1. CASE UNCHANGED exfilVars
  BY <1>1 DEF exfilVars, treeVars, CursorsOK
<1>2. CASE \E by \in {-1, 1} : MoveInTree(by)
  <2>1. PICK by \in {-1, 1} : MoveInTree(by)
    BY <1>2
  <2>2. Cardinality(Rows(groups)) \in Nat
    BY RowsFinite, FS_CardinalityType
  <2>3. selected + by \in Int
    BY DEF CursorsOK
  <2>4. Clamped(selected + by, Cardinality(Rows(groups))) \in Nat \ {0}
    BY <2>2, <2>3, ClampedIs
  <2> QED
    BY <2>1, <2>4 DEF MoveInTree, CursorsOK
<1>3. CASE SortTree
  <2>1. (sortBy % 4) + 1 \in 1 .. 4
    BY DEF CursorsOK
  <2> QED
    BY <1>3, <2>1 DEF SortTree, CursorsOK
<1>4. CASE OnRow(k)
  <2>1. selected \in OnScreen /\ SelectedRow[1] \in DOMAIN groups
    BY <1>4, SelectedIsRow DEF OnRow, RowOK
  <2>2. CASE \E open \in BOOLEAN : Unfold(open, SelectedRow)
    BY <2>2 DEF Unfold, CursorsOK
  <2>3. CASE UNCHANGED exfilVars
    BY <2>3, <1>1
  <2>4. CASE /\ zoom' = [app |-> AppName[SelectedRow[1]], sel |-> 1, selDest |-> 1, byDest |-> FALSE]
             /\ UNCHANGED <<groups, treeVars, inspectVars>>
    <3>1. AppName[SelectedRow[1]] \in Nat
      BY <2>1, ViewAssumption DEF GroupsOK
    <3>2. zoom' \in Dashboards
      BY <2>4, <3>1 DEF Dashboards
    <3> QED
      BY <2>4, <3>2 DEF treeVars, CursorsOK, Dashboards
  <2> QED
    BY <1>4, <2>2, <2>3, <2>4 DEF OnRow
<1> QED
  BY <1>1, <1>2, <1>3, <1>4 DEF InTree

\* What is on show stays whole and the cursors positions.
LEMMA CursorsKept ==
  ASSUME CursorInv, [Next]_allVars
  PROVE  GroupsOK(groups') /\ CursorsOK'
<1>1. CASE UNCHANGED exfilVars
  BY <1>1 DEF exfilVars, treeVars, CursorInv, CursorsOK
<1>2. CASE ZoomKey
  BY <1>2, DashboardKept DEF ZoomKey, CursorInv
<1>3. CASE TreeKey
  BY <1>3, TreeKept DEF TreeKey, CursorInv
<1>4. CASE ShowSample
  <2>1. CASE paused
    BY <1>1, <1>4, <2>1 DEF ShowSample
  <2>2. CASE ~paused
    <3>1. queue # << >> /\ queue[1].type = "groups" /\ WithGroups(queue[1].groups)
      BY <1>4, <2>2 DEF ShowSample, Next1
    <3>2. Len(queue) \in Nat \ {0}
      BY <3>1, SeqTail DEF CursorInv, QueueOK
    <3>3. GroupsOK(queue[1].groups)
      BY <3>1, <3>2 DEF CursorInv, QueueOK
    <3>4. /\ groups' = queue[1].groups /\ selected' \in {1, selected}
          /\ UNCHANGED <<sortBy, zoom>>
      BY <3>1 DEF WithGroups
    <3> QED
      BY <3>3, <3>4 DEF CursorInv, CursorsOK
  <2> QED
    BY <2>1, <2>2
<1> QED
  BY <1>1, <1>2, <1>3, <1>4, OnlyCursor

\* So does what is sampled.
LEMMA SampledKept ==
  ASSUME RateInv, CursorInv, [Next]_allVars
  PROVE  proc' \in [Pids -> Paths \cup {NoPath}] /\ GroupsOK(shown')
<1>0. proc \in [Pids -> Paths \cup {NoPath}] /\ GroupsOK(shown)
  BY DEF CursorInv
<1>1. CASE UNCHANGED <<proc, shown>>
  BY <1>0, <1>1
<1>2. CASE UNCHANGED egressVars
  BY <1>1, <1>2 DEF egressVars, machineVars, monitorVars
<1>3. CASE UNCHANGED <<machineVars, monitorVars>>
  BY <1>1, <1>3 DEF machineVars, monitorVars
<1>4. ASSUME NEW ok \in BOOLEAN, Sample(ok)
      PROVE  proc' \in [Pids -> Paths \cup {NoPath}] /\ GroupsOK(shown')
  <2>1. CASE Nettop(ok)
    BY <1>1, <2>1 DEF Nettop
  <2>2. CASE Lsof(ok)
    BY <1>1, <2>2 DEF Lsof, machineVars
  <2>3. CASE Ps(ok)
    <3>1. proc' = proc
      BY <2>3 DEF Ps, machineVars
    <3> QED
      BY <1>0, <2>3, <3>1, PsGroups
  <2> QED
    BY <1>4, <2>1, <2>2, <2>3 DEF Sample
<1>5. CASE Exits \/ Closes \/ Activity
  <2>1. UNCHANGED shown
    BY <1>5 DEF Exits, Closes, Activity, Alone, monitorVars
  <2>2. \/ UNCHANGED proc
        \/ \E p \in Pids, path \in Paths \cup {NoPath} : proc' = [proc EXCEPT ![p] = path]
    BY <1>5 DEF Exits, Closes, Activity, Alone, Exec, Exit, Connect, Disconnect, Send
  <2> QED
    BY <1>0, <2>1, <2>2
<1> QED
  BY <1>2, <1>3, <1>4, <1>5, OnlySamples

\* CursorInv is kept.
LEMMA CursorKept ==
  ASSUME RateInv, CursorInv, [Next]_allVars
  PROVE  CursorInv'
<1>1. GroupsOK(groups') /\ CursorsOK'
  BY CursorsKept
<1>2. proc' \in [Pids -> Paths \cup {NoPath}] /\ GroupsOK(shown')
  BY SampledKept
<1>3. QueueOK'
  BY QueueKept DEF CursorInv
<1> QED
  BY <1>1, <1>2, <1>3 DEF CursorInv

\* It holds before anything was sampled, queued or shown.
LEMMA CursorStart ==
  ASSUME ConsoleInit
  PROVE  CursorInv
<1>1. proc \in [Pids -> Paths \cup {NoPath}]
  BY EgressAssumption DEF ConsoleInit, EgressInit
<1>2. GroupsOK(None)
  <2>1. DOMAIN None = {}
    BY DEF None
  <2> QED
    BY <2>1, FS_EmptySet DEF GroupsOK
<1>3. shown = None /\ groups = None /\ queue = << >> /\ sortBy = 1 /\ selected = 1 /\ zoom = NoZoom
  BY DEF ConsoleInit, EgressInit, ViewInit
<1>4. QueueOK
  BY <1>3, SeqEmpty DEF QueueOK
<1>5. CursorsOK
  BY <1>3 DEF CursorsOK
<1> QED
  BY <1>1, <1>2, <1>3, <1>4, <1>5 DEF CursorInv

\* The key `i`, once it is handled, is handled by the dashboard or the tree.
LEMMA InspectTakes ==
  ASSUME IsSeq(queue), InspectPressed, [Next]_allVars
  PROVE  /\ (ZoomKey /\ zoom # NoZoom) \/ (TreeKey /\ zoom = NoZoom)
         /\ queue[1].key = "inspect" /\ probe = "off"
<1>1. /\ queue # << >> /\ queue' = Tail(queue) /\ mode = "exfil" /\ view = NoView
      /\ queue[1].type = "key" /\ queue[1].key = "inspect"
  BY DEF InspectPressed
<1>2. queue' # queue /\ \A ev : queue' # Append(queue, ev)
  BY <1>1, SeqTail, SeqAppend
<1>3. CASE UNCHANGED allVars
  BY <1>2, <1>3 DEF allVars, consoleVars
<1>4. CASE Sampler
  BY <1>2, <1>4 DEF Sampler, Tick, Warm, PostSample, Posted, consoleVars
<1>5. CASE \E s \in Senders : PostMessage(s)
  BY <1>2, <1>5 DEF PostMessage, Posted
<1>6. CASE \E k \in Keystrokes : Press(k)
  BY <1>2, <1>6 DEF Press
<1>7. CASE World
  BY <1>2, <1>7 DEF World
<1>8. CASE Deadline \/ Failure
  BY <1>2, <1>8 DEF Deadline, Failure
<1>9. CASE Loop
  <2>1. ZoomKey \/ TreeKey
    BY <1>1, <1>2, <1>9 DEF Loop, SwitchFace, Quit, InspectionKey, FindingsKey, Inspection,
                            ShowSample, ShowMessage, Key1, Next1
  <2> QED
    BY <1>1, <2>1 DEF ZoomKey, TreeKey, Key1, Next1
<1> QED
  BY <1>3, <1>4, <1>5, <1>6, <1>7, <1>8, <1>9 DEF Next

\* What it does is about what is highlighted.
InspectsIt ==
    IF Highlighted = {} THEN probe' = "off"
    ELSE /\ probe' = "open" /\ target'.flow \in Highlighted
         /\ \E a \in DOMAIN groups :
               /\ target'.app = AppName[a] /\ Highlighted \subseteq DOMAIN groups[a].conns
               /\ \A s \in Highlighted : groups[a].conns[s] <= groups[a].conns[target'.flow]

\* To inspect the busiest flow of what is highlighted is that.
LEMMA InspectsBusiest ==
  ASSUME GroupsOK(groups), probe = "off", NEW a \in DOMAIN groups,
         Highlighted \subseteq DOMAIN groups[a].conns,
         Inspecting(a, Busiest(groups[a], Highlighted))
  PROVE  InspectsIt
<1>1. CASE Highlighted = {}
  <2>1. UNCHANGED inspectVars
    BY <1>1 DEF Inspecting, Busiest
  <2> QED
    BY <1>1, <2>1 DEF inspectVars, InspectsIt
<1>2. CASE Highlighted # {}
  <2> DEFINE b == Busiest(groups[a], Highlighted)
  <2>1. /\ b \in Highlighted /\ b # NoFlow
        /\ \A s \in Highlighted : groups[a].conns[s] <= groups[a].conns[b]
    BY <1>2, BusiestIs DEF GroupsOK
  <2>2. target' = [app |-> AppName[a], flow |-> b] /\ probe' = "open"
    BY <2>1 DEF Inspecting, Request
  <2> HIDE DEF b
  <2> QED
    BY <1>2, <2>1, <2>2 DEF InspectsIt
<1> QED
  BY <1>1, <1>2

\* The dashboard, whose cursors are clamped before the key is handled as they were when it
\* was drawn.
LEMMA DashboardInspects ==
  ASSUME GroupsOK(groups), CursorsOK, zoom # NoZoom, probe = "off", InDashboard("inspect")
  PROVE  InspectsIt
<1>1. CASE Vanished
  <2>1. UNCHANGED inspectVars
    BY <1>1 DEF InDashboard
  <2>2. Highlighted = {}
    BY <1>1 DEF Highlighted
  <2> QED
    BY <2>1, <2>2 DEF inspectVars, InspectsIt
<1>2. CASE ~Vanished
  <2> DEFINE a == Zoomed
             g == groups[a]
             z == Reclamped(g)
  <2>1. Inspecting(a, ZoomFlow(g, z))
    BY <1>2 DEF InDashboard
  <2>2. a \in DOMAIN groups /\ GroupOK(g)
    BY <1>2, ZoomedIsShown DEF GroupsOK
  <2>3. MemberCount(g) \in Nat \ {0} /\ DestCount(g) \in Nat \ {0}
    BY <2>2, BoxesAre
  <2>4. Highlighted = {s \in DOMAIN g.conns :
                          IF zoom.byDest THEN s.ip = ZoomDest(g, Clamped(zoom.selDest, DestCount(g)))
                          ELSE s.pid = ZoomedMember(g, Clamped(zoom.sel, MemberCount(g)))}
    BY <1>2 DEF Highlighted
  <2> HIDE DEF g, a
  <2>5. zoom \in Dashboards
    BY DEF CursorsOK, Dashboards
  <2>6. /\ z.byDest = zoom.byDest /\ z.sel = Clamped(zoom.sel, MemberCount(g))
        /\ z.selDest = Clamped(zoom.selDest, DestCount(g))
    BY <2>5 DEF Reclamped, Dashboards
  <2>7. /\ z.sel \in Nat /\ z.sel <= MemberCount(g) /\ z.selDest \in Nat /\ z.selDest <= DestCount(g)
    <3>1. zoom.sel \in Int /\ zoom.selDest \in Int
      BY <2>5 DEF Dashboards
    <3>2. /\ Clamped(zoom.sel, MemberCount(g)) \in Nat /\ Clamped(zoom.sel, MemberCount(g)) <= MemberCount(g)
          /\ Clamped(zoom.selDest, DestCount(g)) \in Nat /\ Clamped(zoom.selDest, DestCount(g)) <= DestCount(g)
      BY <2>3, <3>1, ClampedIs
    <3> QED
      BY <2>6, <3>2
  <2> HIDE DEF z
  <2>8. ZoomFlow(g, z) = Busiest(g, Highlighted)
    <3>1. CASE zoom.byDest
      <4>1. Highlighted = {s \in DOMAIN g.conns : s.ip = ZoomDest(g, z.selDest)}
        BY <2>4, <2>6, <3>1
      <4>2. ~(z.selDest > DestCount(g))
        BY <2>3, <2>7
      <4> QED
        BY <2>6, <3>1, <4>1, <4>2 DEF ZoomFlow
    <3>2. CASE ~zoom.byDest
      <4>1. Highlighted = FlowsOf(g, ZoomedMember(g, z.sel))
        BY <2>4, <2>6, <3>2 DEF FlowsOf
      <4>2. ~(z.sel > MemberCount(g))
        BY <2>3, <2>7
      <4> QED
        BY <2>6, <3>2, <4>1, <4>2 DEF ZoomFlow
    <3> QED
      BY <3>1, <3>2
  <2>9. Highlighted \subseteq DOMAIN g.conns
    BY <2>4
  <2> QED
    BY <2>1, <2>2, <2>8, <2>9, InspectsBusiest DEF g
<1> QED
  BY <1>1, <1>2

\* The tree, whose cursor may be below its last row.
LEMMA TreeInspects ==
  ASSUME GroupsOK(groups), CursorsOK, zoom = NoZoom, probe = "off", InTree("inspect")
  PROVE  InspectsIt
<1>1. CASE selected \notin OnScreen
  <2>1. UNCHANGED inspectVars
    BY <1>1 DEF InTree, OnRow
  <2>2. Highlighted = {}
    BY <1>1 DEF Highlighted
  <2> QED
    BY <2>1, <2>2 DEF inspectVars, InspectsIt
<1>2. CASE selected \in OnScreen
  <2> DEFINE row == SelectedRow
             a == row[1]
  <2>1. Inspecting(a, RowFlow(row))
    BY <1>2 DEF InTree, OnRow
  <2>2. RowOK(groups, row)
    BY <1>2, SelectedIsRow
  <2>3. Highlighted = CASE Len(row) = 1 -> {}
                        [] Len(row) = 2 -> {s \in DOMAIN groups[a].conns : s.pid = row[2]}
                        [] Len(row) = 3 -> {row[3]}
    BY <1>2 DEF Highlighted
  <2>4. a \in DOMAIN groups /\ GroupOK(groups[a])
    BY <2>2 DEF RowOK, GroupsOK
  <2> HIDE DEF row
  <2>5. CASE Len(row) = 1
    <3>1. RowFlow(row) = NoFlow /\ Highlighted = {}
      BY <2>3, <2>5 DEF RowFlow
    <3> QED
      BY <2>1, <3>1 DEF Inspecting, inspectVars, InspectsIt
  <2>6. CASE Len(row) = 2
    <3>1. RowFlow(row) = Busiest(groups[a], FlowsOf(groups[a], row[2]))
      BY <2>6 DEF RowFlow
    <3>2. Highlighted = FlowsOf(groups[a], row[2])
      BY <2>3, <2>6 DEF FlowsOf
    <3>3. Highlighted \subseteq DOMAIN groups[a].conns
      BY <3>2 DEF FlowsOf
    <3> QED
      BY <2>1, <2>4, <3>1, <3>2, <3>3, InspectsBusiest
  <2>7. CASE Len(row) = 3
    <3>1. RowFlow(row) = row[3] /\ Highlighted = {row[3]}
      BY <2>3, <2>7 DEF RowFlow
    <3>2. row[3] \in DOMAIN groups[a].conns
      BY <2>2, <2>7 DEF RowOK
    <3>3. row[3] # NoFlow /\ groups[a].conns[row[3]] \in Nat
      BY <2>4, <3>2, ViewAssumption DEF GroupOK
    <3>4. target' = [app |-> AppName[a], flow |-> row[3]] /\ probe' = "open"
      BY <2>1, <3>1, <3>3 DEF Inspecting, Request
    <3> QED
      BY <2>4, <3>1, <3>2, <3>3, <3>4 DEF InspectsIt
  <2> QED
    BY <2>2, <2>5, <2>6, <2>7 DEF RowOK
<1> QED
  BY <1>1, <1>2

\* Whatever samples have come and whatever has gone since the cursor was placed: the key
\* `i` inspects the busiest flow of what is highlighted, and nothing without any.
THEOREM TheHighlightedIsInspected == Spec => InspectsTheHighlighted
<1> DEFINE Inv == RateInv /\ RingsInv /\ CursorInv
<1>1. ConsoleInit => Inv
  BY RateStart, RingsStart, CursorStart DEF ConsoleInit
<1>2. Inv /\ [Next]_allVars => Inv'
  BY RatesKept, RingsKept, CursorKept
<1>3. Inv /\ [Next]_allVars =>
        [InspectPressed =>
            IF Highlighted = {} THEN probe' = "off"
            ELSE /\ probe' = "open" /\ target'.flow \in Highlighted
                 /\ \E a \in DOMAIN groups :
                       /\ target'.app = AppName[a] /\ Highlighted \subseteq DOMAIN groups[a].conns
                       /\ \A s \in Highlighted : groups[a].conns[s] <= groups[a].conns[target'.flow]
        ]_allVars
  <2> SUFFICES ASSUME Inv, [Next]_allVars, InspectPressed
               PROVE  InspectsIt
    BY DEF InspectsIt
  <2>1. GroupsOK(groups) /\ CursorsOK /\ IsSeq(queue)
    BY DEF CursorInv, QueueOK
  <2>2. CASE ZoomKey /\ zoom # NoZoom
    <3>1. InDashboard("inspect") /\ probe = "off"
      BY <2>1, <2>2, InspectTakes DEF ZoomKey
    <3> QED
      BY <2>1, <2>2, <3>1, DashboardInspects
  <2>3. CASE TreeKey /\ zoom = NoZoom
    <3>1. InTree("inspect") /\ probe = "off"
      BY <2>1, <2>3, InspectTakes DEF TreeKey
    <3> QED
      BY <2>1, <2>3, <3>1, TreeInspects
  <2> QED
    BY <2>1, <2>2, <2>3, InspectTakes
<1> QED
  BY <1>1, <1>2, <1>3, PTL DEF Spec, InspectsTheHighlighted

-----------------------------------------------------------------------------
(* A quit key that was pressed gets nearer.                                   *)
(*                                                                            *)
(* QuitEnds is liveness, of a number of steps that grows with the queue and   *)
(* with MaxPackets: it stays with TLC.  Proved is that nothing puts the key   *)
(* off: neither what is posted meanwhile, nor the events before it, each of   *)
(* which may open an inspection, nor the packets that an inspection reads.    *)

QuitKey == [type |-> "key", key |-> "quit"]

\* The most steps that the loop has left in an inspection: to open, then for each packet
\* one to take it and one to read what has come, and one to conclude.
ProbeLeft ==
    CASE probe = "off"     -> 0
      [] probe = "open"    -> 4 + 2 * MaxPackets
      [] probe = "capture" -> 1 + 2 * (MaxPackets - Len(wire))
                                + (IF pend = << >> THEN 1 ELSE 0) + (IF late THEN 0 ELSE 1)

\* The most it has left to have handled the i-th event of the queue.
LoopLeft(i) == i * (5 + 2 * MaxPackets) + ProbeLeft

\* No step puts a queued quit key off, and each of the loop's brings it nearer.
QuitNears ==
    \A i \in 1 .. Len(queue) : queue[i] = QuitKey =>
        \/ ui' = "done"
        \/ \E j \in 1 .. Len(queue') :
              /\ queue'[j] = QuitKey
              /\ LoopLeft(j)' \in Nat /\ LoopLeft(j)' <= LoopLeft(i)
              /\ Loop \/ Deadline => LoopLeft(j)' < LoopLeft(i)

\* The queue is a sequence.
LEMMA QueueIsSeq ==
  ASSUME IsSeq(queue), [Next]_allVars
  PROVE  IsSeq(queue')
<1>1. CASE queue' = queue
  BY <1>1
<1>2. CASE queue # << >> /\ queue' = Tail(queue)
  BY <1>2, SeqTail
<1>3. ASSUME NEW ev, queue' = Append(queue, ev)
      PROVE  IsSeq(queue')
  BY <1>3, SeqAppend
<1> QED
  BY <1>1, <1>2, <1>3, QueueMoves

\* The loop inspects, or takes the first event, which may open an inspection; if that is
\* the quit key the console is over.
LEMMA LoopTakes ==
  ASSUME PaneInv, Next, Loop
  PROVE  \/ Probe /\ queue' = queue
         \/ /\ queue # << >> /\ queue' = Tail(queue)
            /\ probe = "off" /\ probe' \in {"off", "open"}
            /\ queue[1] = QuitKey => ui' = "done"
<1>1. CASE Inspection
  BY <1>1 DEF Inspection
<1>2. ASSUME NEW type, Next1(type), queue[1] = QuitKey => ui' = "done"
      PROVE  /\ queue # << >> /\ queue' = Tail(queue)
             /\ probe = "off" /\ probe' \in {"off", "open"}
             /\ queue[1] = QuitKey => ui' = "done"
  <2>1. probe = "off" /\ queue # << >> /\ queue' = Tail(queue)
    BY <1>2 DEF Next1
  <2>2. CASE UNCHANGED inspectVars \/ ClosePane
    <3>1. probe' = probe
      BY <2>2 DEF inspectVars, ClosePane
    <3> QED
      BY <1>2, <2>1, <3>1
  <2>3. CASE \E app, flow : Request(app, flow)
    <3>1. probe' = "open"
      BY <2>3 DEF Request
    <3> QED
      BY <1>2, <2>1, <3>1
  <2>4. CASE Probe \/ Elapse \/ CaptureFault \/ \E pkt \in Traffic : Arrive(pkt)
    BY <2>1, <2>4 DEF Probe, OpenCapture, CaptureFrom, Read, Take, Ended, Elapse, CaptureFault,
                      OpenFails, FilterFails, ReadFails, Arrive
  <2> QED
    BY <1>2, <2>1, <2>2, <2>3, <2>4, OnlyInspections
<1>3. QuitKey.type = "key" /\ QuitKey.key = "quit"
  BY DEF QuitKey
<1>4. CASE Quit
  BY <1>2, <1>4 DEF Quit, Key1
<1>5. CASE SwitchFace
  <2>1. Next1("key") /\ queue[1].key = "tab"
    BY <1>5 DEF SwitchFace, Key1
  <2> QED
    BY <1>2, <1>3, <2>1
<1>6. CASE InspectionKey \/ ZoomKey \/ TreeKey \/ FindingsKey
  <2>1. Next1("key") /\ queue[1].key # "quit"
    BY <1>6 DEF InspectionKey, ZoomKey, TreeKey, FindingsKey, Key1
  <2> QED
    BY <1>2, <1>3, <2>1
<1>7. CASE ShowSample \/ ShowMessage
  <2>1. \E type \in {"groups", "message"} : Next1(type) /\ queue[1].type # "key"
    BY <1>7 DEF ShowSample, ShowMessage, Next1
  <2> QED
    BY <1>2, <1>3, <2>1
<1> QED
  BY <1>1, <1>4, <1>5, <1>6, <1>7 DEF Loop

\* What the others do: they post, a packet arrives, or the inspection is over sooner.
LEMMA OthersPost ==
  ASSUME Next, ~Loop
  PROVE  /\ queue' = queue \/ \E ev : queue' = Append(queue, ev)
         /\ UNCHANGED <<probe, wire, pend, late>> \/ Elapse \/ CaptureFault
         /\ Deadline => Elapse /\ queue' = queue
<1>1. Deadline => Elapse /\ queue' = queue
  BY DEF Deadline
<1>2. ASSUME UNCHANGED paneVars
      PROVE  UNCHANGED <<probe, wire, pend, late>>
  BY <1>2 DEF paneVars, inspectVars, captureVars
<1>3. CASE Sampler
  <2>1. CASE PostSample
    BY <1>1, <1>2, <2>1 DEF PostSample, Posted
  <2>2. CASE Tick \/ Warm
    BY <1>1, <1>2, <2>2 DEF Tick, Warm
  <2>3. CASE Sample(TRUE) /\ UNCHANGED <<nameVars, consoleVars>>
    BY <1>1, <1>2, <2>3 DEF consoleVars
  <2>4. CASE Spend("failures") /\ Sample(FALSE)
             /\ UNCHANGED <<nameVars, loopVars, queue, paneVars, messageVars>>
    BY <1>1, <1>2, <2>4
  <2> QED
    BY <1>3, <2>1, <2>2, <2>3, <2>4 DEF Sampler
<1>4. CASE (\E s \in Senders : PostMessage(s)) \/ \E k \in Keystrokes : Press(k)
  BY <1>1, <1>2, <1>4 DEF PostMessage, Posted, Press
<1>5. CASE World
  <2>1. queue' = queue
    BY <1>5 DEF World
  <2>2. UNCHANGED paneVars \/ \E pkt \in Traffic : Arrive(pkt)
    BY <1>5 DEF World
  <2>3. UNCHANGED <<probe, wire, pend, late>>
    BY <1>2, <2>2 DEF Arrive
  <2> QED
    BY <1>1, <2>1, <2>3
<1>6. CASE Deadline \/ Failure
  BY <1>1, <1>6 DEF Deadline, Failure
<1> QED
  BY <1>3, <1>4, <1>5, <1>6 DEF Next

\* An inspection has a number of steps left, whatever has arrived for it.
LEMMA ProbeIsNat ==
  ASSUME PaneInv
  PROVE  /\ ProbeLeft \in Nat /\ ProbeLeft <= 4 + 2 * MaxPackets
         /\ probe = "off" => ProbeLeft = 0
         /\ probe = "open" => ProbeLeft = 4 + 2 * MaxPackets
<1>1. probe \in {"off", "open", "capture"} /\ Len(wire) \in Nat /\ Len(wire) <= MaxPackets /\ MaxPackets \in Nat
  <2>1. wire \in Seq(Traffic)
    BY DEF PaneInv, InspectTypeOK
  <2> QED
    BY <2>1, InspectAssumption DEF PaneInv, InspectTypeOK
<1>2. CASE probe = "off"
  BY <1>1, <1>2 DEF ProbeLeft
<1>3. CASE probe = "open"
  BY <1>1, <1>3 DEF ProbeLeft
<1>4. CASE probe = "capture"
  <2>1. \E r, d \in {0, 1} : ProbeLeft = 1 + 2 * (MaxPackets - Len(wire)) + r + d
    BY <1>4 DEF ProbeLeft
  <2> QED
    BY <1>1, <1>4, <2>1
<1> QED
  BY <1>1, <1>2, <1>3, <1>4

LEMMA ProbeIsNatNext ==
  (PaneInv => /\ ProbeLeft \in Nat /\ ProbeLeft <= 4 + 2 * MaxPackets
              /\ probe = "off" => ProbeLeft = 0
              /\ probe = "open" => ProbeLeft = 4 + 2 * MaxPackets)'
<1>1. PaneInv => /\ ProbeLeft \in Nat /\ ProbeLeft <= 4 + 2 * MaxPackets
                 /\ probe = "off" => ProbeLeft = 0
                 /\ probe = "open" => ProbeLeft = 4 + 2 * MaxPackets
  BY ProbeIsNat
<1> QED
  BY <1>1, PTL

\* Each step of an inspection is one less that it has left.
LEMMA ProbeGoesOn ==
  ASSUME PaneInv, PaneInv', Probe \/ Elapse \/ CaptureFault
  PROVE  ProbeLeft' < ProbeLeft
<1>0. /\ ProbeLeft \in Nat /\ (probe = "open" => ProbeLeft = 4 + 2 * MaxPackets)
      /\ wire \in Seq(Traffic) /\ pend \in Seq(Traffic)
      /\ Len(wire) \in Nat /\ Len(wire) <= MaxPackets /\ MaxPackets \in Nat
  <2>1. wire \in Seq(Traffic) /\ pend \in Seq(Traffic)
    BY DEF PaneInv, InspectTypeOK
  <2> QED
    BY <2>1, ProbeIsNat, InspectAssumption DEF PaneInv, InspectTypeOK
<1>1. CASE OpenCapture \/ FilterFails
  <2>1. /\ probe = "open" /\ probe' = "capture" /\ pend' = << >> /\ late' = FALSE /\ wire' = << >>
    BY <1>1 DEF OpenCapture, FilterFails, CaptureFrom
  <2>2. Len(wire') = 0
    BY <2>1
  <2>3. ProbeLeft' = 1 + 2 * (MaxPackets - 0) + 1 + 1
    BY <2>1, <2>2 DEF ProbeLeft
  <2> QED
    BY <1>0, <2>1, <2>3
<1>2. ASSUME probe # "off", probe' = "off"
      PROVE  ProbeLeft' < ProbeLeft
  <2>1. ProbeLeft' = 0
    BY <1>2 DEF ProbeLeft
  <2>2. CASE probe = "open"
    BY <1>0, <2>1, <2>2
  <2>3. CASE probe = "capture"
    <3>1. \E r, d \in {0, 1} : ProbeLeft = 1 + 2 * (MaxPackets - Len(wire)) + r + d
      BY <2>3 DEF ProbeLeft
    <3> QED
      BY <1>0, <2>1, <3>1
  <2> QED
    BY <1>2, <2>2, <2>3 DEF PaneInv, InspectTypeOK
<1>3. CASE Read
  <2>1. /\ probe = "capture" /\ probe' = "capture" /\ pend = << >> /\ pend' # << >>
        /\ wire' = wire /\ late' = late
    BY <1>3 DEF Read
  <2>2. \E d \in {0, 1} : /\ ProbeLeft = 1 + 2 * (MaxPackets - Len(wire)) + 1 + d
                          /\ ProbeLeft' = 1 + 2 * (MaxPackets - Len(wire)) + 0 + d
    BY <2>1 DEF ProbeLeft
  <2> QED
    BY <1>0, <2>2
<1>4. CASE Take
  <2>1. /\ probe = "capture" /\ probe' = "capture" /\ pend # << >> /\ late' = late
        /\ wire' = Append(wire, pend[1])
    BY <1>4 DEF Take
  <2>2. Len(wire') = Len(wire) + 1
    BY <1>0, <2>1
  <2>3. \E d, r \in {0, 1} : /\ ProbeLeft = 1 + 2 * (MaxPackets - Len(wire)) + 0 + d
                             /\ ProbeLeft' = 1 + 2 * (MaxPackets - (Len(wire) + 1)) + r + d
    BY <2>1, <2>2 DEF ProbeLeft
  <2> QED
    BY <1>0, <2>3
<1>5. CASE Elapse
  <2>1. /\ probe = "capture" /\ probe' = "capture" /\ ~late /\ late' /\ pend' = pend /\ wire' = wire
    BY <1>5 DEF Elapse
  <2>2. \E r \in {0, 1} : /\ ProbeLeft = 1 + 2 * (MaxPackets - Len(wire)) + r + 1
                          /\ ProbeLeft' = 1 + 2 * (MaxPackets - Len(wire)) + r + 0
    BY <2>1 DEF ProbeLeft
  <2> QED
    BY <1>0, <2>2
<1>6. CASE Ended \/ OpenFails \/ ReadFails
  <2>1. probe # "off" /\ probe' = "off"
    BY <1>6 DEF Ended, OpenFails, ReadFails, Conclude
  <2> QED
    BY <1>2, <2>1
<1> QED
  BY <1>1, <1>3, <1>4, <1>5, <1>6 DEF Probe, CaptureFault

\* What is left of one event, added to the same number for the others.
LEMMA SumsDescend ==
  ASSUME NEW K \in Nat, NEW p \in Nat, NEW q \in Nat
  PROVE  /\ K + q \in Nat
         /\ q < p => K + q < K + p /\ K + q <= K + p
         /\ q = p => K + q <= K + p
OBVIOUS

\* Nothing that is pressed, posted, sampled or captured puts off a quit key that is in the
\* queue, and every event the loop handles and every step of an inspection brings it nearer,
\* however many packets arrive meanwhile: of QuitEnds, all but that a finite number of steps
\* ends (RunConsole's loop, tcell's queue, liveInspector.Inspect).
THEOREM NothingDelaysQuit == Spec => [][QuitNears]_allVars
<1> DEFINE Inv == PaneInv /\ IsSeq(queue)
<1>1. ConsoleInit => Inv
  BY PaneInit, SeqEmpty DEF ConsoleInit
<1>2. Inv /\ [Next]_allVars => Inv'
  BY OnlyInspections, InspectionKeepsPane, QueueIsSeq
<1>3. Inv /\ Inv' /\ [Next]_allVars => [QuitNears]_allVars
  <2>1. SUFFICES ASSUME Inv, Inv', Next, NEW i \in 1 .. Len(queue), queue[i] = QuitKey, ~(ui' = "done")
                 PROVE  \E j \in 1 .. Len(queue') :
                           /\ queue'[j] = QuitKey
                           /\ LoopLeft(j)' \in Nat /\ LoopLeft(j)' <= LoopLeft(i)
                           /\ Loop \/ Deadline => LoopLeft(j)' < LoopLeft(i)
    BY DEF QuitNears
  <2>0. /\ ProbeLeft \in Nat /\ ProbeLeft' \in Nat /\ ProbeLeft' <= 4 + 2 * MaxPackets
        /\ MaxPackets \in Nat /\ i \in Nat \ {0}
    BY <2>1, ProbeIsNat, ProbeIsNatNext, InspectAssumption
  <2>a. ASSUME NEW j \in Nat
        PROVE  LoopLeft(j)' = j * (5 + 2 * MaxPackets) + ProbeLeft'
    BY DEF LoopLeft
  <2>b. LoopLeft(i) = i * (5 + 2 * MaxPackets) + ProbeLeft
    BY DEF LoopLeft
  \* It stays where it is.
  <2>c. ASSUME queue' = queue \/ \E ev : queue' = Append(queue, ev)
        PROVE  i \in 1 .. Len(queue') /\ queue'[i] = QuitKey
    BY <2>1, <2>c, SeqAppend
  <2>d. PICK K \in Nat : K = i * (5 + 2 * MaxPackets)
    BY <2>0
  <2>e. K \in Nat /\ LoopLeft(i) = K + ProbeLeft /\ LoopLeft(i)' = K + ProbeLeft'
    BY <2>0, <2>a, <2>b, <2>d
  <2>f. ProbeLeft \in Nat /\ ProbeLeft' \in Nat
    BY <2>0
  <2>2. CASE Probe /\ queue' = queue
    <3>1. ProbeLeft' < ProbeLeft
      BY <2>1, <2>2, ProbeGoesOn
    <3>2. LoopLeft(i)' \in Nat /\ LoopLeft(i)' < LoopLeft(i)
      BY <2>e, <2>f, <3>1, SumsDescend
    <3>3. LoopLeft(i)' <= LoopLeft(i)
      BY <2>e, <2>f, <3>1, SumsDescend
    <3> QED
      BY <2>2, <2>c, <3>2, <3>3
  \* It moves up, by more than an inspection can take.
  <2>3. CASE /\ Loop
             /\ queue # << >> /\ queue' = Tail(queue)
             /\ probe = "off" /\ probe' \in {"off", "open"}
             /\ queue[1] = QuitKey => ui' = "done"
    <3>1. i # 1
      BY <2>1, <2>3
    <3>2. i - 1 \in 1 .. Len(queue') /\ queue'[i - 1] = QuitKey /\ i - 1 \in Nat
      BY <2>1, <2>3, <3>1, SeqTail
    <3>3. PICK L \in Nat : L = (i - 1) * (5 + 2 * MaxPackets)
      BY <2>0, <3>2
    <3>4. L = K - (5 + 2 * MaxPackets) /\ LoopLeft(i - 1)' = L + ProbeLeft'
      BY <2>0, <2>a, <2>d, <3>2, <3>3
    <3>5. LoopLeft(i - 1)' \in Nat /\ LoopLeft(i - 1)' < LoopLeft(i) /\ LoopLeft(i - 1)' <= LoopLeft(i)
      BY <2>0, <2>e, <3>4
    <3> QED
      BY <3>2, <3>5
  <2>4. CASE ~Loop
    <3>1. /\ queue' = queue \/ \E ev : queue' = Append(queue, ev)
          /\ UNCHANGED <<probe, wire, pend, late>> \/ Elapse \/ CaptureFault
          /\ Deadline => Elapse
      BY <2>1, <2>4, OthersPost
    <3>2. Elapse \/ CaptureFault => ProbeLeft' < ProbeLeft
      BY <2>1, ProbeGoesOn
    <3>3. UNCHANGED <<probe, wire, pend, late>> => ProbeLeft' = ProbeLeft
      BY DEF ProbeLeft
    <3>5. LoopLeft(i)' \in Nat /\ LoopLeft(i)' <= LoopLeft(i)
      <4>1. CASE ProbeLeft' < ProbeLeft
        BY <2>e, <2>f, <4>1, SumsDescend
      <4>2. CASE ProbeLeft' = ProbeLeft
        BY <2>e, <2>f, <4>2, SumsDescend
      <4> QED
        BY <3>1, <3>2, <3>3, <4>1, <4>2
    <3>6. Deadline => LoopLeft(i)' < LoopLeft(i)
      BY <2>e, <2>f, <3>1, <3>2, SumsDescend
    <3> QED
      BY <2>4, <2>c, <3>1, <3>5, <3>6
  <2> QED
    BY <2>1, <2>2, <2>3, <2>4, LoopTakes
<1> QED
  BY <1>1, <1>2, <1>3, PTL DEF Spec
=============================================================================
