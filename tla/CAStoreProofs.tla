--------------------------- MODULE CAStoreProofs ----------------------------
(***************************************************************************)
(* TrustOnce for any number of starts, any number of retries and every     *)
(* fault.                                                                  *)
(***************************************************************************)
EXTENDS CAStore, TLAPS

\* The process that created the key file and has not finished with it.
Owns(p) == pc[p] \in {"key", "openCert", "cert", "undo"}

PC == {"start", "loadKey", "gate", "key", "openCert", "cert", "undo", "retry", "retryKey",
       "done"}

Types == /\ cert \in FileState /\ keyf \in FileState
         /\ pc \in [Procs -> PC]
         /\ seen \in [Procs -> FileState]
         /\ result \in [Procs -> {NoResult, Failed} \cup Procs]

OneOwner == \A p, q \in Procs : Owns(p) /\ Owns(q) => p = q

OwnersKey == \A p \in Procs : /\ Owns(p) => keyf # Absent
                              /\ pc[p] \in {"openCert", "cert"} => keyf = p

\* A certificate that was written is final: its key is there, and nobody is
\* writing any more.
CertFinal == cert \in Procs => keyf = cert /\ \A p \in Procs : ~Owns(p)

SeenFinal == \A p \in Procs : seen[p] \in Procs => cert = seen[p]

Inv == Types /\ OneOwner /\ OwnersKey /\ CertFinal /\ SeenFinal /\ TrustOnce

\* The constants that are not processes.
LEMMA Names == /\ Absent \notin Procs /\ Torn \notin Procs
               /\ NoResult \notin Procs /\ Failed \notin Procs
               /\ Absent # Torn
BY CAStoreAssumption

\* A step that changes neither file, makes nobody an owner and returns nothing
\* new keeps the invariant.
LEMMA Quiet ==
    ASSUME Inv, UNCHANGED <<cert, keyf>>, Types',
           \A p \in Procs : /\ pc'[p] = pc[p] \/ ~Owns(p)'
                            /\ seen'[p] = seen[p] \/ seen'[p] = cert
                            /\ result'[p] \in Procs =>
                                  result'[p] = result[p] \/ (result'[p] = seen[p] /\ keyf = seen[p])
    PROVE  Inv'
BY DEF Inv, OneOwner, OwnersKey, CertFinal, SeenFinal, TrustOnce, Owns

\* Every step of LoadOrCreate keeps the invariant.
LEMMA InvStep == Inv /\ [Next]_vars => Inv'
<1>. SUFFICES ASSUME Inv, [Next]_vars PROVE Inv'
  OBVIOUS
<1>. USE Names DEF PC
<1>1. CASE UNCHANGED vars
  BY <1>1 DEF vars, Inv, Types, OneOwner, OwnersKey, CertFinal, SeenFinal, TrustOnce, Owns
<1>2. ASSUME NEW p \in Procs, LoadCert(p) PROVE Inv'
  BY <1>2, Quiet DEF LoadCert, Goto, Inv, Types, Owns
<1>3. ASSUME NEW p \in Procs, LoadKey(p) PROVE Inv'
  BY <1>3, Quiet DEF LoadKey, Return, Goto, Found, Inv, Types, Owns, FileState
<1>4. ASSUME NEW p \in Procs, RetryKey(p) PROVE Inv'
  BY <1>4, Quiet DEF RetryKey, Return, Goto, Found, Inv, Types, Owns, FileState
<1>5. ASSUME NEW p \in Procs, Gate(p) PROVE Inv'
  <2>1. CASE keyf = Absent /\ keyf' = Torn /\ Goto(p, "key") /\ UNCHANGED result
    BY <1>5, <2>1 DEF Gate, Goto, Inv, Types, OneOwner, OwnersKey, CertFinal, SeenFinal,
                      TrustOnce, Owns, FileState
  <2>2. CASE UNCHANGED keyf /\ ((Goto(p, "retry") /\ UNCHANGED result) \/ Return(p, Failed))
    BY <1>5, <2>2, Quiet DEF Gate, Return, Goto, Inv, Types, Owns
  <2>. QED
    BY <1>5, <2>1, <2>2 DEF Gate
<1>6. ASSUME NEW p \in Procs, WriteKey(p) PROVE Inv'
  BY <1>6 DEF WriteKey, Goto, Inv, Types, OneOwner, OwnersKey, CertFinal, SeenFinal,
              TrustOnce, Owns, FileState
<1>7. ASSUME NEW p \in Procs, OpenCert(p) PROVE Inv'
  BY <1>7 DEF OpenCert, Goto, Inv, Types, OneOwner, OwnersKey, CertFinal, SeenFinal,
              TrustOnce, Owns, FileState
<1>8. ASSUME NEW p \in Procs, WriteCert(p) PROVE Inv'
  BY <1>8 DEF WriteCert, Return, Goto, Inv, Types, OneOwner, OwnersKey, CertFinal,
              SeenFinal, TrustOnce, Owns, FileState
<1>9. ASSUME NEW p \in Procs, RemoveKey(p) PROVE Inv'
  BY <1>9 DEF RemoveKey, Return, Goto, Inv, Types, OneOwner, OwnersKey, CertFinal,
              SeenFinal, TrustOnce, Owns, FileState
<1>10. ASSUME NEW p \in Procs, Crash(p) PROVE Inv'
  BY <1>10, Quiet DEF Crash, Return, Goto, Inv, Types, Owns
<1>. QED
  BY <1>1, <1>2, <1>3, <1>4, <1>5, <1>6, <1>7, <1>8, <1>9, <1>10 DEF Next, Step

\* Whatever number of processes start, fail or die, every CA that LoadOrCreate
\* ever returned is the one pair on disk.
THEOREM TrustedOnce == Spec => []TrustOnce
<1>1. Init => Inv
  BY Names DEF PC, Init, Inv, Types, OneOwner, OwnersKey, CertFinal, SeenFinal,
                           TrustOnce, Owns, FileState
<1>2. Inv => TrustOnce
  BY DEF Inv
<1>. QED
  BY <1>1, <1>2, InvStep, PTL DEF Spec

-----------------------------------------------------------------------------
(* Types. *)

\* Whoever is not done has a read left.
Typed == /\ Types /\ tries \in [Procs -> 0 .. MaxTries]
         /\ \A p \in Procs : pc[p] # "done" => tries[p] < MaxTries

\* Every step keeps the types, and a process that goes on has a read left.
LEMMA TypedStep == Typed /\ [Next]_vars => Typed'
<1>. SUFFICES ASSUME Typed, [Next]_vars PROVE Typed'
  OBVIOUS
<1>. USE Names, CAStoreAssumption DEF Typed, Types, PC, FileState
<1>1. CASE UNCHANGED vars
  BY <1>1 DEF vars
<1>2. ASSUME NEW p \in Procs, LoadCert(p) PROVE Typed'
  BY <1>2 DEF LoadCert, Goto
<1>3. ASSUME NEW p \in Procs, LoadKey(p) PROVE Typed'
  BY <1>3 DEF LoadKey, Return, Goto, Found
<1>4. ASSUME NEW p \in Procs, RetryKey(p) PROVE Typed'
  BY <1>4 DEF RetryKey, Return, Goto, Found
<1>5. ASSUME NEW p \in Procs, Gate(p) PROVE Typed'
  BY <1>5 DEF Gate, Return, Goto
<1>6. ASSUME NEW p \in Procs, WriteKey(p) \/ OpenCert(p)
      PROVE  Typed'
  BY <1>6 DEF WriteKey, OpenCert, Goto
<1>7. ASSUME NEW p \in Procs, WriteCert(p) \/ RemoveKey(p) \/ Crash(p)
      PROVE  Typed'
  BY <1>7 DEF WriteCert, RemoveKey, Crash, Return, Goto
<1>. QED
  BY <1>1, <1>2, <1>3, <1>4, <1>5, <1>6, <1>7 DEF Next, Step

\* Every variable keeps its type; in particular loadAfterRace reads at most
\* MaxTries times.
THEOREM TypeCorrect == Spec => []TypeOK
<1>1. Init => Typed
  BY Names, CAStoreAssumption DEF Init, Typed, Types, PC, FileState
<1>2. Typed => TypeOK
  BY DEF Typed, Types, PC, TypeOK
<1>. QED
  BY <1>1, <1>2, TypedStep, PTL DEF Spec
=============================================================================
