------------------------------ MODULE CAStore -------------------------------
(***************************************************************************)
(* ca.LoadOrCreate: processes that start at the same time share one        *)
(* certificate authority on disk, the pair ca.pem (certificate) and ca.key *)
(* (private key).  The key file, created exclusively, is the gate: whoever *)
(* creates it mints the pair.  The files are written and read one after    *)
(* the other, so a reader may see any mixture.                             *)
(*                                                                         *)
(* A certificate authority is named by the process that minted it.  A      *)
(* process stands for one start of the command: it loads once.             *)
(***************************************************************************)
EXTENDS Naturals

CONSTANTS Procs,
          Absent,     \* there is no such file
          Torn,       \* the file is empty or cut short
          NoResult,
          Failed,
          MaxTries,   \* the reads of loadAfterRace: 100, 10 ms apart
          Faults      \* a subset of FaultKinds

\* write: creating, minting or writing fails.  crash: the process dies.
FaultKinds == {"write", "crash"}

ASSUME CAStoreAssumption ==
    /\ {Absent, Torn, NoResult, Failed} \cap Procs = {}
    /\ Absent # Torn /\ NoResult # Failed
    /\ MaxTries \in Nat \ {0} /\ Faults \subseteq FaultKinds

FileState == {Absent, Torn} \cup Procs

VARIABLES cert, keyf,   \* the two files
          pc,
          seen,         \* the certificate a process read
          tries,        \* its loadAfterRace's i
          result        \* what LoadOrCreate returned to it

vars == <<cert, keyf, pc, seen, tries, result>>

TypeOK == /\ cert \in FileState /\ keyf \in FileState
          /\ pc \in [Procs -> {"start", "loadKey", "gate", "key", "openCert", "cert",
                               "undo", "retry", "retryKey", "done"}]
          /\ seen \in [Procs -> FileState]
          /\ tries \in [Procs -> 0 .. MaxTries]
          /\ result \in [Procs -> {NoResult, Failed} \cup Procs]

Init == /\ cert = Absent /\ keyf = Absent
        /\ pc = [p \in Procs |-> "start"]
        /\ seen = [p \in Procs |-> Absent]
        /\ tries = [p \in Procs |-> 0]
        /\ result = [p \in Procs |-> NoResult]

Goto(p, l) == pc' = [pc EXCEPT ![p] = l]

Return(p, r) == result' = [result EXCEPT ![p] = r] /\ Goto(p, "done")

-----------------------------------------------------------------------------
(* Load reads the certificate, then the key. *)

LoadCert(p) == /\ pc[p] \in {"start", "retry"}
               /\ seen' = [seen EXCEPT ![p] = cert]
               /\ Goto(p, IF pc[p] = "start" THEN "loadKey" ELSE "retryKey")
               /\ UNCHANGED <<cert, keyf, tries, result>>

\* Both files are whole and LoadCA finds that the key matches the certificate.
Found(p) == seen[p] \in Procs /\ keyf = seen[p]

Neither(p) == seen[p] = Absent /\ keyf = Absent

\* The first Load: anything between a whole pair and no file at all is an error.
LoadKey(p) == /\ pc[p] = "loadKey"
              /\ \/ Found(p) /\ Return(p, seen[p])
                 \/ Neither(p) /\ Goto(p, "gate") /\ UNCHANGED result
                 \/ ~Found(p) /\ ~Neither(p) /\ Return(p, Failed)
              /\ UNCHANGED <<cert, keyf, seen, tries>>

\* loadAfterRace keeps reading until the pair is whole.
RetryKey(p) ==
    /\ pc[p] = "retryKey"
    /\ \/ Found(p) /\ Return(p, seen[p]) /\ UNCHANGED tries
       \/ /\ ~Found(p)
          /\ tries' = [tries EXCEPT ![p] = @ + 1]
          /\ IF tries[p] + 1 < MaxTries THEN Goto(p, "retry") /\ UNCHANGED result
                                        ELSE Return(p, Failed)
    /\ UNCHANGED <<cert, keyf, seen>>

-----------------------------------------------------------------------------
(* The rest of LoadOrCreate. *)

\* Mutant of Gate: no O_EXCL.
GateShared(p) == /\ pc[p] = "gate"
                 /\ keyf' = Torn /\ Goto(p, "key")
                 /\ UNCHANGED <<cert, seen, tries, result>>

\* O_CREATE|O_EXCL
Gate(p) ==
    /\ pc[p] = "gate"
    /\ \/ keyf = Absent /\ keyf' = Torn /\ Goto(p, "key") /\ UNCHANGED result
       \/ keyf # Absent /\ Goto(p, "retry") /\ UNCHANGED <<keyf, result>>
       \/ "write" \in Faults /\ Return(p, Failed) /\ UNCHANGED keyf
    /\ UNCHANGED <<cert, seen, tries>>

\* Mint the pair and write the key into the open file.
WriteKey(p) ==
    /\ pc[p] = "key"
    /\ \/ keyf' = p /\ Goto(p, "openCert")
       \/ "write" \in Faults /\ Goto(p, "undo") /\ UNCHANGED keyf
    /\ UNCHANGED <<cert, seen, tries, result>>

\* os.WriteFile of the certificate: truncate, then write.
OpenCert(p) ==
    /\ pc[p] = "openCert"
    /\ \/ cert' = Torn /\ Goto(p, "cert")
       \/ "write" \in Faults /\ Goto(p, "undo") /\ UNCHANGED cert
    /\ UNCHANGED <<keyf, seen, tries, result>>

WriteCert(p) ==
    /\ pc[p] = "cert"
    /\ \/ cert' = p /\ Return(p, p)
       \/ "write" \in Faults /\ Goto(p, "undo") /\ UNCHANGED <<cert, result>>
    /\ UNCHANGED <<keyf, seen, tries>>

\* Every failure after the gate removes the key, and only the key.
RemoveKey(p) ==
    /\ pc[p] = "undo"
    /\ keyf' = Absent
    /\ Return(p, Failed)
    /\ UNCHANGED <<cert, seen, tries>>

Crash(p) ==
    /\ "crash" \in Faults /\ pc[p] \notin {"start", "done"}
    /\ Return(p, Failed)
    /\ UNCHANGED <<cert, keyf, seen, tries>>

Step(p) == \/ LoadCert(p) \/ LoadKey(p) \/ RetryKey(p) \/ Gate(p) \/ WriteKey(p)
           \/ OpenCert(p) \/ WriteCert(p) \/ RemoveKey(p) \/ Crash(p)

AllDone == \A p \in Procs : pc[p] = "done"

Next == (\E p \in Procs : Step(p)) \/ (AllDone /\ UNCHANGED vars)

Spec == Init /\ [][Next]_vars

-----------------------------------------------------------------------------
(* Properties. *)

\* The "trust once" invariant: the CA any start was given is the pair on disk, so
\* all starts are given the same one and no second root is ever trusted,
\* whatever fails or dies wherever.
TrustOnce == \A p \in Procs : result[p] \in Procs => cert = result[p] /\ keyf = result[p]
=============================================================================
