-------------------------------- MODULE Scan --------------------------------
(***************************************************************************)
(* A scan: the collectors read the machine one after another, the surfaced *)
(* binaries are checked for their signature, and the evidence is scored    *)
(* (internal/score) and interpreted (internal/interpret).  The machine     *)
(* goes on while it is read: processes start and end, targets are replaced.*)
(*                                                                         *)
(* Evidence is about a subject, and what is about one subject is one       *)
(* finding: a file, a plist, a client of the privacy database that is no   *)
(* path, a process.                                                        *)
(***************************************************************************)
EXTENDS Integers, Sequences, FiniteSetsExt

CONSTANTS Software,    \* what is installed: a binary, its plists, its process
          MaxChanges   \* bound: the changes of the machine in the course of a scan

(***************************************************************************)
(* What may fail in a scan.                                                *)
(* gap:  a collector, which says so                                        *)
(* skip: a part of a collector: one of the directories or databases cannot *)
(*       be read, a plist cannot be converted or is too large              *)
(* lsof: the list of sockets is missing, or that of the running paths      *)
(***************************************************************************)
ScanFaults == {"gap", "skip", "lsof"}

Signatures == {"unsigned", "revoked", "unvouched", "developer", "appleNamed", "notarized", "apple"}
Places == {"system", "user", "hidden", "tmp", "os"}
Plists == {"user", "local", "bak", "inline"}
Services == {"accessibility", "input", "screen", "disk"}

(***************************************************************************)
(* sign:   the signature; "unvouched" is valid without a certificate, or   *)
(*         invalid; "appleNamed" is a developer with Apple in the name     *)
(* plists: the launch items that run it; "bak" is a disabled variant of    *)
(*         the user's, "inline" holds the code itself                      *)
(* client: under which name the privacy database knows it                  *)
(***************************************************************************)
World == [sign : Signatures, place : Places, plists : SUBSET Plists, appleLabel : BOOLEAN,
          grants : SUBSET Services, client : {"path", "bundle"},
          proc : {"none", "quiet", "connection", "listener"}, present : BOOLEAN]

ASSUME ScanAssumption == IsFiniteSet(Software) /\ MaxChanges \in Nat

VARIABLES world,      \* the machine
          scanPc,     \* the collector that runs next
          evidence,   \* what has been collected
          gaps,       \* the collectors that are reported as unavailable
          toCheck,    \* the binaries whose signature is to be checked
          running,    \* the items whose path a process refers to
          changed     \* history: the items that changed during the scan

scanVars == <<world, scanPc, evidence, gaps, toCheck, running, changed>>

Subjects == {"file", "plist", "client", "pid"} \X Software
Steps == <<"persistence", "processes", "tcc", "codesign", "running", "done">>

ScanTypeOK ==
    /\ world \in [Software -> World]
    /\ scanPc \in 1 .. Len(Steps)
    /\ \A e \in evidence : e.subject \in Subjects
    /\ gaps \subseteq {"persistence", "processes", "tcc"}
    /\ toCheck \subseteq Software /\ running \subseteq Software /\ changed \subseteq Software

\* A scan of the machine in one of the given states begins.
ScanInit(machines) ==
    /\ world \in machines
    /\ scanPc = 1
    /\ evidence = {} /\ gaps = {} /\ toCheck = {} /\ running = {} /\ changed = {}

\* It is scanned anew, for the next session.
Rescan == /\ scanPc = Len(Steps) /\ scanPc' = 1
          /\ evidence' = {} /\ gaps' = {} /\ toCheck' = {} /\ running' = {} /\ changed' = {}
          /\ UNCHANGED world

-----------------------------------------------------------------------------
(* The collectors' parsers: the evidence for an item in a state w. *)

Observed(subject, kind, what, plist) ==
    [subject |-> subject, kind |-> kind, what |-> what, plist |-> plist]

\* ParsePersistencePlist.  Only what is notable is evidence, so an ordinary item of
\* the system domain leaves none.  Inline code makes the plist itself the subject.
PlistEvidence(i, w, p) ==
    LET subject == IF p = "inline" THEN <<"plist", i>> ELSE <<"file", i>>
        notable == {what \in {"inline", "hidden", "userAgent", "missing"} :
                       \/ what = "inline" /\ p = "inline"
                       \/ what = "hidden" /\ p # "inline" /\ w.place = "hidden"
                       \/ what = "userAgent" /\ p # "local"
                       \/ what = "missing" /\ p # "inline" /\ ~w.present}
    IN  {Observed(subject, "persistence", what, p) : what \in notable}

Persistence(i, w) == UNION {PlistEvidence(i, w, p) : p \in w.plists}

\* BuildProcessEvidence: a process is known by its PID only.
Processes(i, w) == IF w.proc \in {"connection", "listener"}
                   THEN {Observed(<<"pid", i>>, "process", w.proc, "none")} ELSE {}

\* ParseTCC: the client as the database has it.
TCC(i, w) ==
    LET subject == IF w.client = "path" THEN <<"file", i>> ELSE <<"client", i>>
    IN  {Observed(subject, "tcc", service, "none") : service \in w.grants}

\* nativeSig and ParseCodesign.  What is no longer there reads as not signed.
CodesignOf(i, w) ==
    {Observed(<<"file", i>>, "codesign", IF w.present THEN w.sign ELSE "unsigned", "none")}

-----------------------------------------------------------------------------
(* collectAllWithProgress. *)

At(step) == Steps[scanPc] = step

\* The evidence of a collector is one of its results, or it fails.
Collect(step, results, faults) ==
    /\ At(step) /\ scanPc' = scanPc + 1
    /\ \/ /\ \E found \in results : evidence' = evidence \cup found
          /\ UNCHANGED gaps
       \/ /\ "gap" \in faults
          /\ gaps' = gaps \cup {step} /\ UNCHANGED evidence
    /\ UNCHANGED <<world, running, changed>>

\* What is found in all of the parts; or in some of them, and nothing is said of the
\* others as long as one directory, or one database, can be read.
Gathered(parts, faults) ==
    IF "skip" \in faults THEN {UNION P : P \in SUBSET parts} ELSE {UNION parts}

CollectPersistence(faults) ==
    /\ Collect("persistence",
               Gathered(UNION {{PlistEvidence(i, world[i], p) : p \in world[i].plists} : i \in Software},
                        faults), faults)
    /\ UNCHANGED toCheck

\* If ps answers and lsof does not, no process has a socket, and no gap is noted.
CollectProcesses(faults) ==
    /\ Collect("processes",
               {UNION {Processes(i, world[i]) : i \in Software}}
                   \cup IF "lsof" \in faults THEN {{}} ELSE {}, faults)
    /\ UNCHANGED toCheck

\* The binaries that the other collectors surfaced and that exist.
Surfaced(ev) == {i \in Software : world[i].present /\ \E e \in ev : e.subject = <<"file", i>>}

CollectTCC(faults) ==
    /\ Collect("tcc", Gathered({{e} : e \in UNION {TCC(i, world[i]) : i \in Software}}, faults), faults)
    /\ toCheck' = Surfaced(evidence')

\* One of the workers of codesignAll: whichever gets to it.
CheckSignature(i) ==
    /\ At("codesign") /\ i \in toCheck
    /\ toCheck' = toCheck \ {i}
    /\ evidence' = evidence \cup CodesignOf(i, world[i])
    /\ UNCHANGED <<world, scanPc, gaps, running, changed>>

CodesignDone == /\ At("codesign") /\ toCheck = {}
                /\ scanPc' = scanPc + 1
                /\ UNCHANGED <<world, evidence, gaps, toCheck, running, changed>>

\* CollectRunningPaths, its error ignored.
CollectRunning(faults) ==
    /\ At("running") /\ scanPc' = scanPc + 1
    /\ \/ running' = {i \in Software : world[i].proc # "none"}
       \/ "lsof" \in faults /\ running' = {}
    /\ UNCHANGED <<world, evidence, gaps, toCheck, changed>>

\* The machine goes on: a process starts, ends or opens a socket, a target is
\* replaced or put in place again.
Change(i) ==
    /\ ~At("done") /\ Cardinality(changed) < MaxChanges /\ i \notin changed
    /\ world' \in {[world EXCEPT ![i].proc = p] : p \in {"none", "listener"}}
                     \cup {[world EXCEPT ![i].present = ~@]}
    /\ changed' = changed \cup {i}
    /\ UNCHANGED <<scanPc, evidence, gaps, toCheck, running>>

ScanStep(faults) ==
    \/ CollectPersistence(faults) \/ CollectProcesses(faults) \/ CollectTCC(faults)
    \/ (\E i \in Software : CheckSignature(i)) \/ CodesignDone \/ CollectRunning(faults)

-----------------------------------------------------------------------------
(* internal/score. *)

Of(s) == {e \in evidence : e.subject = s}

Has(s, kind, whats) == \E e \in Of(s) : e.kind = kind /\ e.what \in whats

Weight(e) == CASE e.what \in {"inline", "revoked"} -> 5
               [] e.what \in {"unsigned", "accessibility", "input"} -> 3
               [] e.what \in {"missing", "listener", "connection", "screen", "disk"} -> 2
               [] e.what \in {"hidden", "userAgent"} -> 1
               [] OTHER -> 0

ShowThreshold == 5
HighTier == 10
CriticalTier == 15

KindsOf(s) == {e.kind : e \in Of(s)}

\* Mutant of Score: kinds that agree count no more than kinds that do not.
ScoreUncorrelated(s) == MapThenSumSet(Weight, Of(s))

\* The weights, and half as much again for two kinds or more, rounded down.
Score(s) == LET sum == MapThenSumSet(Weight, Of(s))
            IN  IF Cardinality(KindsOf(s)) >= 2 THEN (sum * 150) \div 100 ELSE sum

Unsigned(s) == Has(s, "codesign", {"unsigned"})
Persistent(s) == "persistence" \in KindsOf(s)
Listening(s) == Has(s, "process", {"listener"})
Connected(s) == Has(s, "process", {"connection"})

Tripwire(s) == Unsigned(s) /\ Persistent(s) /\ Listening(s)

\* subjectTrusted: an authority on the list of Apple's own, exactly.
Trusted(s) == Has(s, "codesign", {"apple"}) /\ ~Unsigned(s)

Scored == {s \in Subjects : Of(s) # {} /\ (Tripwire(s) \/ ~Trusted(s))}

-----------------------------------------------------------------------------
(* internal/interpret. *)

\* signalsOf: an authority is only recorded for a signature that holds.
AcceptedSigned(s) == Has(s, "codesign", {"developer", "appleNamed", "notarized", "apple"})

Granted(s) == {e.what : e \in {f \in Of(s) : f.kind = "tcc"}}

Category(s) ==
    CASE {"input", "accessibility"} \subseteq Granted(s) -> "keylogger"
      [] Tripwire(s) -> "backdoor"
      [] Granted(s) # {} -> IF \/ Unsigned(s) \/ Persistent(s) \/ Listening(s) \/ Connected(s)
                               \/ Cardinality(Granted(s)) >= 2
                            THEN "surveillance-capable" ELSE "permission-grant"
      [] Persistent(s) -> "persistence-only"
      [] OTHER -> "unknown"

\* livenessState.  A target is known to all evidence of a plist but that of inline code.
Liveness(s) ==
    CASE \E e \in Of(s) : e.kind = "persistence" /\ (e.what = "missing" \/ e.plist = "bak") -> "dormant"
      [] "process" \in KindsOf(s) -> "active"
      [] \E e \in Of(s) : e.kind = "persistence" /\ e.what # "inline" ->
             IF s[2] \in running THEN "active" ELSE "armed"
      [] OTHER -> "none"

Weak(s) == Category(s) \in {"persistence-only", "permission-grant", "unknown"}

\* recommend.
Recommend(s) ==
    LET shown == IF Score(s) >= ShowThreshold THEN "Investigate" ELSE "Monitor" IN
    CASE Tripwire(s) -> "Quarantine"
      [] ~Tripwire(s) /\ Liveness(s) = "dormant" -> "Monitor"
      [] OTHER -> IF AcceptedSigned(s) /\ ~Unsigned(s)
                  THEN IF Weak(s) THEN "Monitor" ELSE shown
                  ELSE IF Score(s) >= (IF Weak(s) THEN CriticalTier ELSE HighTier)
                       THEN "Quarantine" ELSE shown

\* isAppleNamespace: the label, the path, or a name that contains Apple's.
AppleNamespace(s) ==
    \/ world[s[2]].appleLabel /\ Persistent(s)
    \/ s[1] = "file" /\ world[s[2]].place = "os"
    \/ Has(s, "codesign", {"apple", "appleNamed"})

\* concernOf: trust, location (pathBucket), behavior.
ConcernScore(s) ==
    LET place == CASE s[1] = "file" -> world[s[2]].place
                   [] s[1] = "plist" -> "user"
                   [] OTHER -> "system"
    IN  (IF Unsigned(s) THEN 2 ELSE IF AcceptedSigned(s) THEN 0 ELSE 1)
            + (IF place \in {"tmp", "hidden"} THEN 2 ELSE IF place = "user" THEN 1 ELSE 0)
            + (IF Listening(s) THEN 2 ELSE IF Connected(s) THEN 1 ELSE 0)
            + (IF Persistent(s) THEN 1 ELSE 0)
            + (IF Granted(s) # {} THEN 1 ELSE 0)

Concern(s) ==
    IF AppleNamespace(s) /\ ~Unsigned(s) THEN "minimal"
    ELSE CASE ConcernScore(s) >= 4 -> "elevated"
           [] ConcernScore(s) = 3 -> "notable"
           [] ConcernScore(s) \in 1 .. 2 -> "low"
           [] OTHER -> "minimal"

\* mark.Trust, the provenance shown beside it; a developer is no Apple here.
Trust(s) ==
    CASE Has(s, "codesign", {"revoked"}) -> "revoked"
      [] Unsigned(s) -> "unsigned"
      [] Has(s, "codesign", {"apple"}) -> "apple"
      [] Has(s, "codesign", {"notarized"}) -> "notarized"
      [] Has(s, "codesign", {"unvouched", "developer", "appleNamed"}) -> "signed"
      [] OTHER -> "blank"

\* ack.Fingerprint, what makes a finding another one to its reviewer: the score and the
\* summaries.  Facts are left out, and with them which plist it is.
Digest(s) == [score |-> Score(s), lines |-> {<<e.kind, e.what>> : e \in Of(s)}]

\* feedback.Minimize: the anonymous shape, with a name only if it is Apple's or that of
\* accepted software.  Findings of one shape are one record of the store.
Shape(s) ==
    [recommendation |-> Recommend(s), category |-> Category(s), kinds |-> KindsOf(s),
     band |-> Min({Score(s) \div 5, 3}),
     codesign |-> IF AcceptedSigned(s) THEN "notarized" ELSE Trust(s),
     place |-> IF s[1] = "file" THEN world[s[2]].place ELSE s[1],
     identity |-> IF Persistent(s) /\ (world[s[2]].appleLabel \/ AcceptedSigned(s))
                  THEN {s[2]} ELSE {}]

-----------------------------------------------------------------------------
(* Properties of a finished scan. *)

Steady(i) == At("done") /\ i \notin changed

\* The signature decides how far the recommendation may go, once it takes the evidence
\* of several collectors, and weights, correlation, thresholds, caps and floors that
\* agree.  Gatekeeper-accepted software is never recommended for quarantine on account of
\* its binary, whatever it starts, is granted and listens to ("so the tool can't be
\* weaponized to disable legit signed apps").  An unsigned or revoked binary that starts
\* itself at login or from a hidden place, by a plist that was read, is actionable, unless
\* it is disabled, whatever else the collectors failed to read, and an unsigned one stands
\* out even under a label of Apple's.
Capped(i) ==
    LET s == <<"file", i>> IN
    world[i].sign \in {"developer", "appleNamed", "notarized", "apple"} /\ s \in Scored
        => Recommend(s) # "Quarantine"

Surfaces(i) ==
    LET s == <<"file", i>> IN
    /\ world[i].sign \in {"unsigned", "revoked"}
    /\ "bak" \notin world[i].plists
    /\ \E p \in world[i].plists : /\ p = "user" \/ (p = "local" /\ world[i].place = "hidden")
                                  /\ PlistEvidence(i, world[i], p) \subseteq evidence
    => /\ s \in Scored /\ Recommend(s) \in {"Investigate", "Quarantine"}
       /\ Unsigned(s) => Concern(s) \in {"notable", "elevated"}

SignatureDecides ==
    \A i \in Software : Steady(i) /\ world[i].present => Capped(i) /\ Surfaces(i)
=============================================================================
