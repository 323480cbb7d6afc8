------------------------------- MODULE Triage -------------------------------
(***************************************************************************)
(* The findings side of `counterspy console` (and of `scan --interactive`):*)
(* the machine is scanned, what the operator has not vetted is shown with  *)
(* what is remembered of earlier reviews, and the user acts on a finding,  *)
(* reviews it or labels it.  Composes Scan, Quarantine, Acks and Labels:   *)
(* the keys act on what the scan found and assessed.                       *)
(*                                                                         *)
(* The session that acts is the one of Quarantine.  Consoles that review   *)
(* and label are opened one after another or at the same time, each after  *)
(* a scan of its own.                                                      *)
(***************************************************************************)
EXTENDS Scan, Quarantine, Acks, Labels

(***************************************************************************)
(* The uses of the program by name: the states the machine may be in when  *)
(* it is started, what happens while it is scanned (it changes, a collector*)
(* or a part of one fails), what the operator has vetted (allowlist.txt),  *)
(* whether the findings come from a snapshot (--from), and the keys that   *)
(* are pressed.                                                            *)
(***************************************************************************)
CONSTANTS Uses,
          MaxScans   \* bound: the scans that consoles are opened on

ASSUME TriageAssumption ==
    /\ MaxScans \in Nat
    /\ Findings \subseteq Software /\ Consoles \subseteq Writers
    /\ \A n \in DOMAIN Uses :
           /\ Uses[n].machines \subseteq [Software -> World]
           /\ Uses[n].events \subseteq {"change"} \cup ScanFaults
           /\ Uses[n].vetted \subseteq Software /\ Uses[n].snapshot \in BOOLEAN
           /\ Uses[n].keys \subseteq {"act", "ack", "label"}

VARIABLES use,    \* the one that is made of it
          scans   \* the scans so far

quarantineVars == <<home, jail, loaded, manifest, torn, done, lastManifest, session,
                    pc, key, act, item, ok, plistBack, whole, report, sound>>
triageVars == <<use, scans, scanVars, quarantineVars, ackVars, labelVars>>

TriageInit == /\ use \in DOMAIN Uses /\ scans = 1
              /\ ScanInit(Uses[use].machines) /\ Init /\ AcksInit /\ LabelsInit
              \* Choices that only keys tell apart are made for those who press them.
              /\ "act" \in Uses[use].keys \/ key = CHOOSE k \in Findings : TRUE
              /\ "label" \in Uses[use].keys \/ share = "off"

-----------------------------------------------------------------------------
(* What the console shows. *)

Scanned == At("done")

\* filterAllowed: a finding has the path or the label the operator vetted, unless it is
\* about a process.
Shown == {s \in Scored : s[1] = "pid" \/ s[2] \notin Uses[use].vetted}

\* plannedActions for a binary: it has a label and a plist if its launch item is in
\* evidence.
Planned(s) == IF Persistent(s) THEN <<"bootout", "plist", "target">> ELSE <<"target">>

\* Key q and its modal, and quarantineLoop's y.
Actionable(k) == LET s == <<"file", k>> IN
                 /\ s \in Shown /\ Recommend(s) # "Monitor"
                 /\ ~Uses[use].snapshot
                 /\ Planned(s) = PlannedActions(k)

Found == {[key |-> s, digest |-> Digest(s)] : s \in Shown}

-----------------------------------------------------------------------------
(* The composition. *)

Acting == /\ Scanned /\ "act" \in Uses[use].keys
          /\ \/ \E k \in Findings : (Actionable(k) /\ Confirm(k)) \/ Undo(k)
             \/ Bootout \/ CheckMove \/ Move \/ AllActed \/ Record
             \/ Restore \/ CheckBack \/ MoveBack \/ Rebootstrap \/ Save
             \/ \E f \in Files : Appear(f) \/ Vanish(f)
             \/ Quit \/ Crash
          /\ UNCHANGED <<use, scans, scanVars, ackVars, labelVars>>

Closed(c) == labelPc[c] = "out"

\* A console opens on what has been scanned.
OpenConsole(c) == /\ Scanned /\ Uses[use].keys \cap {"ack", "label"} # {}
                  /\ OpenLabels(c) /\ LoadAcks(c, Found)
                  /\ UNCHANGED <<use, scans, scanVars, quarantineVars>>

Review(c) == /\ "ack" \in Uses[use].keys /\ labelPc[c] = "open"
             /\ \E f \in seen[c] : Ack(c, f) \/ Unack(c, f)
             /\ UNCHANGED <<use, scans, scanVars, quarantineVars, labelVars>>

LabelFinding(c) == /\ "label" \in Uses[use].keys
                   /\ \E s \in {f.key : f \in seen[c]} : GiveLabel(c, Shape(s))
                   /\ UNCHANGED <<use, scans, scanVars, quarantineVars, ackVars>>

LeaveConsole(c) == /\ LeaveLabels(c) /\ DropAcks(c)
                   /\ UNCHANGED <<use, scans, scanVars, quarantineVars>>

Submitting == /\ "label" \in Uses[use].keys
              /\ ChangeShare \/ \E w \in Writers \ Consoles : SubmitCommand(w)
              /\ UNCHANGED <<use, scans, scanVars, quarantineVars, ackVars>>

Labelling(w) == /\ LabelStep(w)
                /\ IF w \in Consoles /\ labelPc'[w] = "out" THEN DropAcks(w) ELSE UNCHANGED ackVars
                /\ UNCHANGED <<use, scans, scanVars, quarantineVars>>

\* The next console scans the machine again.
ScanAgain == /\ "ack" \in Uses[use].keys /\ \E c \in Consoles : Closed(c)
             /\ scans < MaxScans /\ scans' = scans + 1
             /\ Rescan
             /\ UNCHANGED <<use, quarantineVars, ackVars, labelVars>>

Scanning == /\ \/ ScanStep(Uses[use].events)
               \/ "change" \in Uses[use].events /\ \E i \in Software : Change(i)
            /\ UNCHANGED <<use, scans, quarantineVars, ackVars, labelVars>>

TriageNext == \/ Scanning \/ ScanAgain \/ Acting \/ Submitting
              \/ \E c \in Consoles : OpenConsole(c) \/ Review(c) \/ LabelFinding(c) \/ LeaveConsole(c)
              \/ \E w \in Writers : Labelling(w)

TriageSpec == TriageInit /\ [][TriageNext]_triageVars

-----------------------------------------------------------------------------
(* Properties. *)

TriageTypeOK == ScanTypeOK /\ TypeOK /\ AcksTypeOK /\ LabelsTypeOK
=============================================================================
