---------------------------- MODULE TriageProofs ----------------------------
(***************************************************************************)
(* What holds of the findings side for any software, findings, manifests,  *)
(* consoles, writers and faults.  First of a quarantine session alone:     *)
(* nothing is lost and the manifest tells the truth.  Then of the whole:   *)
(* the session acts as Quarantine says, what is shown as reviewed was      *)
(* reviewed, what is sent was agreed to, and the last label is kept.       *)
(***************************************************************************)
EXTENDS Triage, FoldLemmas

-----------------------------------------------------------------------------
(* The types.  An operation is at an action it has, or just past the last one,
   and a quarantine has room in the manifest for what it will record. *)

\* A restore is at an item of the manifest.
AtItem == pc \in {"check", "back", "save"} => item \in 1 .. Len(manifest)

AtAction ==
    /\ pc \in {"act", "rename", "record"} => /\ Len(manifest) < MaxItems
                                            /\ act <= Len(PlannedActions(key)) + 1
    /\ pc = "rename" => act <= Len(PlannedActions(key))
    /\ pc \in {"check", "back"} => act <= manifest[item].n + 1
    /\ pc = "back" => act <= manifest[item].n

\* TypeOK, in parts.
FilesOK == /\ home \in [Files -> Content] /\ jail \in [Files -> Content]
           /\ loaded \subseteq Launch

ManifestOK == /\ manifest \in Seq(Items) /\ Len(manifest) <= MaxItems
              /\ torn \in BOOLEAN /\ (torn => manifest = << >>)

UiOK == /\ done \subseteq Findings /\ lastManifest \in BOOLEAN /\ session \in BOOLEAN
        /\ report \in {"none", "clean", "issues"} /\ sound \in BOOLEAN

OpOK == /\ pc \in {"idle", "act", "rename", "record", "check", "back", "boot", "save"}
        /\ key \in Findings /\ act \in 1 .. 4 /\ item \in 0 .. MaxItems

FlagsOK == ok \in BOOLEAN /\ plistBack \in BOOLEAN /\ whole \in BOOLEAN

Typed == FilesOK /\ ManifestOK /\ UiOK /\ OpOK /\ FlagsOK /\ AtItem /\ AtAction

\* The type invariant in the parts that one action disturbs.
LEMMA TypeParts == TypeOK <=> FilesOK /\ ManifestOK /\ UiOK /\ OpOK /\ FlagsOK
BY DEF TypeOK, FilesOK, ManifestOK, UiOK, OpOK, FlagsOK

\* A manifest without one of its items is a manifest, one shorter.
LEMMA DropItem ==
    ASSUME NEW m \in Seq(Items), NEW i \in 1 .. Len(m)
    PROVE  /\ SubSeq(m, 1, i - 1) \o SubSeq(m, i + 1, Len(m)) \in Seq(Items)
           /\ Len(SubSeq(m, 1, i - 1) \o SubSeq(m, i + 1, Len(m))) = Len(m) - 1
<1>. DEFINE before == SubSeq(m, 1, i - 1)
            after == SubSeq(m, i + 1, Len(m))
<1>1. before \in Seq(Items) /\ Len(before) = i - 1
  <2>1. \A j \in 1 .. i - 1 : m[j] \in Items
    OBVIOUS
  <2>. QED
    BY <2>1
<1>2. after \in Seq(Items) /\ Len(after) = Len(m) - i
  <2>1. \A j \in i + 1 .. Len(m) : m[j] \in Items
    OBVIOUS
  <2>. QED
    BY <2>1
<1>. HIDE DEF before, after
<1>3. before \o after \in Seq(Items)
  BY <1>1, <1>2
<1>4. Len(before \o after) = Len(m) - 1
  BY <1>1, <1>2
<1>. QED
  BY <1>3, <1>4 DEF before, after

\* A finding has at most three actions.
LEMMA PlannedCount ==
    ASSUME NEW k \in Findings
    PROVE  Len(PlannedActions(k)) \in 1 .. 3
BY DEF PlannedActions

\* An action that is planned is one of the first three.
LEMMA AtMostThree ==
    ASSUME NEW a \in 1 .. 4, NEW n \in 1 .. 3, a <= n
    PROVE  a \in 1 .. 3
OBVIOUS

\* An item of a manifest.
LEMMA ItemType ==
    ASSUME NEW m \in Seq(Items), NEW i \in 1 .. Len(m)
    PROVE  m[i].key \in Findings /\ m[i].n \in 1 .. 3
<1>1. m[i] \in Items
  OBVIOUS
<1>. QED
  BY <1>1 DEF Items

\* Every step preserves the types of the flags.
LEMMA FlagsStep == FlagsOK /\ [Next]_vars => FlagsOK'
<1>. SUFFICES ASSUME FlagsOK, [Next]_vars PROVE FlagsOK'
  OBVIOUS
<1>. USE DEF FlagsOK
<1>1. ASSUME NEW k \in Findings, Confirm(k) \/ Undo(k) PROVE FlagsOK'
  BY <1>1 DEF Confirm, Undo, BeginItem
<1>2. CASE Bootout \/ CheckMove \/ Move \/ AllActed \/ Record
  BY <1>2 DEF Bootout, CheckMove, Move, AllActed, Record, Stop, op
<1>3. CASE Restore \/ CheckBack \/ MoveBack \/ Rebootstrap \/ Save
  BY <1>3 DEF Restore, BeginItem, CheckBack, MoveBack, Problem, Rebootstrap, Save, op
<1>4. ASSUME NEW f \in Files, Appear(f) \/ Vanish(f) PROVE FlagsOK'
  BY <1>4 DEF Appear, Vanish, op
<1>5. CASE Quit \/ Crash \/ UNCHANGED vars
  BY <1>5 DEF Quit, Crash, LeaveSession, vars, op
<1>. QED
  BY <1>1, <1>2, <1>3, <1>4, <1>5 DEF Next

\* Every step preserves the types.
LEMMA TypedStep == Typed /\ [Next]_vars => Typed'
<1>. SUFFICES ASSUME Typed, [Next]_vars PROVE Typed'
  OBVIOUS
<1>. USE DEF Typed
<1>. FlagsOK'
  BY FlagsStep
<1>a. Len(PlannedActions(key)) \in 1 .. 3
  BY PlannedCount DEF OpOK
<1>b. pc \in {"check", "back", "save"} => /\ item \in 1 .. Len(manifest)
                                         /\ manifest[item].n \in 1 .. 3
  BY ItemType DEF ManifestOK, AtItem
<1>1. ASSUME NEW k \in Findings, Confirm(k) PROVE Typed'
  <2>1. FilesOK' /\ ManifestOK' /\ UiOK' /\ AtItem'
    BY <1>1 DEF Confirm, disk, ui, FilesOK, ManifestOK, UiOK, AtItem
  <2>2. OpOK'
    BY <1>1 DEF Confirm, OpOK
  <2>3. Len(PlannedActions(k)) \in 1 .. 3
    BY PlannedCount
  <2>4. AtAction'
    BY <1>1, <2>3 DEF Confirm, disk, AtAction
  <2>. QED
    BY <2>1, <2>2, <2>4
<1>2. ASSUME NEW i \in DOMAIN manifest, BeginItem(i), UNCHANGED <<disk, sound>>,
             UiOK'
      PROVE  Typed'
  <2>1. i \in 1 .. Len(manifest) /\ i \in 0 .. MaxItems
    BY QuarantineAssumption DEF ManifestOK
  <2>2. manifest[i].key \in Findings /\ manifest[i].n \in 1 .. 3
    BY <2>1, ItemType DEF ManifestOK
  <2>3. FilesOK' /\ ManifestOK' /\ manifest' = manifest
    BY <1>2 DEF disk, FilesOK, ManifestOK
  <2>4. OpOK'
    BY <1>2, <2>1, <2>2 DEF BeginItem, OpOK
  <2>5. AtItem' /\ AtAction'
    BY <1>2, <2>1, <2>2, <2>3 DEF BeginItem, AtItem, AtAction
  <2>. QED
    BY <1>2, <2>3, <2>4, <2>5
<1>3. ASSUME NEW k \in Findings, Undo(k) PROVE Typed'
  <2>1. PICK i \in DOMAIN manifest : BeginItem(i)
    BY <1>3 DEF Undo
  <2>2. UNCHANGED <<disk, sound>> /\ UiOK'
    BY <1>3 DEF Undo, ui, UiOK
  <2>. QED
    BY <1>2, <2>1, <2>2
<1>4. CASE Restore
  <2>1. 1 \in DOMAIN manifest /\ BeginItem(1)
    BY <1>4 DEF Restore, ManifestOK
  <2>2. UNCHANGED <<disk, sound>> /\ UiOK'
    BY <1>4 DEF Restore, ui, UiOK
  <2>. QED
    BY <1>2, <2>1, <2>2
<1>5. CASE Bootout
  <2>1. FilesOK' /\ ManifestOK' /\ UiOK' /\ manifest' = manifest
    BY <1>5 DEF Bootout, ui, FilesOK, ManifestOK, UiOK
  <2>2. /\ pc = "act" /\ act <= Len(PlannedActions(key))
        /\ UNCHANGED <<key, item>>
        /\ pc' \in {"act", "record"} /\ (act' = act \/ act' = act + 1)
    BY <1>5 DEF Bootout, Stop, OpOK
  <2>3. OpOK'
    <3>1. act \in 1 .. 3
      BY <1>a, <2>2, AtMostThree DEF OpOK
    <3>. QED
      BY <2>2, <3>1 DEF OpOK
  <2>4. AtItem' /\ AtAction'
    BY <1>a, <2>1, <2>2 DEF AtItem, AtAction, OpOK
  <2>. QED
    BY <2>1, <2>3, <2>4
<1>6. CASE CheckMove
  <2>1. FilesOK' /\ ManifestOK' /\ UiOK' /\ manifest' = manifest
    BY <1>6 DEF CheckMove, disk, ui, FilesOK, ManifestOK, UiOK
  <2>2. /\ pc = "act" /\ act <= Len(PlannedActions(key))
        /\ UNCHANGED <<key, item, act>>
        /\ pc' \in {"rename", "record"}
    BY <1>6 DEF CheckMove, Stop, OpOK
  <2>3. OpOK'
    BY <2>2 DEF OpOK
  <2>4. AtItem' /\ AtAction'
    BY <1>a, <2>1, <2>2 DEF AtItem, AtAction, OpOK
  <2>. QED
    BY <2>1, <2>3, <2>4
<1>7. CASE Move
  <2>1. FilesOK' /\ ManifestOK' /\ UiOK' /\ manifest' = manifest
    BY <1>7 DEF Move, ui, FilesOK, ManifestOK, UiOK, Content
  <2>2. /\ pc = "rename" /\ UNCHANGED <<key, item>>
        /\ pc' \in {"act", "record"} /\ (act' = act \/ act' = act + 1)
    BY <1>7 DEF Move, Stop, OpOK
  <2>3. act <= Len(PlannedActions(key))
    BY <2>2 DEF AtAction
  <2>4. OpOK'
    <3>1. act \in 1 .. 3
      BY <1>a, <2>3, AtMostThree DEF OpOK
    <3>. QED
      BY <2>2, <3>1 DEF OpOK
  <2>5. AtItem' /\ AtAction'
    BY <1>a, <2>1, <2>2, <2>3 DEF AtItem, AtAction, OpOK
  <2>. QED
    BY <2>1, <2>4, <2>5
<1>8. CASE AllActed
  <2>1. FilesOK' /\ ManifestOK' /\ UiOK' /\ AtItem'
    BY <1>8 DEF AllActed, disk, ui, FilesOK, ManifestOK, UiOK, AtItem
  <2>2. OpOK' /\ AtAction'
    BY <1>8 DEF AllActed, disk, op, OpOK, AtAction
  <2>. QED
    BY <2>1, <2>2
<1>9. CASE Record
  <2>1. act \in 1 .. 4 /\ Len(manifest) < MaxItems /\ key \in Findings
    BY <1>9, <1>a DEF Record, AtAction, OpOK
  <2>2. act > 1 => /\ Append(manifest, [key |-> key, n |-> act - 1]) \in Seq(Items)
                   /\ Len(Append(manifest, [key |-> key, n |-> act - 1])) <= MaxItems
    <3>1. act > 1 => [key |-> key, n |-> act - 1] \in Items
      BY <2>1 DEF Items
    <3>. QED
      BY <2>1, <3>1, QuarantineAssumption DEF ManifestOK
  <2>3. ManifestOK'
    <3>1. << >> \in Seq(Items) /\ Len(<< >>) <= MaxItems
      BY QuarantineAssumption
    <3>. QED
      BY <1>9, <2>2, <3>1 DEF Record, WriteManifest, ManifestOK
  <2>4. UiOK'
    BY <1>9, <2>1 DEF Record, WriteManifest, UiOK
  <2>5. FilesOK' /\ OpOK' /\ AtItem' /\ AtAction'
    BY <1>9 DEF Record, op, FilesOK, OpOK, AtItem, AtAction
  <2>. QED
    BY <2>3, <2>4, <2>5
<1>10. CASE CheckBack
  <2>1. FilesOK' /\ ManifestOK' /\ UNCHANGED <<manifest, item>>
    BY <1>10 DEF CheckBack, disk, FilesOK, ManifestOK
  <2>2. UiOK'
    BY <1>10 DEF CheckBack, Problem, ui, UiOK
  <2>3. /\ UNCHANGED <<key>>
        /\ pc = "check" /\ act <= manifest[item].n
        /\ \/ pc' = "check" /\ act' = act + 1
           \/ pc' = "back" /\ act' = act
    BY <1>10 DEF CheckBack, Problem, OpOK
  <2>4. OpOK'
    BY <1>b, <2>1, <2>3 DEF OpOK
  <2>5. AtItem' /\ AtAction'
    BY <1>b, <2>1, <2>3 DEF AtItem, AtAction, OpOK
  <2>. QED
    BY <2>1, <2>2, <2>4, <2>5
<1>11. CASE MoveBack
  <2>1. FilesOK' /\ ManifestOK' /\ UNCHANGED <<manifest, item>>
    BY <1>11 DEF MoveBack, FilesOK, ManifestOK, Content
  <2>2. UiOK'
    BY <1>11 DEF MoveBack, Problem, ui, UiOK
  <2>3. /\ UNCHANGED key
        /\ pc = "back" /\ pc' = "check" /\ act' = act + 1
    BY <1>11 DEF MoveBack, Problem, OpOK
  <2>4. act <= manifest[item].n
    BY <2>3 DEF AtAction
  <2>5. OpOK'
    BY <1>b, <2>1, <2>3, <2>4 DEF OpOK
  <2>6. AtItem' /\ AtAction'
    BY <1>b, <2>1, <2>3, <2>4 DEF AtItem, AtAction, OpOK
  <2>. QED
    BY <2>1, <2>2, <2>5, <2>6
<1>12. CASE Rebootstrap
  <2>1. /\ UNCHANGED <<home, jail, manifest, torn, ui, report, sound>>
        /\ pc = "check" /\ item \in 1 .. Len(manifest)
    BY <1>12 DEF Rebootstrap, AtItem
  <2>2. FilesOK'
    BY <1>12, <2>1 DEF Rebootstrap, FilesOK
  <2>3. ManifestOK' /\ UiOK'
    BY <2>1 DEF ui, ManifestOK, UiOK
  <2>4. CASE /\ item < Len(manifest) /\ item' = item + 1 /\ key' = manifest[item + 1].key
             /\ act' = 1 /\ UNCHANGED pc
    <3>1. item + 1 \in 1 .. Len(manifest) /\ item + 1 \in 0 .. MaxItems
      BY <2>1, <2>4, QuarantineAssumption DEF ManifestOK
    <3>2. manifest[item + 1].key \in Findings /\ manifest[item + 1].n \in 1 .. 3
      BY <3>1, ItemType DEF ManifestOK
    <3>3. OpOK'
      BY <2>1, <2>4, <3>1, <3>2 DEF OpOK
    <3>4. AtItem' /\ AtAction'
      BY <2>1, <2>4, <3>1, <3>2 DEF AtItem, AtAction
    <3>. QED
      BY <2>2, <2>3, <3>3, <3>4
  <2>5. CASE pc' \in {"idle", "save"} /\ UNCHANGED <<item, key, act>>
    <3>1. OpOK'
      BY <2>1, <2>5 DEF OpOK
    <3>2. AtItem' /\ AtAction'
      BY <2>1, <2>5 DEF AtItem, AtAction
    <3>. QED
      BY <2>2, <2>3, <3>1, <3>2
  <2>. QED
    BY <1>12, <2>4, <2>5 DEF Rebootstrap
<1>13. CASE Save
  <2>1. manifest \in Seq(Items) /\ item \in 1 .. Len(manifest)
    BY <1>13, <1>b DEF Save, ManifestOK
  <2>2. /\ SubSeq(manifest, 1, item - 1) \o SubSeq(manifest, item + 1, Len(manifest))
             \in Seq(Items)
        /\ Len(SubSeq(manifest, 1, item - 1) \o SubSeq(manifest, item + 1, Len(manifest)))
             = Len(manifest) - 1
    BY <2>1, DropItem
  <2>3. << >> \in Seq(Items) /\ Len(<< >>) <= MaxItems
    BY QuarantineAssumption
  <2>4. ~torn
    BY <2>1 DEF ManifestOK
  <2>5. ASSUME UNCHANGED <<manifest, torn>> PROVE ManifestOK'
    BY <2>5 DEF ManifestOK
  <2>6. ASSUME manifest' = << >>, torn' = TRUE PROVE ManifestOK'
    BY <2>3, <2>6 DEF ManifestOK
  <2>7. ASSUME manifest' \in Seq(Items), Len(manifest') = Len(manifest) - 1, UNCHANGED torn
        PROVE  ManifestOK'
    BY <2>1, <2>4, <2>7, QuarantineAssumption DEF ManifestOK
  <2>8. ManifestOK'
    BY <1>13, <2>2, <2>5, <2>6, <2>7 DEF Save
  <2>9. UiOK' /\ FilesOK'
    BY <1>13 DEF Save, UiOK, FilesOK
  <2>10. OpOK' /\ AtItem' /\ AtAction'
    BY <1>13 DEF Save, op, OpOK, AtItem, AtAction
  <2>. QED
    BY <2>8, <2>9, <2>10
<1>14. ASSUME NEW f \in Files, Appear(f) \/ Vanish(f) PROVE Typed'
  <2>1. FilesOK'
    BY <1>14 DEF Appear, Vanish, FilesOK, Content
  <2>2. UNCHANGED <<manifest, torn, ui, pc, op, report, sound>>
    BY <1>14 DEF Appear, Vanish
  <2>3. ManifestOK' /\ UiOK' /\ OpOK' /\ AtItem' /\ AtAction'
    BY <2>2 DEF ui, op, ManifestOK, UiOK, OpOK, AtItem, AtAction
  <2>. QED
    BY <2>1, <2>3
<1>15. CASE Quit \/ Crash
  <2>1. FilesOK' /\ ManifestOK'
    BY <1>15 DEF Quit, Crash, disk, FilesOK, ManifestOK
  <2>2. UiOK' /\ OpOK' /\ AtItem' /\ AtAction'
    BY <1>15 DEF Quit, Crash, LeaveSession, op, UiOK, OpOK, AtItem, AtAction
  <2>. QED
    BY <2>1, <2>2
<1>16. CASE UNCHANGED vars
  BY <1>16 DEF vars, disk, ui, op, FilesOK, ManifestOK, UiOK, OpOK, AtItem, AtAction
<1>. QED
  BY <1>1, <1>3, <1>4, <1>5, <1>6, <1>7, <1>8, <1>9, <1>10, <1>11, <1>12, <1>13, <1>14,
     <1>15, <1>16 DEF Next

\* The types hold initially.
LEMMA TypedInit == Init => Typed
<1>. SUFFICES ASSUME Init PROVE Typed
  OBVIOUS
<1>1. ManifestOK
  <2>1. << >> \in Seq(Items) /\ Len(<< >>) <= MaxItems
    BY QuarantineAssumption
  <2>. QED
    BY <2>1 DEF Init, ManifestOK
<1>2. FilesOK
  BY DEF Init, FilesOK, Content
<1>3. UiOK /\ FlagsOK
  BY DEF Init, UiOK, FlagsOK
<1>4. OpOK
  BY QuarantineAssumption DEF Init, OpOK
<1>. QED
  BY <1>1, <1>2, <1>3, <1>4 DEF Init, Typed, AtItem, AtAction

\* Every variable keeps its type; in particular an item of the manifest records
\* one, two or three actions.
THEOREM TypeCorrect == Spec => []TypeOK
<1>1. Typed => TypeOK
  BY TypeParts DEF Typed
<1>. QED
  BY <1>1, TypedInit, TypedStep, PTL DEF Spec

-----------------------------------------------------------------------------
(* Nothing is lost. *)

\* Between the check and the rename nothing is put into the quarantine path, and
\* the original is not at the place a restore is about to fill.
Window == /\ pc = "rename" => File \in Files /\ jail[File] = "none"
          /\ pc = "back" => File \in Files /\ home[File] # "orig"

Safe == Window /\ NeverLost

\* An artifact named by an action of a finding is a file.
LEMMA FileIsFile ==
    ASSUME NEW k \in Findings, NEW a \in Artifacts
    PROVE  <<k, a>> \in Files
BY DEF Files

\* Every step preserves what the safety argument needs.
LEMMA SafeStep == Typed /\ Safe /\ [Next]_vars => Safe'
<1>. SUFFICES ASSUME Typed, Safe, [Next]_vars PROVE Safe'
  OBVIOUS
<1>0. home \in [Files -> Content] /\ jail \in [Files -> Content] /\ key \in Findings
  BY DEF Typed, FilesOK, OpOK
<1>. USE DEF Safe, NeverLost, Window
<1>1. ASSUME NEW k \in Findings, Confirm(k) \/ Undo(k) PROVE Safe'
  BY <1>1 DEF Confirm, Undo, BeginItem, disk
<1>2. CASE Bootout
  BY <1>2 DEF Bootout, Stop
<1>3. CASE CheckMove
  <2>1. /\ UNCHANGED disk /\ UNCHANGED <<key, act>>
        /\ pc' \in {"rename", "record"}
        /\ pc' = "rename" => jail[File] = "none" /\ PlannedActions(key)[act] \in Artifacts
    BY <1>3 DEF CheckMove, Stop
  <2>2. pc' = "rename" => File \in Files
    BY <1>0, <2>1, FileIsFile DEF File
  <2>3. File' = File
    BY <2>1 DEF File
  <2>. QED
    BY <2>1, <2>2, <2>3 DEF disk
<1>4. CASE Move
  <2>1. pc = "rename"
    BY <1>4 DEF Move
  <2>2. File \in Files /\ jail[File] = "none" /\ home[File] = "orig"
    BY <2>1
  <2>3. CASE /\ jail' = [jail EXCEPT ![File] = home[File]]
             /\ home' = [home EXCEPT ![File] = "none"]
             /\ act' = act + 1 /\ pc' = "act"
    BY <1>0, <2>2, <2>3
  <2>4. CASE UNCHANGED <<home, jail>> /\ Stop
    BY <2>4 DEF Stop
  <2>. QED
    BY <1>4, <2>3, <2>4 DEF Move
<1>5. CASE AllActed \/ Rebootstrap \/ Quit \/ Crash
  BY <1>5 DEF AllActed, Rebootstrap, Quit, Crash, LeaveSession, disk
<1>6. CASE Record \/ Save
  BY <1>6 DEF Record, Save
<1>7. CASE Restore
  BY <1>7 DEF Restore, BeginItem, disk
<1>8. CASE CheckBack
  <2>1. /\ UNCHANGED disk /\ UNCHANGED key
        /\ pc' \in {"check", "back"}
        /\ pc' = "back" => /\ home[File] = "none" /\ PlannedActions(key)[act] \in Artifacts
                           /\ act' = act
    BY <1>8 DEF CheckBack, Problem
  <2>2. pc' = "back" => File \in Files /\ File' = File
    BY <1>0, <2>1, FileIsFile DEF File
  <2>. QED
    BY <2>1, <2>2 DEF disk
<1>9. CASE MoveBack
  <2>1. pc = "back"
    BY <1>9 DEF MoveBack
  <2>2. File \in Files /\ jail[File] = "orig"
    BY <2>1
  <2>3. CASE /\ home' = [home EXCEPT ![File] = jail[File]]
             /\ jail' = [jail EXCEPT ![File] = "none"]
             /\ pc' = "check"
    BY <1>0, <2>2, <2>3
  <2>4. CASE UNCHANGED <<home, jail>> /\ Problem
    BY <2>4 DEF Problem
  <2>. QED
    BY <1>9, <2>3, <2>4 DEF MoveBack
<1>10. ASSUME NEW f \in Files, Appear(f) \/ Vanish(f) PROVE Safe'
  <2>1. /\ UNCHANGED <<jail, pc, key, act>>
        /\ home[f] # "orig"
        /\ \E c \in {"none", "foreign"} : home' = [home EXCEPT ![f] = c]
    BY <1>10 DEF Appear, Vanish, op
  <2>2. File' = File
    BY <2>1 DEF File
  <2>. QED
    BY <1>0, <2>1, <2>2 DEF Content
<1>11. CASE UNCHANGED vars
  <2>1. UNCHANGED <<home, jail, pc, key, act>>
    BY <1>11 DEF vars, disk, op
  <2>2. File' = File
    BY <2>1 DEF File
  <2>. QED
    BY <2>1, <2>2
<1>. QED
  BY <1>1, <1>2, <1>3, <1>4, <1>5, <1>6, <1>7, <1>8, <1>9, <1>10, <1>11 DEF Next

\* "Never deleting", for any findings, and any combination of faults: every
\* artifact is at its place or in quarantine, at every step of every behaviour.
THEOREM ArtifactsNeverLost == Spec => []NeverLost
<1>1. Init => Typed /\ Safe
  BY TypedInit DEF Init, Safe, Window, NeverLost
<1>2. Typed /\ Safe => NeverLost
  BY DEF Safe
<1>. QED
  BY <1>1, <1>2, TypedStep, SafeStep, PTL DEF Spec

-----------------------------------------------------------------------------
(* What the manifest is for: it lists whatever is in quarantine, so that what is done
   can be undone, and a restore without an issue leaves nothing behind. *)


\* The artifacts among the first n actions for k are not in quarantine.
Emptied(k, n) == \A a \in 1 .. n : PlannedActions(k)[a] \in Artifacts
                                       => jail[<<k, PlannedActions(k)[a]>>] = "none"

\* The quarantine under way has moved f, and will record it.
Moved(f) == /\ pc \in {"act", "rename", "record"} /\ f[1] = key
            /\ \E a \in 1 .. act - 1 : PlannedActions(key)[a] = f[2]

Held == \A f \in Files : jail[f] # "none" => Listed(f) \/ Moved(f)

\* A finding is restored by one item; if there was no problem so far, what the item
\* listed so far is back.
Restoring == /\ pc \in {"check", "back", "save"} => manifest[item].key = key
             /\ pc \in {"check", "back", "save"} /\ ok => Emptied(key, act - 1)
             /\ pc = "save" => ok /\ act > manifest[item].n

\* What the console does belongs to a session, and what restores all does not.
Whose == /\ pc \in {"act", "rename", "record"} => session
         /\ pc \in {"check", "back", "save"} => whole = ~session
         /\ pc = "save" => session

\* As long as no issue was reported, everything listed so far is back.
Clean == report = "clean" =>
            /\ ~session
            /\ pc \in {"check", "back"} =>
                  /\ Emptied(key, act - 1)
                  /\ \A i \in 1 .. item - 1 : Emptied(manifest[i].key, manifest[i].n)
            /\ pc = "idle" => \A f \in Files : jail[f] = "none"

\* A quarantine that succeeded has carried out its actions.
Succeeded == pc = "record" /\ ok => act > Len(PlannedActions(key))

HasItem(k) == \E i \in DOMAIN manifest : manifest[i].key = k

Done == \A k \in done : HasItem(k)

Parts == Held /\ Restoring /\ Whose /\ Clean /\ Succeeded /\ Done

ManifestInv == sound => Parts

\* Without item i, a manifest has the other ones.
LEMMA OthersStay ==
    ASSUME NEW m \in Seq(Items), NEW i \in 1 .. Len(m), NEW j \in 1 .. Len(m), j # i
    PROVE  LET rest == SubSeq(m, 1, i - 1) \o SubSeq(m, i + 1, Len(m))
           IN  \E x \in DOMAIN rest : rest[x] = m[j]
<1>. DEFINE before == SubSeq(m, 1, i - 1)
            after == SubSeq(m, i + 1, Len(m))
            rest == before \o after
            x == IF j < i THEN j ELSE j - 1
<1>1. \A y \in 1 .. Len(m) : m[y] \in Items
  OBVIOUS
<1>2. before \in Seq(Items) /\ Len(before) = i - 1 /\ \A y \in 1 .. i - 1 : before[y] = m[y]
  BY <1>1
<1>3. /\ after \in Seq(Items) /\ Len(after) = Len(m) - i
      /\ \A y \in 1 .. Len(m) - i : after[y] = m[i + y]
  BY <1>1
<1>. HIDE DEF before, after
<1>4. rest \in Seq(Items) /\ Len(rest) = Len(m) - 1
  BY DropItem DEF before, after
<1>5. \A y \in 1 .. Len(rest) :
          rest[y] = IF y <= Len(before) THEN before[y] ELSE after[y - Len(before)]
  BY <1>2, <1>3
<1>6. x \in 1 .. Len(rest)
  BY <1>4
<1>7. rest[x] = m[j]
  <2>1. CASE j < i
    BY <2>1, <1>2, <1>5, <1>6
  <2>2. CASE j > i
    <3>1. x = j - 1 /\ x - Len(before) = j - i /\ j - i \in 1 .. Len(m) - i /\ i + (j - i) = j
          /\ ~(x <= Len(before))
      BY <2>2, <1>2
    <3>2. rest[x] = after[j - i]
      BY <3>1, <1>5, <1>6
    <3>3. after[j - i] = m[i + (j - i)]
      BY <3>1, <1>3
    <3>. QED
      BY <3>1, <3>2, <3>3
  <2>3. j < i \/ j > i
    OBVIOUS
  <2>. HIDE DEF rest, x
  <2>. QED
    BY <2>1, <2>2, <2>3
<1>. HIDE DEF rest, x
<1>8. x \in DOMAIN rest
  BY <1>4, <1>6
<1>. QED
  BY <1>7, <1>8 DEF before, after, rest

\* What is listed stays listed, and a finding keeps its item, if no item is gone.
LEMMA ListedStays ==
    ASSUME \A i \in DOMAIN manifest : \E x \in DOMAIN manifest' : manifest'[x] = manifest[i]
    PROVE  /\ \A f : Listed(f) => Listed(f)'
           /\ \A k : HasItem(k) => HasItem(k)'
<1>1. ASSUME NEW f, Listed(f) PROVE Listed(f)'
  <2>1. PICK i \in DOMAIN manifest :
            /\ manifest[i].key = f[1]
            /\ \E a \in 1 .. manifest[i].n : PlannedActions(f[1])[a] = f[2]
    BY <1>1 DEF Listed
  <2>2. PICK x \in DOMAIN manifest' : manifest'[x] = manifest[i]
    OBVIOUS
  <2>. QED
    BY <2>1, <2>2 DEF Listed
<1>. QED
  BY <1>1 DEF HasItem

\* A step that leaves the quarantine folder, the manifest, the operation and the session
\* alone.
LEMMA PartsAlone ==
    ASSUME Parts, UNCHANGED <<jail, manifest, pc, op, done, report, session>>
    PROVE  Parts'
BY DEF Parts, Held, Listed, Moved, Restoring, Emptied, Whose, Clean, Succeeded, Done, HasItem, op

\* A manifest that was not written once is not trusted again.
LEMMA OnceUnsound == [Next]_vars /\ sound' => sound
<1>. SUFFICES ASSUME [Next]_vars, sound' # sound PROVE sound' = FALSE
  OBVIOUS
<1>1. ASSUME NEW k \in Findings, Confirm(k) \/ Undo(k) PROVE sound' = sound
  BY <1>1 DEF Confirm, Undo
<1>2. CASE Bootout \/ CheckMove \/ Move \/ AllActed
  BY <1>2 DEF Bootout, CheckMove, Move, AllActed
<1>3. CASE Restore \/ CheckBack \/ MoveBack \/ Rebootstrap
  BY <1>3 DEF Restore, CheckBack, MoveBack, Rebootstrap
<1>4. CASE Record \/ Save
  BY <1>4 DEF Record, Save, WriteManifest
<1>5. ASSUME NEW f \in Files, Appear(f) \/ Vanish(f) PROVE sound' = sound
  BY <1>5 DEF Appear, Vanish
<1>6. CASE Quit \/ Crash \/ UNCHANGED vars
  BY <1>6 DEF Quit, Crash, vars
<1>. QED
  BY <1>1, <1>2, <1>3, <1>4, <1>5, <1>6 DEF Next

\* Every step that leaves the manifest true preserves what it is true of.
LEMMA PartsStep ==
    ASSUME Typed, Safe, Parts, [Next]_vars, sound'
    PROVE  Parts'
<1>0. /\ jail \in [Files -> Content] /\ key \in Findings
      /\ manifest \in Seq(Items) /\ act \in 1 .. 4
      /\ ok \in BOOLEAN /\ whole \in BOOLEAN /\ session \in BOOLEAN
      /\ pc \in {"check", "back", "save"} => item \in 1 .. Len(manifest)
  BY DEF Typed, FilesOK, ManifestOK, OpOK, FlagsOK, UiOK, AtItem
<1>. USE DEF Parts
\* What was in quarantine and is listed stays so as long as the folder only loses files.
<1>a. ASSUME UNCHANGED manifest, \A f \in Files : jail'[f] = "none" \/ jail'[f] = jail[f],
             pc \notin {"act", "rename", "record"}
      PROVE  Held'
  <2>1. \A f \in Files : Listed(f)' = Listed(f)
    BY <1>a DEF Listed
  <2>2. \A f \in Files : jail'[f] # "none" => Listed(f)
    BY <1>a DEF Held, Moved
  <2>. QED
    BY <2>1, <2>2 DEF Held
<1>1. ASSUME NEW k \in Findings, Confirm(k) PROVE Parts'
  <2>1. /\ UNCHANGED <<jail, manifest, done, report, session>>
        /\ pc = "idle" /\ pc' = "act" /\ session
    BY <1>1 DEF Confirm, disk, ui
  <2>2. Held'
    BY <1>a, <2>1
  <2>3. Restoring' /\ Whose' /\ Succeeded'
    BY <2>1 DEF Restoring, Whose, Succeeded
  <2>4. Clean' /\ Done'
    BY <2>1 DEF Clean, Done, HasItem
  <2>. QED
    BY <2>2, <2>3, <2>4
<1>2. ASSUME NEW i \in DOMAIN manifest, BeginItem(i), UNCHANGED <<disk, ui>>, pc = "idle",
             whole' = ~session, report' = "clean" => ~session /\ i = 1
      PROVE  Parts'
  <2>1. UNCHANGED <<jail, manifest, done, session>>
    BY <1>2 DEF disk, ui
  <2>2. /\ item' = i /\ key' = manifest[i].key /\ act' = 1 /\ ok' = TRUE /\ pc' = "check"
    BY <1>2 DEF BeginItem
  <2>3. Held'
    BY <1>a, <1>2, <2>1
  <2>4. Restoring' /\ Whose' /\ Succeeded' /\ Done'
    BY <1>2, <2>1, <2>2 DEF Restoring, Whose, Succeeded, Done, HasItem, Emptied
  <2>5. Clean'
    BY <1>2, <2>1, <2>2 DEF Clean, Emptied
  <2>. QED
    BY <2>3, <2>4, <2>5
<1>3. ASSUME NEW k \in Findings, Undo(k) PROVE Parts'
  <2>1. PICK i \in DOMAIN manifest : BeginItem(i)
    BY <1>3 DEF Undo
  <2>. QED
    BY <1>2, <1>3, <2>1 DEF Undo, Clean
<1>4. CASE Restore
  <2>1. 1 \in DOMAIN manifest
    BY <1>0, <1>4 DEF Restore
  <2>. QED
    BY <1>2, <1>4, <2>1 DEF Restore
<1>5. CASE Bootout \/ CheckMove \/ AllActed
  <2>1. /\ UNCHANGED <<jail, manifest, done, report, session, key>>
        /\ pc = "act" /\ pc' \in {"act", "rename", "record"}
        /\ act' = act \/ act' = act + 1
        /\ pc' = "record" => ok' = FALSE \/ (act' = act /\ act > Len(PlannedActions(key)))
    BY <1>5 DEF Bootout, CheckMove, AllActed, Stop, disk, ui, op
  <2>2. Held'
    <3>1. \A f \in Files : Moved(f) => Moved(f)'
      BY <1>0, <2>1 DEF Moved
    <3>2. \A f \in Files : Listed(f) => Listed(f)'
      BY <2>1 DEF Listed
    <3>. QED
      BY <2>1, <3>1, <3>2 DEF Held
  <2>3. Restoring' /\ Whose' /\ Succeeded'
    BY <2>1 DEF Restoring, Whose, Succeeded
  <2>4. Clean' /\ Done'
    BY <2>1 DEF Clean, Done, HasItem, Whose
  <2>. QED
    BY <2>2, <2>3, <2>4
<1>6. CASE Move
  <2>1. /\ UNCHANGED <<manifest, done, report, session, key>>
        /\ pc = "rename" /\ pc' \in {"act", "record"}
        /\ pc' = "record" => ok' = FALSE
    BY <1>6 DEF Move, Stop, ui
  <2>2. \/ act' = act /\ UNCHANGED jail
        \/ act' = act + 1 /\ \A f \in Files : f # File => jail'[f] = jail[f]
    BY <1>0, <1>6 DEF Move, Stop
  <2>3. Held'
    <3>1. \A f \in Files : Moved(f) => Moved(f)'
      BY <1>0, <2>1, <2>2 DEF Moved
    <3>2. \A f \in Files : Listed(f) => Listed(f)'
      BY <2>1 DEF Listed
    <3>3. ASSUME act' = act + 1, NEW f \in Files, f = File PROVE Moved(f)'
      <4>1. f[1] = key /\ PlannedActions(key)[act] = f[2]
        BY <3>3 DEF File
      <4>2. act \in 1 .. act' - 1 /\ pc' = "act"
        BY <1>0, <1>6, <2>1, <3>3 DEF Move, Stop
      <4>. QED
        BY <2>1, <4>1, <4>2 DEF Moved
    <3>4. ASSUME NEW f \in Files, jail'[f] # "none" PROVE Listed(f)' \/ Moved(f)'
      BY <2>2, <3>1, <3>2, <3>3, <3>4 DEF Held
    <3>. QED
      BY <3>4 DEF Held
  <2>4. Restoring' /\ Whose' /\ Succeeded'
    BY <2>1 DEF Restoring, Whose, Succeeded
  <2>5. Clean' /\ Done'
    BY <2>1 DEF Clean, Done, HasItem, Whose
  <2>. QED
    BY <2>3, <2>4, <2>5
<1>7. CASE Record
  <2>1. /\ UNCHANGED <<jail, report, session>> /\ pc = "record" /\ pc' = "idle" /\ session
        /\ UNCHANGED <<key, act>>
        /\ done' = IF ok THEN done \cup {key} ELSE done
    BY <1>7 DEF Record, op, Whose
  <2>2. IF act > 1 THEN manifest' = Append(manifest, [key |-> key, n |-> act - 1])
                   ELSE manifest' = manifest
    BY <1>7 DEF Record, WriteManifest
  <2>3. \A i \in DOMAIN manifest : \E x \in DOMAIN manifest' : manifest'[x] = manifest[i]
    BY <1>0, <2>2
  <2>4. act > 1 => \E x \in DOMAIN manifest' : manifest'[x] = [key |-> key, n |-> act - 1]
    BY <1>0, <2>2
  <2>5. /\ \A f : Listed(f) => Listed(f)'
        /\ \A k : HasItem(k) => HasItem(k)'
    BY <2>3, ListedStays
  <2>6. Held'
    <3>1. ASSUME NEW f \in Files, Moved(f) PROVE Listed(f)'
      <4>1. f[1] = key /\ act > 1 /\ \E a \in 1 .. act - 1 : PlannedActions(f[1])[a] = f[2]
        BY <1>0, <3>1 DEF Moved
      <4>2. PICK x \in DOMAIN manifest' : manifest'[x] = [key |-> key, n |-> act - 1]
        BY <2>4, <4>1
      <4>3. manifest'[x].key = f[1] /\ manifest'[x].n = act - 1
        BY <4>1, <4>2
      <4>. QED
        BY <4>1, <4>3 DEF Listed
    <3>. QED
      BY <2>1, <2>5, <3>1 DEF Held
  <2>7. Done'
    <3>1. ok => HasItem(key)'
      <4>1. ok => act > 1
        BY <1>0, <2>1, PlannedCount DEF Succeeded
      <4>2. ASSUME ok PROVE HasItem(key)'
        <5>1. PICK x \in DOMAIN manifest' : manifest'[x] = [key |-> key, n |-> act - 1]
          BY <2>4, <4>1, <4>2
        <5>2. manifest'[x].key = key /\ key' = key
          BY <2>1, <5>1
        <5>. QED
          BY <5>2 DEF HasItem
      <4>. QED
        BY <4>2
    <3>. QED
      BY <2>1, <2>5, <3>1 DEF Done
  <2>8. Restoring' /\ Whose' /\ Succeeded' /\ Clean'
    BY <2>1 DEF Restoring, Whose, Succeeded, Clean
  <2>. QED
    BY <2>6, <2>7, <2>8
<1>8. CASE CheckBack \/ MoveBack
  <2>1. /\ UNCHANGED <<manifest, done, session, key, item, whole>>
        /\ pc \in {"check", "back"} /\ pc' \in {"check", "back"}
    BY <1>8 DEF CheckBack, MoveBack, Problem, disk, ui
  <2>2. \A f \in Files : jail'[f] = "none" \/ jail'[f] = jail[f]
    BY <1>0, <1>8 DEF CheckBack, MoveBack, disk
  <2>3. \/ ok' = FALSE /\ report' = IF whole THEN "issues" ELSE report
        \/ /\ UNCHANGED <<ok, report>>
           /\ \/ act' = act
              \/ /\ act' = act + 1
                 /\ PlannedActions(key)[act] \in Artifacts =>
                        jail'[<<key, PlannedActions(key)[act]>>] = "none"
    <3>1. CASE CheckBack
      BY <3>1 DEF CheckBack, Problem, Artifacts
    <3>2. CASE MoveBack
      <4>1. File \in Files
        BY <3>2 DEF MoveBack, Safe, Window
      <4>. QED
        BY <1>0, <3>2, <4>1 DEF MoveBack, Problem, File
    <3>. QED
      BY <1>8, <3>1, <3>2
  <2>4. \A k \in Findings, n \in Nat : Emptied(k, n) => Emptied(k, n)'
    BY <2>2, FileIsFile DEF Emptied
  <2>5. ASSUME Emptied(key, act - 1),
               \/ act' = act
               \/ /\ act' = act + 1
                  /\ PlannedActions(key)[act] \in Artifacts =>
                         jail'[<<key, PlannedActions(key)[act]>>] = "none"
        PROVE  Emptied(key, act - 1)'
    <3> SUFFICES ASSUME NEW a \in 1 .. act' - 1, PlannedActions(key)[a] \in Artifacts
                 PROVE  jail'[<<key, PlannedActions(key)[a]>>] = "none"
      BY <2>1 DEF Emptied
    <3>1. CASE a \in 1 .. act - 1
      <4>1. jail[<<key, PlannedActions(key)[a]>>] = "none"
        BY <2>5, <3>1 DEF Emptied
      <4>2. <<key, PlannedActions(key)[a]>> \in Files
        BY <1>0, FileIsFile
      <4>. QED
        BY <2>2, <4>1, <4>2
    <3>2. CASE a = act /\ act' = act + 1
      BY <2>5, <3>2, <1>0
    <3>. QED
      BY <2>5, <3>1, <3>2, <1>0
  <2>6. Held'
    BY <1>a, <2>1, <2>2
  <2>7. Restoring'
    <3>1. ASSUME ok' PROVE Emptied(key, act - 1)'
      <4>1. UNCHANGED ok
        BY <2>3, <3>1
      <4>2. Emptied(key, act - 1)
        BY <2>1, <3>1, <4>1 DEF Restoring
      <4>. QED
        BY <2>3, <2>5, <3>1, <4>2
    <3>. QED
      BY <2>1, <3>1 DEF Restoring
  <2>8. Whose' /\ Succeeded' /\ Done'
    BY <2>1 DEF Whose, Succeeded, Done, HasItem
  <2>9. ASSUME report' = "clean"
        PROVE  /\ ~session' /\ Emptied(key, act - 1)'
               /\ (\A i \in 1 .. item - 1 : Emptied(manifest[i].key, manifest[i].n))'
    <3>1. whole = ~session
      BY <2>1 DEF Whose
    <3>2. report = "clean" => ~session
      BY DEF Clean
    <3>3. /\ report = "clean"
          /\ \/ act' = act
             \/ /\ act' = act + 1
                /\ PlannedActions(key)[act] \in Artifacts =>
                       jail'[<<key, PlannedActions(key)[act]>>] = "none"
      BY <1>0, <2>3, <2>9, <3>1, <3>2
    <3>4. /\ ~session /\ Emptied(key, act - 1)
          /\ \A i \in 1 .. item - 1 : Emptied(manifest[i].key, manifest[i].n)
      BY <2>1, <3>3 DEF Clean
    <3>5. ASSUME NEW i \in 1 .. item - 1
          PROVE  Emptied(manifest[i].key, manifest[i].n)'
      <4>1. PICK m \in Items : m = manifest[i] /\ m.key \in Findings /\ m.n \in 1 .. 3
        BY <1>0, <2>1, ItemType
      <4>2. Emptied(m.key, m.n)'
        BY <2>4, <3>4, <4>1
      <4>. QED
        BY <2>1, <4>1, <4>2 DEF Emptied
    <3>. QED
      BY <2>1, <2>5, <3>3, <3>4, <3>5
  <2>10. Clean'
    BY <2>1, <2>9 DEF Clean
  <2>. QED
    BY <2>6, <2>7, <2>8, <2>10
<1>9. CASE Rebootstrap
  <2>1. /\ UNCHANGED <<jail, manifest, done, session, whole, report>>
        /\ pc = "check" /\ item \in 1 .. Len(manifest) /\ act > manifest[item].n
        /\ manifest[item].n \in 1 .. 3 /\ manifest[item].key = key
    BY <1>0, <1>9, ItemType DEF Rebootstrap, ui, Restoring
  <2>2. Held'
    BY <1>a, <2>1
  <2>3. Done' /\ Succeeded' /\ pc' \in {"check", "save", "idle"}
    BY <1>9, <2>1 DEF Done, HasItem, Succeeded, Rebootstrap
  <2>4. report = "clean" =>
            /\ ~session /\ whole
            /\ \A i \in 1 .. item : Emptied(manifest[i].key, manifest[i].n)
    <3>1. Emptied(key, act - 1) => Emptied(manifest[item].key, manifest[item].n)
      BY <1>0, <2>1 DEF Emptied
    <3>2. report = "clean" => ~session /\ whole
      BY <1>0, <2>1 DEF Clean, Whose
    <3>3. ASSUME report = "clean", NEW i \in 1 .. item
          PROVE  Emptied(manifest[i].key, manifest[i].n)
      <4>1. CASE i = item
        BY <2>1, <3>1, <3>3, <4>1 DEF Clean
      <4>2. CASE i \in 1 .. item - 1
        BY <2>1, <3>3, <4>2 DEF Clean
      <4>. QED
        BY <1>0, <2>1, <4>1, <4>2
    <3>. QED
      BY <3>2, <3>3
  <2>5. CASE whole /\ item < Len(manifest)
    <3>1. /\ item' = item + 1 /\ key' = manifest'[item'].key /\ act' = 1 /\ pc' = "check"
      BY <1>9, <2>1, <2>5 DEF Rebootstrap
    <3>2. Emptied(key, act - 1)' /\ Whose'
      <4>1. Emptied(key, act - 1)'
        BY <3>1 DEF Emptied
      <4>2. Whose'
        BY <2>1, <3>1 DEF Whose
      <4>. QED
        BY <4>1, <4>2
    <3>3. Restoring'
      BY <2>1, <3>1, <3>2 DEF Restoring
    <3>4. Clean'
      <4>2. report = "clean" =>
                (\A i \in 1 .. item - 1 : Emptied(manifest[i].key, manifest[i].n))'
        BY <2>1, <2>4, <3>1 DEF Emptied
      <4>. QED
        BY <2>1, <2>4, <3>1, <3>2, <4>2 DEF Clean
    <3>. QED
      BY <2>2, <2>3, <3>2, <3>3, <3>4
  <2>6. CASE whole /\ item = Len(manifest)
    <3>1. pc' = "idle"
      BY <1>9, <2>1, <2>6 DEF Rebootstrap
    <3>2. Restoring' /\ Whose'
      BY <3>1 DEF Restoring, Whose
    <3>3. ASSUME report = "clean", NEW f \in Files
          PROVE  jail[f] = "none"
      <4>1. SUFFICES ASSUME Listed(f) PROVE jail[f] = "none"
        BY <2>1 DEF Held, Moved
      <4>2. PICK i \in DOMAIN manifest : /\ manifest[i].key = f[1]
                                         /\ \E a \in 1 .. manifest[i].n :
                                                PlannedActions(f[1])[a] = f[2]
        BY <4>1 DEF Listed
      <4>3. f = <<f[1], f[2]>> /\ f[2] \in Artifacts
        BY DEF Files
      <4>4. Emptied(manifest[i].key, manifest[i].n)
        BY <1>0, <2>4, <2>6, <3>3
      <4>. QED
        BY <4>2, <4>3, <4>4 DEF Emptied
    <3>4. Clean'
      BY <2>1, <2>4, <3>1, <3>3 DEF Clean
    <3>. QED
      BY <2>2, <2>3, <3>2, <3>4
  <2>7. CASE ~whole
    <3>1. UNCHANGED <<item, key, act, ok>> /\ pc' = IF ok THEN "save" ELSE "idle"
      BY <1>9, <2>7 DEF Rebootstrap
    <3>2. session /\ report # "clean"
      BY <1>0, <2>1, <2>4, <2>7 DEF Whose
    <3>3. Restoring'
      BY <2>1, <3>1 DEF Restoring, Emptied
    <3>4. Whose' /\ Clean'
      BY <2>1, <2>7, <3>1, <3>2 DEF Whose, Clean
    <3>. QED
      BY <2>2, <2>3, <3>3, <3>4
  <2>. QED
    BY <1>9, <2>5, <2>6, <2>7 DEF Rebootstrap
<1>10. CASE Save
  <2>1. /\ UNCHANGED <<jail, session, report>> /\ pc = "save" /\ pc' = "idle" /\ session
        /\ done' = done \ {key} /\ item \in 1 .. Len(manifest) /\ manifest[item].key = key
        /\ manifest' = SubSeq(manifest, 1, item - 1) \o SubSeq(manifest, item + 1, Len(manifest))
    BY <1>0, <1>10 DEF Save, Whose, Restoring
  <2>2. ASSUME NEW j \in DOMAIN manifest, j # item
        PROVE  \E x \in DOMAIN manifest' : manifest'[x] = manifest[j]
    <3>1. j \in 1 .. Len(manifest)
      BY <1>0
    <3>. QED
      BY <1>0, <2>1, <2>2, <3>1, OthersStay
  <2>3. Emptied(key, manifest[item].n)
    <3>1. Emptied(key, act - 1) /\ act > manifest[item].n /\ manifest[item].n \in 1 .. 3
      BY <1>0, <2>1, ItemType DEF Restoring
    <3>. QED
      BY <1>0, <3>1 DEF Emptied
  <2>4. ASSUME NEW f \in Files, jail[f] # "none"
        PROVE  Listed(f)'
    <3>1. PICK j \in DOMAIN manifest : /\ manifest[j].key = f[1]
                                       /\ \E a \in 1 .. manifest[j].n :
                                              PlannedActions(f[1])[a] = f[2]
      BY <2>1, <2>4 DEF Held, Moved, Listed
    <3>2. f = <<f[1], f[2]>> /\ f[2] \in Artifacts
      BY DEF Files
    <3>3. j # item
      BY <2>1, <2>3, <2>4, <3>1, <3>2 DEF Emptied
    <3>4. PICK x \in DOMAIN manifest' : manifest'[x] = manifest[j]
      BY <2>2, <3>3
    <3>. QED
      BY <3>1, <3>4 DEF Listed
  <2>5. Held'
    BY <2>1, <2>4 DEF Held
  <2>6. Done'
    <3>1. ASSUME NEW k \in done \ {key} PROVE HasItem(k)'
      <4>1. PICK j \in DOMAIN manifest : manifest[j].key = k
        BY DEF Done, HasItem
      <4>2. PICK x \in DOMAIN manifest' : manifest'[x] = manifest[j]
        BY <2>1, <2>2, <4>1
      <4>. QED
        BY <4>1, <4>2 DEF HasItem
    <3>. QED
      BY <2>1, <3>1 DEF Done
  <2>7. Restoring' /\ Whose' /\ Clean' /\ Succeeded'
    BY <2>1 DEF Restoring, Whose, Clean, Succeeded
  <2>. QED
    BY <2>5, <2>6, <2>7
<1>11. ASSUME NEW f \in Files, Appear(f) \/ Vanish(f) PROVE Parts'
  BY <1>11, PartsAlone DEF Appear, Vanish, ui
<1>12. CASE Quit
  <2>1. /\ UNCHANGED <<jail, manifest, report>> /\ pc = "idle" /\ pc' = "idle" /\ done' = {}
        /\ session
    BY <1>12 DEF Quit, LeaveSession, disk
  <2>2. Held'
    BY <1>a, <2>1
  <2>3. Restoring' /\ Whose' /\ Clean' /\ Succeeded' /\ Done'
    BY <2>1 DEF Restoring, Whose, Clean, Succeeded, Done
  <2>. QED
    BY <2>2, <2>3
<1>13. CASE UNCHANGED vars
  BY <1>13, PartsAlone DEF vars, disk, ui
<1>14. ~Crash
  BY DEF Crash
<1>. QED
  BY <1>1, <1>3, <1>4, <1>5, <1>6, <1>7, <1>8, <1>9, <1>10, <1>11, <1>12, <1>13, <1>14 DEF Next

\* What the theorems below follow from.
LEMMA ManifestKept == Init /\ [][Next]_vars => [](Typed /\ ManifestInv)
<1>1. Init => Typed /\ Safe /\ ManifestInv
  <2>. SUFFICES ASSUME Init PROVE Typed /\ Safe /\ ManifestInv
    OBVIOUS
  <2>1. Typed
    BY TypedInit
  <2>2. Safe
    BY DEF Init, Safe, Window, NeverLost
  <2>3. Held /\ Restoring /\ Whose /\ Clean /\ Succeeded /\ Done
    BY DEF Init, Held, Restoring, Whose, Clean, Succeeded, Done
  <2>. QED
    BY <2>1, <2>2, <2>3 DEF ManifestInv, Parts
<1>2. Typed /\ Safe /\ ManifestInv /\ [Next]_vars => Typed' /\ Safe' /\ ManifestInv'
  <2>. SUFFICES ASSUME Typed, Safe, ManifestInv, [Next]_vars
                PROVE  Typed' /\ Safe' /\ ManifestInv'
    OBVIOUS
  <2>1. Typed' /\ Safe'
    BY TypedStep, SafeStep
  <2>2. ASSUME sound' PROVE Parts'
    <3>1. sound
      BY <2>2, OnceUnsound
    <3>2. Parts
      BY <3>1 DEF ManifestInv
    <3>. QED
      BY <2>2, <3>2, PartsStep
  <2>. QED
    BY <2>1, <2>2 DEF ManifestInv
<1>. QED
  BY <1>1, <1>2, PTL

\* The manifest lists whatever is in the folder: for any findings, through refused
\* moves, retries, undos and items that respawn, as long as it can be written and the
\* session lives.
THEOREM NeverOrphans == Spec => []NoOrphans
<1>1. ManifestInv => NoOrphans
  BY DEF ManifestInv, Parts, NoOrphans, Held, Moved
<1>. QED
  BY <1>1, ManifestKept, PTL DEF Spec

\* A `counterspy restore` that reports no issue has emptied the folder, however many
\* items it had and whatever respawned meanwhile.
THEOREM CleanRestoreEmpties == Spec => []CleanRestoreIsWhole
<1>1. ManifestInv => CleanRestoreIsWhole
  BY DEF ManifestInv, Parts, CleanRestoreIsWhole, Clean
<1>. QED
  BY <1>1, ManifestKept, PTL DEF Spec

\* What the console shows as quarantined can be taken back by its key.
THEOREM DoneAlwaysHasItem == Spec => []DoneHasItem
<1>1. ManifestInv => DoneHasItem
  BY DEF ManifestInv, Parts, DoneHasItem, Done, HasItem
<1>. QED
  BY <1>1, ManifestKept, PTL DEF Spec

-----------------------------------------------------------------------------
(* Triage. *)

(* What any step may do to a component. *)

\* Every step is one of the session's, or leaves it alone.
LEMMA SessionStep == [TriageNext]_triageVars => [Next]_vars
<1>. SUFFICES ASSUME [TriageNext]_triageVars PROVE [Next]_vars
  OBVIOUS
<1>0. UNCHANGED quarantineVars => UNCHANGED vars
  BY DEF quarantineVars, vars, disk, ui, op
<1>1. CASE Acting
  BY <1>1 DEF Acting, Next
<1>2. CASE Scanning \/ ScanAgain \/ Submitting
  BY <1>0, <1>2 DEF Scanning, ScanAgain, Submitting
<1>3. ASSUME NEW c \in Consoles, OpenConsole(c) \/ Review(c) \/ LabelFinding(c) \/ LeaveConsole(c)
      PROVE  UNCHANGED vars
  BY <1>0, <1>3 DEF OpenConsole, Review, LabelFinding, LeaveConsole
<1>4. ASSUME NEW w \in Writers, Labelling(w) PROVE UNCHANGED vars
  BY <1>0, <1>4 DEF Labelling
<1>5. CASE UNCHANGED triageVars
  BY <1>0, <1>5 DEF triageVars
<1>. QED
  BY <1>1, <1>2, <1>3, <1>4, <1>5 DEF TriageNext

\* The consoles' part in the store of acknowledgements.
AckStep == \E c \in Consoles : \/ LoadAcks(c, Found)
                               \/ \E f \in seen[c] : Ack(c, f) \/ Unack(c, f)
                               \/ DropAcks(c)

\* A step of Triage reads or writes the acknowledgements as Acks says, or leaves them.
LEMMA AckSteps == [TriageNext]_triageVars => AckStep \/ UNCHANGED ackVars
<1>. SUFFICES ASSUME [TriageNext]_triageVars PROVE AckStep \/ UNCHANGED ackVars
  OBVIOUS
<1>1. CASE Acting \/ Scanning \/ ScanAgain \/ Submitting
  BY <1>1 DEF Acting, Scanning, ScanAgain, Submitting
<1>2. ASSUME NEW c \in Consoles, OpenConsole(c) \/ Review(c) \/ LabelFinding(c) \/ LeaveConsole(c)
      PROVE  AckStep \/ UNCHANGED ackVars
  BY <1>2 DEF OpenConsole, Review, LabelFinding, LeaveConsole, AckStep
<1>3. ASSUME NEW w \in Writers, Labelling(w) PROVE AckStep \/ UNCHANGED ackVars
  BY <1>3 DEF Labelling, AckStep
<1>4. CASE UNCHANGED triageVars
  BY <1>4 DEF triageVars
<1>. QED
  BY <1>1, <1>2, <1>3, <1>4 DEF TriageNext

\* The writers' part in the store of labels.
WriterStep(w) == \/ OpenLabels(w) \/ LeaveLabels(w) \/ SubmitCommand(w)
                 \/ \E shape : GiveLabel(w, shape)
                 \/ KeepLabel(w) \/ Answer(w) \/ Send(w) \/ LoadToMark(w) \/ MarkSent(w) \/ Die(w)

\* A step of Triage is one of the writers' of Labels, turns sharing on or off, or leaves the
\* labels alone.
LEMMA LabelSteps ==
    [TriageNext]_triageVars => (\E w \in Writers : WriterStep(w)) \/ ChangeShare \/ UNCHANGED labelVars
<1>. SUFFICES ASSUME [TriageNext]_triageVars
              PROVE  (\E w \in Writers : WriterStep(w)) \/ ChangeShare \/ UNCHANGED labelVars
  OBVIOUS
<1>. Consoles \subseteq Writers
  BY TriageAssumption
<1>1. CASE Acting \/ Scanning \/ ScanAgain
  BY <1>1 DEF Acting, Scanning, ScanAgain
<1>2. CASE Submitting
  BY <1>2 DEF Submitting, WriterStep
<1>3. ASSUME NEW c \in Consoles, OpenConsole(c) \/ Review(c) \/ LabelFinding(c) \/ LeaveConsole(c)
      PROVE  WriterStep(c) \/ UNCHANGED labelVars
  BY <1>3 DEF OpenConsole, Review, LabelFinding, LeaveConsole, WriterStep
<1>4. ASSUME NEW w \in Writers, Labelling(w) PROVE WriterStep(w)
  BY <1>4 DEF Labelling, LabelStep, WriterStep
<1>5. CASE UNCHANGED triageVars
  BY <1>5 DEF triageVars
<1>. QED
  BY <1>1, <1>2, <1>3, <1>4, <1>5 DEF TriageNext

-----------------------------------------------------------------------------
(* The session. *)

\* Behind what the scan found and while consoles review and label, the session does what
\* Quarantine says of it, and no more: what is proved of Quarantine holds here.
THEOREM TriageActsAsQuarantine == TriageSpec => Spec
<1>1. TriageInit => Init
  BY DEF TriageInit
<1>. QED
  BY <1>1, SessionStep, PTL DEF TriageSpec, Spec

\* The console, on whatever a scan found, keeps what Quarantine promises: every artifact
\* is kept, the manifest lists what is in the folder, a clean restore leaves nothing there,
\* and what is shown as quarantined can be undone.
THEOREM TriageKeepsAll ==
    TriageSpec => [](NeverLost /\ NoOrphans /\ CleanRestoreIsWhole /\ DoneHasItem)
BY TriageActsAsQuarantine, ArtifactsNeverLost, NeverOrphans, CleanRestoreEmpties,
   DoneAlwaysHasItem, PTL

-----------------------------------------------------------------------------
(* Acknowledgements. *)

\* What the file and the consoles' copies hold was reviewed, and a console shows one
\* finding for a key.
AckInv == /\ DOMAIN recs = Consoles /\ DOMAIN seen = Consoles
          /\ DOMAIN acked = Consoles /\ DOMAIN ackChanged = Consoles
          /\ ackFile \subseteq reviewed
          /\ \A c \in Consoles : recs[c] \subseteq reviewed /\ OnePerKey(seen[c])
          /\ NeverMasks

\* A scan has one finding for a subject.
LEMMA FoundOnce == OnePerKey(Found)
BY DEF OnePerKey, Found

\* No step of Triage puts a mark, or a record in ack.json, that no review gave.
LEMMA AckInvStep == AckInv /\ [TriageNext]_triageVars => AckInv'
<1>. SUFFICES ASSUME AckInv, AckStep \/ UNCHANGED ackVars PROVE AckInv'
  BY AckSteps
<1>. USE DEF AckInv, NeverMasks
<1>1. ASSUME NEW c \in Consoles, LoadAcks(c, Found) PROVE AckInv'
  <2>1. PICK records \in {ackFile} \cup {{}} :
            /\ recs' = [recs EXCEPT ![c] = records]
            /\ seen' = [seen EXCEPT ![c] = Found]
            /\ acked' = [acked EXCEPT ![c] = Keys(Found) \cap Keys(records)]
            /\ ackChanged' = [ackChanged EXCEPT ![c] = ChangedSince(records, Found)]
            /\ UNCHANGED <<ackFile, reviewed>>
    BY <1>1 DEF LoadAcks
  <2>2. records \subseteq reviewed
    OBVIOUS
  <2>3. ASSUME NEW f \in Found, f.key \in Keys(records), f.key \notin ChangedSince(records, Found)
        PROVE  f \in records
    BY <2>3 DEF ChangedSince
  <2>. QED
    BY <2>1, <2>2, <2>3, FoundOnce
<1>2. ASSUME NEW c \in Consoles, NEW f \in seen[c], Ack(c, f) PROVE AckInv'
  <2>1. /\ reviewed' = reviewed \cup {f}
        /\ recs' = [recs EXCEPT ![c] = {r \in recs[c] : r.key # f.key} \cup {f}]
        /\ seen' = seen
    BY <1>2 DEF Ack, SaveAcks
  <2>2. \/ /\ ackFile' = {r \in recs[c] : r.key # f.key} \cup {f}
           /\ acked' = [acked EXCEPT ![c] = acked[c] \cup {f.key}]
           /\ ackChanged' = [ackChanged EXCEPT ![c] = ackChanged[c] \ {f.key}]
        \/ UNCHANGED <<ackFile, acked, ackChanged>>
    BY <1>2 DEF Ack, SaveAcks
  <2>3. \A g \in seen[c] : g.key = f.key => g = f
    BY DEF OnePerKey
  <2>. QED
    BY <2>1, <2>2, <2>3
<1>3. ASSUME NEW c \in Consoles, NEW f \in seen[c], Unack(c, f) PROVE AckInv'
  <2>1. /\ UNCHANGED <<reviewed, seen>>
        /\ recs' = recs \/ recs' = [recs EXCEPT ![c] = {r \in recs[c] : r.key # f.key}]
        /\ ackFile' = ackFile \/ ackFile' = {r \in recs[c] : r.key # f.key}
        /\ \/ /\ acked' = [acked EXCEPT ![c] = acked[c] \ {f.key}]
              /\ ackChanged' = [ackChanged EXCEPT ![c] = ackChanged[c] \ {f.key}]
           \/ UNCHANGED <<acked, ackChanged>>
    BY <1>3 DEF Unack, SaveAcks
  <2>. QED
    BY <2>1
<1>4. ASSUME NEW c \in Consoles, DropAcks(c) PROVE AckInv'
  <2>1. OnePerKey({})
    BY DEF OnePerKey
  <2>. QED
    BY <1>4, <2>1 DEF DropAcks
<1>5. CASE UNCHANGED ackVars
  BY <1>5 DEF ackVars
<1>. QED
  BY <1>1, <1>2, <1>3, <1>4, <1>5 DEF AckStep

\* "Instead of silently masking newly-surfaced concern": for any consoles, machines that
\* change between their scans, and loads and saves that fail, what is shown as reviewed
\* and not as changed is what the user pressed `a` on.
THEOREM ReviewedWasReviewed == TriageSpec => []NeverMasks
<1>1. TriageInit => AckInv
  BY DEF TriageInit, AcksInit, AckInv, NeverMasks, OnePerKey
<1>2. AckInv => NeverMasks
  BY DEF AckInv
<1>. QED
  BY <1>1, <1>2, AckInvStep, PTL DEF TriageSpec

-----------------------------------------------------------------------------
(* Labels. *)

\* The writers hold what is in the store, or what they were given: records by their nonce.
LabelTypes ==
    /\ DOMAIN labelPc = Writers /\ DOMAIN copy = Writers /\ DOMAIN batch = Writers
    /\ \A w \in Writers : \A r \in batch[w] : r = Label(r.shape, r.nonce)

\* What a writer is about to send was agreed to, and what it is about to mark has arrived.
Asked == /\ received \subseteq agreed
         /\ \A w \in Writers : /\ labelPc[w] = "send" => Nonces(batch[w]) \subseteq agreed
                               /\ labelPc[w] \in {"mark", "save"} => Nonces(batch[w]) \subseteq received

\* A record for a shape, in the file and in the writers' copies.
OnePerShape(entries) == \A e, d \in entries : e.shape = d.shape => e = d
Unique == OnePerShape(stored) /\ \A w \in Writers : OnePerShape(copy[w])

\* One writer is at work: it has loaded what is in the file, and what it submits is there.
Solo == \A v, w \in Writers : labelPc[v] # "out" /\ labelPc[w] # "out" => v = w
Fresh == \A w \in Writers : labelPc[w] \in {"add", "save"} => copy[w] = stored
InStore(r) == \E e \in stored : Label(e.shape, e.nonce) = r
Current == \A w \in Writers : labelPc[w] \in {"ask", "send", "mark", "save"} =>
                                  \A r \in batch[w] : InStore(r)
Kept(r) == \E e \in stored : Label(e.shape, e.nonce) = r /\ (e.sent => e.nonce \in received)

Alone == Solo /\ Fresh /\ Current /\ \A r \in latest : Kept(r)

LabelInv == LabelTypes /\ Asked /\ Unique /\ (~overlapped => Alone)

\* Pending records are labels of the store.
LEMMA PendingStored ==
    ASSUME NEW entries
    PROVE  \A r \in Pending(entries) : /\ r = Label(r.shape, r.nonce)
                                       /\ \E e \in entries : Label(e.shape, e.nonce) = r
BY DEF Pending, Label

\* What a writer keeps, it keeps for one shape.
LEMMA ReplaceUnique ==
    ASSUME NEW entries, NEW e, OnePerShape(entries)
    PROVE  OnePerShape(Replace(entries, e))
BY DEF OnePerShape, Replace

\* Every writer preserves the types.
LEMMA LabelTypesStep ==
    ASSUME LabelTypes, NEW w \in Writers, WriterStep(w)
    PROVE  LabelTypes'
<1>. USE DEF LabelTypes, Goto, End, Enter
<1>1. CASE OpenLabels(w) \/ Die(w)
  BY <1>1 DEF OpenLabels, Die
<1>2. ASSUME NEW shape, GiveLabel(w, shape) PROVE LabelTypes'
  BY <1>2 DEF GiveLabel, Label
<1>3. CASE KeepLabel(w) \/ Answer(w) \/ Send(w) \/ LoadToMark(w) \/ MarkSent(w)
  BY <1>3 DEF KeepLabel, Answer, Send, LoadToMark, MarkSent
<1>4. ASSUME NEW ask, BeginSubmit(w, ask) \/ End(w), UNCHANGED stored PROVE LabelTypes'
  BY <1>4, PendingStored DEF BeginSubmit
<1>5. CASE LeaveLabels(w) \/ SubmitCommand(w)
  BY <1>4, <1>5 DEF LeaveLabels, SubmitCommand
<1>. QED
  BY <1>1, <1>2, <1>3, <1>4, <1>5 DEF WriterStep

\* Every writer preserves what the labels' properties need.
LEMMA WriterStepKeeps ==
    ASSUME LabelInv, NEW w \in Writers, WriterStep(w)
    PROVE  LabelInv'
<1>0. LabelTypes'
  BY LabelTypesStep DEF LabelInv
<1>. USE DEF LabelInv, LabelTypes
<1>a. ASSUME labelPc' = [labelPc EXCEPT ![w] = "out"], copy' = [copy EXCEPT ![w] = {}],
             batch' = [batch EXCEPT ![w] = {}],
             UNCHANGED <<stored, received, agreed, latest, overlapped>>
      PROVE  LabelInv'
  <2>1. Asked'
    BY <1>a DEF Asked
  <2>2. Unique'
    BY <1>a DEF Unique, OnePerShape
  <2>3. Alone => Alone'
    BY <1>a DEF Alone, Solo, Fresh, Current, InStore, Kept
  <2>. QED
    BY <1>0, <1>a, <2>1, <2>2, <2>3
<1>b. ASSUME NEW ask \in BOOLEAN, labelPc[w] \in {"open", "out"}, BeginSubmit(w, ask),
             UNCHANGED <<stored, received, latest>>,
             ~overlapped' => ~overlapped /\ \A v \in Writers : v # w => labelPc[v] = "out"
      PROVE  LabelInv'
  <2>. DEFINE pending == Pending(stored)
  <2>1. \/ End(w) /\ UNCHANGED agreed
        \/ /\ labelPc' = [labelPc EXCEPT ![w] = IF ask THEN "ask" ELSE "send"]
           /\ batch' = [batch EXCEPT ![w] = pending]
           /\ agreed' = IF ask THEN agreed ELSE agreed \cup Nonces(pending)
           /\ UNCHANGED copy
    BY <1>b DEF BeginSubmit, Goto
  <2>2. \A r \in pending : InStore(r)
    BY PendingStored DEF InStore
  <2>. HIDE DEF pending
  <2>3. Asked'
    BY <1>b, <2>1 DEF Asked, End, Goto
  <2>4. Unique'
    BY <1>b, <2>1 DEF Unique, OnePerShape, End, Goto
  <2>5. ASSUME ~overlapped' PROVE Alone'
    <3>1. Alone /\ \A v \in Writers : v # w => labelPc[v] = "out"
      BY <1>b, <2>5
    <3>2. Solo' /\ Fresh'
      BY <1>b, <2>1, <3>1 DEF Solo, Fresh, End, Goto
    <3>3. Current'
      BY <1>b, <2>1, <2>2, <3>1 DEF Current, InStore, Alone, End, Goto
    <3>4. (\A r \in latest : Kept(r))'
      BY <1>b, <3>1 DEF Alone, Kept
    <3>. QED
      BY <3>2, <3>3, <3>4 DEF Alone
  <2>. QED
    BY <1>0, <2>3, <2>4, <2>5
<1>1. CASE OpenLabels(w)
  <2>1. /\ labelPc[w] = "out" /\ labelPc' = [labelPc EXCEPT ![w] = "open"]
        /\ overlapped' = (overlapped \/ \E v \in Writers : labelPc[v] # "out")
        /\ UNCHANGED <<stored, copy, batch, received, agreed, latest>>
    BY <1>1 DEF OpenLabels, Enter, Goto
  <2>2. Asked'
    BY <2>1 DEF Asked
  <2>3. Unique'
    BY <2>1 DEF Unique, OnePerShape
  <2>4. ~overlapped' => Alone'
    BY <2>1 DEF Alone, Solo, Fresh, Current, InStore, Kept
  <2>. QED
    BY <1>0, <2>2, <2>3, <2>4
<1>2. ASSUME NEW shape, GiveLabel(w, shape) PROVE LabelInv'
  <2>1. /\ labelPc[w] = "open" /\ labelPc' = [labelPc EXCEPT ![w] = "add"]
        /\ copy' = [copy EXCEPT ![w] = stored]
        /\ \E r : batch' = [batch EXCEPT ![w] = {r}]
        /\ UNCHANGED <<stored, received, agreed, latest, overlapped>>
    BY <1>2 DEF GiveLabel, Goto, labelPast
  <2>2. Asked'
    BY <2>1 DEF Asked
  <2>3. Unique'
    BY <2>1 DEF Unique, OnePerShape
  <2>4. ~overlapped' => Alone'
    BY <2>1 DEF Alone, Solo, Fresh, Current, InStore, Kept
  <2>. QED
    BY <1>0, <2>2, <2>3, <2>4
<1>3. CASE LeaveLabels(w)
  <2>1. /\ labelPc[w] = "open"
        /\ UNCHANGED <<stored, received, latest, overlapped>>
        /\ \/ End(w) /\ UNCHANGED agreed
           \/ \E ask \in BOOLEAN : BeginSubmit(w, ask)
    BY <1>3 DEF LeaveLabels
  <2>2. ~overlapped => \A v \in Writers : v # w => labelPc[v] = "out"
    BY <2>1 DEF Alone, Solo
  <2>. QED
    BY <1>a, <1>b, <2>1, <2>2 DEF End, Goto
<1>4. CASE SubmitCommand(w)
  <2>1. /\ labelPc[w] = "out" /\ BeginSubmit(w, TRUE)
        /\ overlapped' = (overlapped \/ \E v \in Writers : labelPc[v] # "out")
        /\ UNCHANGED <<stored, received, latest>>
    BY <1>4 DEF SubmitCommand
  <2>. QED
    BY <1>b, <2>1
<1>5. CASE KeepLabel(w)
  <2>1. /\ labelPc[w] = "add" /\ labelPc' = [labelPc EXCEPT ![w] = "open"]
        /\ copy' = [copy EXCEPT ![w] = {}] /\ batch' = [batch EXCEPT ![w] = {}]
        /\ UNCHANGED <<received, agreed, overlapped>>
    BY <1>5 DEF KeepLabel, Goto
  <2>2. PICK r \in batch[w] : \/ /\ stored' = Replace(copy[w], Entry(r.shape, r.nonce, FALSE))
                                 /\ latest' = Replace(latest, r)
                              \/ UNCHANGED <<stored, latest>>
    BY <1>5 DEF KeepLabel, Added
  <2>3. r = Label(r.shape, r.nonce)
    OBVIOUS
  <2>4. Asked'
    BY <2>1 DEF Asked
  <2>5. Unique'
    <3>1. OnePerShape(Replace(copy[w], Entry(r.shape, r.nonce, FALSE)))
      BY ReplaceUnique DEF Unique
    <3>2. OnePerShape(stored)'
      BY <2>2, <3>1 DEF Unique, OnePerShape
    <3>. QED
      BY <2>1, <3>2 DEF Unique, OnePerShape
  <2>6. ASSUME ~overlapped' PROVE Alone'
    <3>1. Alone /\ copy[w] = stored
      BY <2>1, <2>6 DEF Alone, Fresh
    <3>2. \A v \in Writers : v # w => labelPc[v] = "out"
      BY <2>1, <3>1 DEF Alone, Solo
    <3>3. Solo' /\ Fresh' /\ Current'
      BY <2>1, <3>2 DEF Solo, Fresh, Current
    <3>4. ASSUME NEW q \in latest' PROVE Kept(q)'
      <4>1. CASE UNCHANGED <<stored, latest>>
        BY <2>1, <3>1, <4>1 DEF Alone, Kept
      <4>2. CASE /\ stored' = Replace(copy[w], Entry(r.shape, r.nonce, FALSE))
                 /\ latest' = Replace(latest, r)
        <5>1. CASE q = r
          <6>. DEFINE e == Entry(r.shape, r.nonce, FALSE)
          <6>1. e \in stored'
            BY <4>2 DEF Replace
          <6>2. e.shape = r.shape /\ e.nonce = r.nonce /\ e.sent = FALSE
            BY DEF Entry
          <6>. HIDE DEF e
          <6>. QED
            BY <2>3, <5>1, <6>1, <6>2 DEF Kept
        <5>2. CASE q \in latest /\ q.shape # r.shape
          <6>1. PICK e \in stored : Label(e.shape, e.nonce) = q /\ (e.sent => e.nonce \in received)
            BY <3>1, <5>2 DEF Alone, Kept
          <6>2. e.shape # r.shape
            BY <5>2, <6>1 DEF Label
          <6>3. e \in stored'
            BY <3>1, <4>2, <6>2 DEF Replace, Entry
          <6>. QED
            BY <2>1, <6>1, <6>3 DEF Kept
        <5>. QED
          BY <3>4, <4>2, <5>1, <5>2 DEF Replace
      <4>. QED
        BY <2>2, <4>1, <4>2
    <3>. QED
      BY <3>3, <3>4 DEF Alone
  <2>. QED
    BY <1>0, <2>4, <2>5, <2>6
<1>6. CASE Answer(w)
  <2>1. CASE End(w) /\ UNCHANGED agreed
    BY <1>6, <1>a, <2>1 DEF Answer, End, Goto
  <2>2. CASE /\ labelPc' = [labelPc EXCEPT ![w] = "send"]
             /\ agreed' = agreed \cup Nonces(batch[w]) /\ UNCHANGED <<copy, batch>>
    <3>1. labelPc[w] = "ask" /\ UNCHANGED <<stored, received, latest, overlapped>>
      BY <1>6 DEF Answer
    <3>2. Asked'
      BY <2>2, <3>1 DEF Asked
    <3>3. Unique'
      BY <2>2, <3>1 DEF Unique, OnePerShape
    <3>4. ~overlapped' => Alone'
      BY <2>2, <3>1 DEF Alone, Solo, Fresh, Current, InStore, Kept
    <3>. QED
      BY <1>0, <3>2, <3>3, <3>4
  <2>. QED
    BY <1>6, <2>1, <2>2 DEF Answer, Goto
<1>7. CASE Send(w)
  <2>1. /\ labelPc[w] = "send" /\ UNCHANGED <<stored, agreed, latest, overlapped>>
        /\ \/ /\ received' = received \cup Nonces(batch[w])
              /\ labelPc' = [labelPc EXCEPT ![w] = "mark"]
              /\ UNCHANGED <<copy, batch>>
           \/ /\ End(w)
              /\ \E arrived \in SUBSET Nonces(batch[w]) : received' = received \cup arrived
    BY <1>7 DEF Send, Submitted, Goto
  <2>2. Nonces(batch[w]) \subseteq agreed
    BY <2>1 DEF Asked
  <2>3. Asked'
    BY <2>1, <2>2 DEF Asked, End, Goto
  <2>4. Unique'
    BY <2>1 DEF Unique, OnePerShape, End, Goto
  <2>5. ASSUME ~overlapped' PROVE Alone'
    <3>1. Alone /\ \A v \in Writers : v # w => labelPc[v] = "out"
      BY <2>1, <2>5 DEF Alone, Solo
    <3>2. Solo' /\ Fresh'
      BY <2>1, <3>1 DEF Solo, Fresh, End, Goto
    <3>3. Current'
      BY <2>1, <3>1 DEF Alone, Current, InStore, End, Goto
    <3>4. (\A r \in latest : Kept(r))'
      BY <2>1, <3>1 DEF Alone, Kept
    <3>. QED
      BY <3>2, <3>3, <3>4 DEF Alone
  <2>. QED
    BY <1>0, <2>3, <2>4, <2>5
<1>8. CASE LoadToMark(w)
  <2>1. /\ labelPc[w] = "mark" /\ labelPc' = [labelPc EXCEPT ![w] = "save"]
        /\ copy' = [copy EXCEPT ![w] = stored]
        /\ UNCHANGED <<stored, batch, received, agreed, latest, overlapped>>
    BY <1>8 DEF LoadToMark, Goto, labelPast
  <2>2. Asked'
    BY <2>1 DEF Asked
  <2>3. Unique'
    BY <2>1 DEF Unique, OnePerShape
  <2>4. ~overlapped' => Alone'
    BY <2>1 DEF Alone, Solo, Fresh, Current, InStore, Kept
  <2>. QED
    BY <1>0, <2>2, <2>3, <2>4
<1>9. CASE MarkSent(w)
  <2>1. /\ labelPc[w] = "save" /\ End(w)
        /\ UNCHANGED <<received, agreed, latest, overlapped>>
    BY <1>9 DEF MarkSent, labelPast
  <2>2. CASE UNCHANGED stored
    BY <1>a, <2>1, <2>2 DEF End, Goto
  <2>3. CASE stored' = {Entry(e.shape, e.nonce, e.sent \/ \E r \in batch[w] : r.shape = e.shape) :
                            e \in copy[w]}
    <3>1. Asked'
      BY <2>1 DEF Asked, End, Goto
    <3>2. Unique'
      <4>1. OnePerShape(stored')
        BY <2>3 DEF Unique, OnePerShape, Entry
      <4>. QED
        BY <2>1, <4>1 DEF Unique, OnePerShape, End, Goto
    <3>3. ASSUME ~overlapped' PROVE Alone'
      <4>1. Alone /\ copy[w] = stored /\ \A v \in Writers : v # w => labelPc[v] = "out"
        BY <2>1, <3>3 DEF Alone, Solo, Fresh
      <4>2. Solo' /\ Fresh' /\ Current'
        BY <2>1, <4>1 DEF Solo, Fresh, Current, End, Goto
      <4>3. ASSUME NEW q \in latest PROVE Kept(q)'
        <5>1. PICK e \in stored : Label(e.shape, e.nonce) = q /\ (e.sent => e.nonce \in received)
          BY <4>1 DEF Alone, Kept
        <5>. DEFINE sent == e.sent \/ \E r \in batch[w] : r.shape = e.shape
        <5>2. ASSUME NEW r \in batch[w], r.shape = e.shape PROVE e.nonce \in received
          <6>1. PICK d \in stored : Label(d.shape, d.nonce) = r
            BY <2>1, <4>1 DEF Alone, Current, InStore
          <6>2. d = e
            BY <5>2, <6>1 DEF Unique, OnePerShape, Label
          <6>3. r.nonce \in received
            BY <2>1 DEF Asked, Nonces
          <6>. QED
            BY <6>1, <6>2, <6>3 DEF Label
        <5>3. Entry(e.shape, e.nonce, sent) \in stored'
          BY <2>3, <4>1
        <5>4. sent => e.nonce \in received
          BY <5>1, <5>2
        <5>. HIDE DEF sent
        <5>. DEFINE f == Entry(e.shape, e.nonce, sent)
        <5>5. Label(f.shape, f.nonce) = q /\ f.nonce = e.nonce
          BY <5>1 DEF Entry
        <5>6. f.sent = sent
          BY DEF Entry
        <5>7. f.sent => f.nonce \in received'
          BY <2>1, <5>4, <5>5, <5>6
        <5>. HIDE DEF f
        <5>. QED
          BY <5>3, <5>5, <5>7 DEF Kept, f
      <4>. QED
        BY <2>1, <4>2, <4>3 DEF Alone
    <3>. QED
      BY <1>0, <3>1, <3>2, <3>3
  <2>. QED
    BY <1>9, <2>2, <2>3 DEF MarkSent
<1>10. CASE Die(w)
  BY <1>10, <1>a DEF Die, End, Goto, labelPast
<1>. QED
  BY <1>1, <1>2, <1>3, <1>4, <1>5, <1>6, <1>7, <1>8, <1>9, <1>10 DEF WriterStep

\* And so does every step.
LEMMA LabelInvStep == LabelInv /\ [TriageNext]_triageVars => LabelInv'
<1>1. ASSUME LabelInv, ChangeShare \/ UNCHANGED labelVars PROVE LabelInv'
  BY <1>1 DEF ChangeShare, labelVars, labelPast, LabelInv, LabelTypes, Asked, Unique, OnePerShape,
              Alone, Solo, Fresh, Current, InStore, Kept
<1>. QED
  BY <1>1, WriterStepKeeps, LabelSteps

\* The invariant of the labels, of Triage.
LEMMA LabelsKept == TriageSpec => []LabelInv
<1>1. TriageInit => LabelInv
  BY DEF TriageInit, LabelsInit, LabelInv, LabelTypes, Asked, Unique, OnePerShape, Alone, Solo,
         Fresh, Current
<1>. QED
  BY <1>1, LabelInvStep, PTL DEF TriageSpec

\* "Show the exact records and require an explicit yes", for any consoles and commands at
\* work at once: what arrives was on the screen when the user agreed, or was covered by
\* the consent the console started with.
THEOREM SentWasAgreed == TriageSpec => []SentIsAgreed
<1>1. LabelInv => SentIsAgreed
  BY DEF LabelInv, Asked, SentIsAgreed
<1>. QED
  BY <1>1, LabelsKept, PTL

\* As long as one writer is at work at a time, whatever fails or dies, the last label given
\* to a finding is in the file, and marked as sent only if it has arrived.
THEOREM LatestLabelKept == TriageSpec => []LatestLabelIsKept
<1>1. LabelInv => LatestLabelIsKept
  BY DEF LabelInv, Alone, Kept, LatestLabelIsKept
<1>. QED
  BY <1>1, LabelsKept, PTL

-----------------------------------------------------------------------------
(* The scan. *)

\* What a scan does to the machine and to what is known of it.
LEMMA ScanSteps ==
    [TriageNext]_triageVars => \/ \E faults : ScanStep(faults)
                               \/ \E i \in Software : Change(i)
                               \/ Rescan \/ UNCHANGED scanVars
<1>. SUFFICES ASSUME [TriageNext]_triageVars
              PROVE  \/ (\E faults : ScanStep(faults)) \/ (\E i \in Software : Change(i))
                     \/ Rescan \/ UNCHANGED scanVars
  OBVIOUS
<1>1. CASE Acting \/ Scanning \/ ScanAgain \/ Submitting
  BY <1>1 DEF Acting, Scanning, ScanAgain, Submitting
<1>2. ASSUME NEW c \in Consoles, OpenConsole(c) \/ Review(c) \/ LabelFinding(c) \/ LeaveConsole(c)
      PROVE  UNCHANGED scanVars
  BY <1>2 DEF OpenConsole, Review, LabelFinding, LeaveConsole
<1>3. ASSUME NEW w \in Writers, Labelling(w) PROVE UNCHANGED scanVars
  BY <1>3 DEF Labelling
<1>4. CASE UNCHANGED triageVars
  BY <1>4 DEF triageVars
<1>. QED
  BY <1>1, <1>2, <1>3, <1>4 DEF TriageNext

\* Four values make a finite set.
LEMMA FourFinite ==
    ASSUME NEW a, NEW b, NEW c, NEW d
    PROVE  IsFiniteSet({a, b, c, d})
<1>1. IsFiniteSet({a}) /\ IsFiniteSet({b}) /\ IsFiniteSet({c}) /\ IsFiniteSet({d})
  BY FS_Singleton
<1>2. IsFiniteSet({a} \cup {b}) /\ IsFiniteSet({c} \cup {d})
  BY <1>1, FS_Union
<1>3. IsFiniteSet(({a} \cup {b}) \cup ({c} \cup {d}))
  BY <1>2, FS_Union
<1>4. ({a} \cup {b}) \cup ({c} \cup {d}) = {a, b, c, d}
  OBVIOUS
<1>. QED
  BY <1>3, <1>4

Evidence == [subject : Subjects, kind : {"persistence", "process", "tcc", "codesign"},
             what : {"inline", "hidden", "userAgent", "missing"} \cup {"connection", "listener"}
                        \cup Services \cup Signatures,
             plist : Plists \cup {"none"}]

\* What a scan may find is finite.
LEMMA EvidenceFinite == IsFiniteSet(Evidence)
<1>. DEFINE kinds == {"persistence", "process", "tcc", "codesign"}
            findable == {"inline", "hidden", "userAgent", "missing"} \cup {"connection", "listener"}
            whats == findable \cup Services \cup Signatures
            plists == Plists \cup {"none"}
            X == (Subjects \X kinds) \X (whats \X plists)
            f == [q \in X |-> [subject |-> q[1][1], kind |-> q[1][2],
                               what |-> q[2][1], plist |-> q[2][2]]]
<1>1. IsFiniteSet(Subjects)
  BY FourFinite, FS_Product, ScanAssumption DEF Subjects
<1>2. IsFiniteSet(kinds) /\ IsFiniteSet(Services) /\ IsFiniteSet(Plists)
  BY FourFinite DEF Services, Plists
<1>3. IsFiniteSet(plists)
  BY <1>2, FS_Singleton, FS_Union
<1>4. IsFiniteSet(findable)
  <2>1. IsFiniteSet({"inline", "hidden", "userAgent", "missing"})
    BY FourFinite
  <2>2. IsFiniteSet({"connection", "listener", "listener", "listener"})
    BY FourFinite
  <2>3. {"connection", "listener", "listener", "listener"} = {"connection", "listener"}
    OBVIOUS
  <2>. QED
    BY <2>1, <2>2, <2>3, FS_Union
<1>5. IsFiniteSet(Signatures)
  <2>1. IsFiniteSet({"unsigned", "revoked", "unvouched", "developer"})
    BY FourFinite
  <2>2. IsFiniteSet({"appleNamed", "notarized", "apple", "apple"})
    BY FourFinite
  <2>3. IsFiniteSet({"unsigned", "revoked", "unvouched", "developer"} \cup {"appleNamed", "notarized", "apple", "apple"})
    BY <2>1, <2>2, FS_Union
  <2>4. {"unsigned", "revoked", "unvouched", "developer"} \cup {"appleNamed", "notarized", "apple", "apple"} = Signatures
    BY DEF Signatures
  <2>. QED
    BY <2>3, <2>4
<1>. HIDE DEF kinds, findable, plists
<1>6. IsFiniteSet(whats)
  <2>1. IsFiniteSet(findable \cup Services)
    BY <1>2, <1>4, FS_Union
  <2>. QED
    BY <1>5, <2>1, FS_Union
<1>. HIDE DEF whats
<1>7. IsFiniteSet(X)
  <2>1. IsFiniteSet(Subjects \X kinds) /\ IsFiniteSet(whats \X plists)
    BY <1>1, <1>2, <1>3, <1>6, FS_Product
  <2>. QED
    BY <2>1, FS_Product
<1>8. Evidence = [subject : Subjects, kind : kinds, what : whats, plist : plists]
  BY DEF Evidence, kinds, whats, findable, plists
<1>9. f \in Surjection(X, Evidence)
  <2>1. f \in [X -> Evidence]
    BY <1>8
  <2>2. ASSUME NEW e \in Evidence PROVE \E q \in X : f[q] = e
    <3>1. e = [subject |-> e.subject, kind |-> e.kind, what |-> e.what, plist |-> e.plist]
      BY <1>8
    <3>2. <<<<e.subject, e.kind>>, <<e.what, e.plist>>>> \in X
      BY <1>8
    <3>. QED
      BY <3>1, <3>2
  <2>. HIDE DEF f, X
  <2>. QED
    BY <2>1, <2>2 DEF Surjection
<1>. HIDE DEF X, f
<1>. QED
  BY <1>7, <1>9, FS_Surjection

\* The evidence of a collector is about its own items, and of its own kind.
LEMMA EvidenceKinds ==
    ASSUME NEW i, NEW w, NEW e
    PROVE  /\ e \in Persistence(i, w) => /\ e.kind = "persistence"
                                         /\ e.subject \in {<<"file", i>>, <<"plist", i>>}
           /\ e \in Processes(i, w) => e.kind = "process" /\ e.subject = <<"pid", i>>
           /\ e \in TCC(i, w) => e.kind = "tcc" /\ e.subject \in {<<"file", i>>, <<"client", i>>}
           /\ e \in CodesignOf(i, w) => e.kind = "codesign" /\ e.subject = <<"file", i>>
<1>1. ASSUME NEW p, e \in PlistEvidence(i, w, p)
      PROVE  e.kind = "persistence" /\ e.subject \in {<<"file", i>>, <<"plist", i>>}
  BY <1>1 DEF PlistEvidence, Observed
<1>2. e \in Processes(i, w) => e.kind = "process" /\ e.subject = <<"pid", i>>
  BY DEF Processes, Observed
<1>3. e \in TCC(i, w) => e.kind = "tcc" /\ e.subject \in {<<"file", i>>, <<"client", i>>}
  BY DEF TCC, Observed
<1>4. e \in CodesignOf(i, w) => e.kind = "codesign" /\ e.subject = <<"file", i>>
  BY DEF CodesignOf, Observed
<1>. QED
  BY <1>1, <1>2, <1>3, <1>4 DEF Persistence

\* Every collector's evidence is of the space that is finite.
LEMMA EvidenceType ==
    ASSUME NEW i \in Software, NEW w \in World
    PROVE  /\ Persistence(i, w) \subseteq Evidence /\ Processes(i, w) \subseteq Evidence
           /\ TCC(i, w) \subseteq Evidence /\ CodesignOf(i, w) \subseteq Evidence
<1>1. ASSUME NEW p \in w.plists PROVE PlistEvidence(i, w, p) \subseteq Evidence
  <2>1. p \in Plists
    BY DEF World
  <2>2. <<"plist", i>> \in Subjects /\ <<"file", i>> \in Subjects
    BY DEF Subjects
  <2>. QED
    BY <2>1, <2>2 DEF PlistEvidence, Observed, Evidence
<1>2. Persistence(i, w) \subseteq Evidence
  BY <1>1 DEF Persistence
<1>3. Processes(i, w) \subseteq Evidence
  BY DEF Processes, Observed, Evidence, Subjects
<1>4. TCC(i, w) \subseteq Evidence
  <2>1. w.grants \subseteq Services
    BY DEF World
  <2>2. <<"client", i>> \in Subjects /\ <<"file", i>> \in Subjects
    BY DEF Subjects
  <2>. QED
    BY <2>1, <2>2 DEF TCC, Observed, Evidence
<1>5. CodesignOf(i, w) \subseteq Evidence
  BY DEF CodesignOf, Observed, Evidence, Subjects, World, Signatures
<1>. QED
  BY <1>2, <1>3, <1>4, <1>5

\* What a collector gathers, failing in part or not, is of its parts.
LEMMA Partly ==
    ASSUME NEW parts, NEW faults, NEW found \in Gathered(parts, faults), NEW e \in found
    PROVE  \E part \in parts : e \in part
<1>. QED
  BY DEF Gathered

\* What is known of an item that has not changed is true of it: what is evidence about
\* its file is what a collector finds there, and once anything is, so is its signature.
Known(i) ==
    /\ \A e \in evidence : e.subject = <<"file", i>> =>
           /\ e.kind = "codesign" => e \in CodesignOf(i, world[i])
           /\ e.kind = "persistence" => e \in Persistence(i, world[i])
    /\ scanPc > 3 /\ world[i].present /\ (\E e \in evidence : e.subject = <<"file", i>>)
           => CodesignOf(i, world[i]) \subseteq evidence \/ (scanPc = 4 /\ i \in toCheck)

ScanInv == /\ world \in [Software -> World] /\ scanPc \in 1 .. 6
           /\ evidence \subseteq Evidence
           /\ \A i \in Software : i \notin changed => Known(i)

\* What the evidence says of signatures and tripwires stays consistent with what is shown.
LEMMA ScanInvStep == ScanInv /\ [TriageNext]_triageVars => ScanInv'
<1>. SUFFICES ASSUME ScanInv,
                     \/ (\E faults : ScanStep(faults)) \/ (\E i \in Software : Change(i))
                     \/ Rescan \/ UNCHANGED scanVars
              PROVE  ScanInv'
  BY ScanSteps
<1>. USE DEF ScanInv
\* Evidence is collected that is not about signatures.
<1>a. ASSUME NEW faults, NEW step, NEW results, Collect(step, results, faults), scanPc \in 1 .. 3,
             \A found \in results : \A e \in found :
                 /\ e \in Evidence /\ e.kind # "codesign"
                 /\ e.kind = "persistence" => \E i \in Software : e \in Persistence(i, world[i]),
             scanPc = 3 => toCheck' = Surfaced(evidence')
      PROVE  ScanInv'
  <2>1. /\ UNCHANGED <<world, changed>> /\ scanPc' = scanPc + 1
        /\ \/ \E found \in results : evidence' = evidence \cup found
           \/ UNCHANGED evidence
    BY <1>a DEF Collect
  <2>2. evidence' \subseteq Evidence
    BY <1>a, <2>1
  <2>3. ASSUME NEW i \in Software, i \notin changed PROVE Known(i)'
    <3>1. Known(i) /\ world'[i] = world[i]
      BY <2>1, <2>3
    <3>2. ASSUME NEW e \in evidence', e.subject = <<"file", i>>
          PROVE  /\ e.kind = "codesign" => e \in CodesignOf(i, world[i])
                 /\ e.kind = "persistence" => e \in Persistence(i, world[i])
      <4>1. CASE e \in evidence
        BY <3>1, <3>2, <4>1 DEF Known
      <4>2. ASSUME NEW j \in Software, e \in Persistence(j, world[j])
            PROVE  e \in Persistence(i, world[i])
        <5>1. e.subject[2] = j
          BY <4>2, EvidenceKinds
        <5>. QED
          BY <3>2, <4>2, <5>1
      <4>3. CASE e \notin evidence
        BY <1>a, <2>1, <4>2, <4>3
      <4>. QED
        BY <4>1, <4>3
    <3>3. scanPc' > 3 /\ world[i].present /\ (\E e \in evidence' : e.subject = <<"file", i>>)
              => scanPc' = 4 /\ i \in toCheck'
      BY <1>a, <2>1 DEF Surfaced
    <3>. QED
      BY <2>1, <3>1, <3>2, <3>3 DEF Known
  <2>. QED
    BY <1>a, <2>1, <2>2, <2>3
<1>b. \A i \in Software : world[i] \in World
  OBVIOUS
<1>1. ASSUME NEW faults, CollectPersistence(faults) PROVE ScanInv'
  <2>. DEFINE parts == UNION {{PlistEvidence(i, world[i], p) : p \in world[i].plists} : i \in Software}
  <2>0. Collect("persistence", Gathered(parts, faults), faults)
    BY <1>1 DEF CollectPersistence
  <2>1. scanPc = 1
    BY <1>1 DEF CollectPersistence, Collect, At, Steps
  <2>2. ASSUME NEW part \in parts
        PROVE  \E i \in Software : \A e \in part : e \in Persistence(i, world[i])
    <3>1. PICK i \in Software : part \in {PlistEvidence(i, world[i], p) : p \in world[i].plists}
      OBVIOUS
    <3>2. PICK p \in world[i].plists : part = PlistEvidence(i, world[i], p)
      BY <3>1
    <3>. QED
      BY <3>2, Zenon DEF Persistence
  <2>. HIDE DEF parts
  <2>3. \A found \in Gathered(parts, faults) : \A e \in found :
            \E i \in Software : e \in Persistence(i, world[i])
    BY <2>2, Partly
  <2>4. \A i \in Software : \A e \in Persistence(i, world[i]) : e \in Evidence /\ e.kind = "persistence"
    BY <1>b, EvidenceType, EvidenceKinds
  <2>. QED
    BY <1>a, <2>0, <2>1, <2>3, <2>4
<1>2. ASSUME NEW faults, CollectProcesses(faults) PROVE ScanInv'
  <2>. DEFINE all == UNION {Processes(i, world[i]) : i \in Software}
              results == {all} \cup IF "lsof" \in faults THEN {{}} ELSE {}
  <2>1. scanPc = 2 /\ Collect("processes", results, faults)
    BY <1>2 DEF CollectProcesses, Collect, At, Steps
  <2>2. \A i \in Software : \A e \in Processes(i, world[i]) : e \in Evidence /\ e.kind = "process"
    BY <1>b, EvidenceType, EvidenceKinds
  <2>3. \A e \in all : e \in Evidence /\ e.kind = "process"
    BY <2>2
  <2>. HIDE DEF all
  <2>4. \A found \in results : found = all \/ found = {}
    OBVIOUS
  <2>. HIDE DEF results
  <2>. QED
    BY <1>a, <2>1, <2>3, <2>4
<1>4. ASSUME NEW faults, CollectTCC(faults) PROVE ScanInv'
  <2>. DEFINE all == UNION {TCC(i, world[i]) : i \in Software}
              parts == {{e} : e \in all}
  <2>0. Collect("tcc", Gathered(parts, faults), faults) /\ toCheck' = Surfaced(evidence')
    BY <1>4 DEF CollectTCC
  <2>1. scanPc = 3
    BY <1>4 DEF CollectTCC, Collect, At, Steps
  <2>2. ASSUME NEW i \in Software, NEW e \in TCC(i, world[i]) PROVE e \in Evidence /\ e.kind = "tcc"
    <3>1. TCC(i, world[i]) \subseteq Evidence
      BY <1>b, EvidenceType
    <3>. QED
      BY <3>1, EvidenceKinds
  <2>3. \A e \in all : e \in Evidence /\ e.kind = "tcc"
    BY <2>2
  <2>. HIDE DEF all
  <2>4. \A part \in parts : part \subseteq all
    OBVIOUS
  <2>. HIDE DEF parts
  <2>5. \A found \in Gathered(parts, faults) : \A e \in found : e \in all
    BY <2>4, Partly
  <2>. QED
    BY <1>a, <2>0, <2>1, <2>3, <2>5
<1>5. ASSUME NEW j \in Software, CheckSignature(j) PROVE ScanInv'
  <2>1. /\ scanPc = 4 /\ UNCHANGED <<world, scanPc, gaps, changed>>
        /\ toCheck' = toCheck \ {j}
        /\ evidence' = evidence \cup CodesignOf(j, world[j])
    BY <1>5 DEF CheckSignature, At, Steps
  <2>2. evidence' \subseteq Evidence
    BY <1>b, <2>1, EvidenceType
  <2>3. \A e \in CodesignOf(j, world[j]) : e.kind = "codesign" /\ e.subject = <<"file", j>>
    BY EvidenceKinds
  <2>4. ASSUME NEW i \in Software, i \notin changed PROVE Known(i)'
    BY <2>1, <2>3, <2>4 DEF Known
  <2>. QED
    BY <2>1, <2>2, <2>4
<1>6. ASSUME NEW faults, CodesignDone \/ CollectRunning(faults) PROVE ScanInv'
  <2>1. /\ UNCHANGED <<world, evidence, gaps, toCheck, changed>> /\ scanPc' = scanPc + 1
        /\ (scanPc = 4 /\ toCheck = {}) \/ scanPc = 5
    BY <1>6 DEF CodesignDone, CollectRunning, At, Steps
  <2>2. ASSUME NEW i \in Software, i \notin changed PROVE Known(i)'
    BY <2>1, <2>2 DEF Known
  <2>. QED
    BY <2>1, <2>2
<1>7. ASSUME NEW j \in Software, Change(j) PROVE ScanInv'
  <2>1. /\ changed' = changed \cup {j} /\ UNCHANGED <<scanPc, evidence, gaps, toCheck>>
        /\ \/ \E p \in {"none", "listener"} : world' = [world EXCEPT ![j].proc = p]
           \/ world' = [world EXCEPT ![j].present = ~@]
    BY <1>7 DEF Change
  <2>2. PICK w : world' = [world EXCEPT ![j] = w] /\ w \in World
    <3>1. \A p \in {"none", "listener"} : [world[j] EXCEPT !.proc = p] \in World
      BY <1>b DEF World
    <3>2. [world[j] EXCEPT !.present = ~@] \in World
      BY <1>b DEF World
    <3>3. CASE world' = [world EXCEPT ![j].present = ~@]
      BY <3>2, <3>3
    <3>4. CASE \E p \in {"none", "listener"} : world' = [world EXCEPT ![j].proc = p]
      BY <3>1, <3>4
    <3>. QED
      BY <2>1, <3>3, <3>4
  <2>3. ASSUME NEW i \in Software, i \notin changed' PROVE Known(i)'
    BY <2>1, <2>2, <2>3 DEF Known
  <2>. QED
    BY <2>1, <2>2, <2>3
<1>8. CASE Rescan
  <2>1. scanPc' = 1 /\ evidence' = {} /\ UNCHANGED world
    BY <1>8 DEF Rescan
  <2>. QED
    BY <2>1 DEF Known
<1>9. CASE UNCHANGED scanVars
  BY <1>9 DEF scanVars, Known
<1>. QED
  BY <1>1, <1>2, <1>4, <1>5, <1>6, <1>7, <1>8, <1>9 DEF ScanStep

\* The weights of the evidence add up to no less than two of them.
LEMMA WeightsAdd ==
    ASSUME NEW S, IsFiniteSet(S), NEW x \in S, NEW y \in S, x # y
    PROVE  /\ MapThenSumSet(Weight, S) \in Nat
           /\ MapThenSumSet(Weight, S) >= Weight(x) + Weight(y)
<1>. DEFINE w == [e \in S |-> Weight(e)]
            Is(it) == it = [t \in SUBSET S |-> IF t = {} THEN 0 ELSE Weight(Picked(t)) + it[t \ {Picked(t)}]]
<1>1. w \in [S -> Nat] /\ \A e \in S : w[e] = Weight(e)
  BY DEF Weight
<1>2. \A t \in SUBSET S : t # {} => Picked(t) \in S
  BY DEF Picked
<1>. HIDE DEF w
<1>3. PICK g : g = [t \in SUBSET S |-> g[t]] /\ IsSum(g, w, S)
  BY <1>1, SumExists
<1>4. Is(g)
  <2>1. \A t \in SUBSET S : g[t] = IF t = {} THEN 0 ELSE Weight(Picked(t)) + g[t \ {Picked(t)}]
    BY <1>1, <1>2, <1>3 DEF IsSum
  <2>. QED
    BY <1>3, <2>1
<1>. DEFINE h == CHOOSE it : Is(it)
<1>5. Is(h)
  <2>. HIDE DEF Is
  <2>. QED
    BY <1>4
<1>6. MapThenSumSet(Weight, S) = h[S]
  BY DEF MapThenSumSet, MapThenFoldSet, Picked
<1>. HIDE DEF h
<1>7. IsSum(h, w, S)
  BY <1>1, <1>2, <1>5 DEF IsSum
<1>8. h[S] \in Nat /\ h[S] >= w[x] + w[y]
  BY <1>1, <1>7, SumCovers
<1>. QED
  BY <1>1, <1>6, <1>8

\* What TriageInit asks of the machine.
LEMMA ScanInvInit == TriageInit => ScanInv
<1>. SUFFICES ASSUME TriageInit PROVE ScanInv
  OBVIOUS
<1>1. world \in [Software -> World]
  BY TriageAssumption DEF TriageInit, ScanInit
<1>2. scanPc = 1 /\ evidence = {}
  BY DEF TriageInit, ScanInit
<1>. QED
  BY <1>1, <1>2 DEF ScanInv, Known

\* The invariant of the scan, of Triage.
LEMMA ScanKept == TriageSpec => []ScanInv
<1>. QED
  BY ScanInvInit, ScanInvStep, PTL DEF TriageSpec

\* Once a scan is finished, what is known of a file's signature is what it is signed with.
LEMMA SignatureKnown ==
    ASSUME ScanInv, NEW i \in Software, Steady(i), world[i].present, Of(<<"file", i>>) # {}
    PROVE  /\ \E e \in Of(<<"file", i>>) : e.kind = "codesign" /\ e.what = world[i].sign
           /\ \A e \in Of(<<"file", i>>) : e.kind = "codesign" => e.what = world[i].sign
<1>1. Known(i) /\ scanPc = 6
  BY DEF ScanInv, Steady, At, Steps
<1>2. \A e \in CodesignOf(i, world[i]) : e.what = world[i].sign
  BY DEF CodesignOf, Observed
<1>3. \A e \in Of(<<"file", i>>) : e.kind = "codesign" => e.what = world[i].sign
  BY <1>1, <1>2 DEF Known, Of
<1>4. CodesignOf(i, world[i]) \subseteq evidence
  BY <1>1 DEF Known, Of
<1>5. PICK e \in CodesignOf(i, world[i]) : TRUE
  BY DEF CodesignOf
<1>6. e.kind = "codesign" /\ e.subject = <<"file", i>>
  BY EvidenceKinds
<1>. QED
  BY <1>2, <1>3, <1>4, <1>5, <1>6 DEF Of

\* What has persistence and code signing agree on evidence that weighs four is shown.
LEMMA AgreedIsShown ==
    ASSUME evidence \subseteq Evidence, NEW s,
           NEW x \in Of(s), NEW y \in Of(s), x.kind # y.kind, Weight(x) + Weight(y) >= 4
    PROVE  Score(s) \in Nat /\ Score(s) >= ShowThreshold
<1>1. IsFiniteSet(Of(s))
  BY EvidenceFinite, FS_Subset DEF Of
<1>. DEFINE sum == MapThenSumSet(Weight, Of(s))
<1>2. sum \in Nat /\ sum >= 4
  <2>1. Weight(x) \in Nat /\ Weight(y) \in Nat
    BY DEF Weight
  <2>2. x # y
    OBVIOUS
  <2>3. sum \in Nat /\ sum >= Weight(x) + Weight(y)
    BY <1>1, <2>2, WeightsAdd
  <2>. HIDE DEF sum
  <2>. QED
    BY <2>1, <2>3
<1>3. Cardinality(KindsOf(s)) >= 2
  <2>1. IsFiniteSet({"persistence", "process", "tcc", "codesign"})
    BY FourFinite
  <2>2. KindsOf(s) \subseteq {"persistence", "process", "tcc", "codesign"}
    BY DEF KindsOf, Of, Evidence
  <2>3. IsFiniteSet(KindsOf(s))
    BY <2>1, <2>2, FS_Subset
  <2>4. {x.kind, y.kind} \subseteq KindsOf(s)
    BY DEF KindsOf
  <2>5. Cardinality({x.kind, y.kind}) = 2
    <3>1. IsFiniteSet({x.kind}) /\ Cardinality({x.kind}) = 1
      BY FS_Singleton
    <3>2. Cardinality({x.kind} \cup {y.kind}) = Cardinality({x.kind}) + 1
      BY <3>1, FS_AddElement
    <3>3. {x.kind} \cup {y.kind} = {x.kind, y.kind}
      OBVIOUS
    <3>. QED
      BY <3>1, <3>2, <3>3
  <2>6. Cardinality({x.kind, y.kind}) <= Cardinality(KindsOf(s))
    BY <2>3, <2>4, FS_Subset
  <2>. QED
    BY <2>3, <2>5, <2>6, FS_CardinalityType
<1>4. Score(s) = (sum * 150) \div 100
  BY <1>3 DEF Score
<1>. HIDE DEF sum
<1>. QED
  BY <1>2, <1>4 DEF ShowThreshold

\* The signature decides, part one: accepted software is not recommended for quarantine.
LEMMA CappedHolds ==
    ASSUME ScanInv, NEW i \in Software, Steady(i), world[i].present
    PROVE  Capped(i)
<1>. DEFINE s == <<"file", i>>
<1>. SUFFICES ASSUME world[i].sign \in {"developer", "appleNamed", "notarized", "apple"}, s \in Scored
              PROVE  Recommend(s) # "Quarantine"
  BY DEF Capped
<1>1. AcceptedSigned(s) /\ ~Unsigned(s)
  BY SignatureKnown DEF Scored, AcceptedSigned, Unsigned, Has
<1>2. ~Tripwire(s)
  BY <1>1 DEF Tripwire
<1>. HIDE DEF s
<1>. QED
  BY <1>1, <1>2 DEF Recommend

\* Part two: what is unsigned or revoked and starts itself is actionable and stands out.
LEMMA SurfacesHolds ==
    ASSUME ScanInv, NEW i \in Software, Steady(i), world[i].present
    PROVE  Surfaces(i)
<1>. DEFINE s == <<"file", i>>
<1>. SUFFICES ASSUME world[i].sign \in {"unsigned", "revoked"}, "bak" \notin world[i].plists,
                     NEW p \in world[i].plists,
                     p = "user" \/ (p = "local" /\ world[i].place = "hidden"),
                     PlistEvidence(i, world[i], p) \subseteq evidence
              PROVE  /\ s \in Scored /\ Recommend(s) \in {"Investigate", "Quarantine"}
                     /\ Unsigned(s) => Concern(s) \in {"notable", "elevated"}
  BY DEF Surfaces
<1>. DEFINE x == Observed(s, "persistence", IF p = "user" THEN "userAgent" ELSE "hidden", p)
<1>1. Known(i) /\ scanPc = 6 /\ evidence \subseteq Evidence /\ s \in Subjects
  BY DEF ScanInv, Steady, At, Steps, Subjects
<1>2. x \in PlistEvidence(i, world[i], p)
  BY DEF PlistEvidence
<1>3. x \in Of(s) /\ x.kind = "persistence" /\ Weight(x) = 1
  BY <1>2 DEF Of, Observed, Weight
<1>4. PICK y \in Of(s) : y.kind = "codesign" /\ y.what = world[i].sign
  BY <1>3, SignatureKnown
<1>5. \A e \in Of(s) : e.kind = "codesign" => e.what = world[i].sign
  BY <1>3, SignatureKnown
<1>6. ~AcceptedSigned(s) /\ ~Trusted(s)
  BY <1>5 DEF AcceptedSigned, Trusted, Has
<1>7. s \in Scored
  BY <1>1, <1>3, <1>6 DEF Scored
<1>8. Score(s) \in Nat /\ Score(s) >= ShowThreshold
  <2>1. Weight(y) >= 3 /\ Weight(y) \in Nat
    BY <1>4 DEF Weight
  <2>. QED
    BY <1>1, <1>3, <1>4, <2>1, AgreedIsShown
<1>9. Liveness(s) # "dormant"
  <2>1. ASSUME NEW e \in Of(s), e.kind = "persistence" PROVE e.what # "missing" /\ e.plist # "bak"
    <3>1. PICK q \in world[i].plists : e \in PlistEvidence(i, world[i], q)
      BY <1>1, <2>1 DEF Known, Of, Persistence
    <3>. QED
      BY <3>1 DEF PlistEvidence, Observed
  <2>. QED
    BY <2>1 DEF Liveness
<1>10. ASSUME Unsigned(s) PROVE Concern(s) \in {"notable", "elevated"}
  <2>1. Persistent(s)
    BY <1>3 DEF Persistent, KindsOf
  <2>. HIDE DEF s
  <2>2. ConcernScore(s) \in Nat /\ ConcernScore(s) >= 3
    BY <1>10, <2>1 DEF ConcernScore
  <2>. QED
    BY <1>10, <2>2 DEF Concern
<1>11. Recommend(s) \in {"Investigate", "Quarantine"}
  <2>. HIDE DEF s
  <2>. QED
    BY <1>6, <1>8, <1>9 DEF Recommend
<1>. QED
  BY <1>7, <1>10, <1>11

\* Whatever the collectors miss, with a gap or without, the machine does and the other
\* items are: once a scan is done, the signature decides (internal/score and internal/interpret).
THEOREM SignatureDecided == TriageSpec => []SignatureDecides
<1>1. ScanInv => SignatureDecides
  BY CappedHolds, SurfacesHolds DEF SignatureDecides
<1>. QED
  BY <1>1, ScanKept, PTL
=============================================================================
