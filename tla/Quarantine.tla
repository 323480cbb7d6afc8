----------------------------- MODULE Quarantine -----------------------------
(***************************************************************************)
(* The acting phase (internal/act) as one console session drives it:       *)
(* quarantining a finding moves its artifacts into the session's           *)
(* quarantine folder and appends an item to the session's manifest; `u`    *)
(* reverses one finding from the manifest, `counterspy restore` all of it. *)
(* Every move is a check and then a rename, and whatever respawns the item *)
(* does not wait between the two.                                          *)
(***************************************************************************)
EXTENDS Integers, Sequences

CONSTANTS Findings,   \* the findings' subjects
          Launch,     \* those that are launch items: they have a label and a plist
          MaxItems,   \* bound: the items of the manifest
          Faults      \* a subset of FaultKinds

(***************************************************************************)
(* move:  an action is refused or fails (Apple label, protected path,      *)
(*        symlink, permission, another volume)                             *)
(* write: writing the manifest fails, before or after truncating it        *)
(* crash: the session is killed                                            *)
(***************************************************************************)
FaultKinds == {"move", "write", "crash"}

ASSUME QuarantineAssumption == /\ Launch \subseteq Findings
                               /\ MaxItems \in Nat
                               /\ Faults \subseteq FaultKinds

Artifacts == {"plist", "target"}
Files == Findings \X Artifacts
Content == {"none", "orig", "foreign"}

VARIABLES home,       \* what is at each artifact's original path
          jail,       \* what is at its path under the quarantine folder
          loaded,     \* the launch items launchd has loaded
          manifest,   \* the items recorded: a subject and how many of its actions
          torn        \* manifest.json is cut short

VARIABLES done,          \* Model.Done
          lastManifest,  \* lastManifest is set
          session        \* the console session is open

\* The operation under way.
VARIABLES pc, key, act, item, ok, plistBack, whole,
          report,     \* history: how the last `counterspy restore` ended
          sound       \* history: no write of the manifest failed, and no crash

disk   == <<home, jail, loaded, manifest, torn>>
ui     == <<done, lastManifest, session>>
op     == <<key, act, item, ok, plistBack, whole>>
vars == <<disk, ui, pc, op, report, sound>>

\* The actions planned for a finding, in order.
PlannedActions(k) == IF k \in Launch THEN <<"bootout", "plist", "target">> ELSE <<"target">>

\* An item records a quarantine that completed at least one action.
Items == [key : Findings, n : 1 .. 3]

TypeOK ==
    /\ home \in [Files -> Content] /\ jail \in [Files -> Content]
    /\ loaded \subseteq Launch
    /\ manifest \in Seq(Items) /\ Len(manifest) <= MaxItems
    /\ torn \in BOOLEAN /\ (torn => manifest = << >>)
    /\ done \subseteq Findings /\ lastManifest \in BOOLEAN /\ session \in BOOLEAN
    /\ pc \in {"idle", "act", "rename", "record", "check", "back", "boot", "save"}
    /\ key \in Findings /\ act \in 1 .. 4 /\ item \in 0 .. MaxItems
    /\ ok \in BOOLEAN /\ plistBack \in BOOLEAN /\ whole \in BOOLEAN
    /\ report \in {"none", "clean", "issues"} /\ sound \in BOOLEAN

Init == /\ home = [f \in Files |-> "orig"] /\ jail = [f \in Files |-> "none"]
        /\ loaded = Launch
        /\ manifest = << >> /\ torn = FALSE
        /\ done = {} /\ lastManifest = FALSE /\ session = TRUE
        /\ pc = "idle" /\ key \in Findings /\ act = 1 /\ item = 0
        /\ ok = TRUE /\ plistBack = FALSE /\ whole = FALSE
        /\ report = "none" /\ sound = TRUE

-----------------------------------------------------------------------------
(* Quarantine, from the confirmed modal to applyFindingsCmd's bookkeeping. *)

Confirm(k) == /\ pc = "idle" /\ session
              /\ Len(manifest) < MaxItems
              /\ pc' = "act" /\ key' = k /\ act' = 1 /\ ok' = TRUE
              /\ UNCHANGED <<disk, ui, item, plistBack, whole, report, sound>>

File == <<key, PlannedActions(key)[act]>>

\* The operation stops at the first action that cannot be carried out.
Stop == /\ ok' = FALSE /\ pc' = "record"
        /\ UNCHANGED act

\* bootout is best effort; only a label of Apple's is refused.
Bootout ==
    /\ pc = "act" /\ act <= Len(PlannedActions(key))
    /\ PlannedActions(key)[act] = "bootout"
    /\ \/ /\ loaded' \in {loaded, loaded \ {key}}
          /\ act' = act + 1
          /\ UNCHANGED <<pc, ok>>
       \/ "move" \in Faults /\ Stop /\ UNCHANGED loaded
    /\ UNCHANGED <<home, jail, manifest, torn, ui, key, item, plistBack, whole, report, sound>>

\* Mutant of CheckMove: no test for a collision.
CheckMoveNoCollision ==
    /\ pc = "act" /\ act <= Len(PlannedActions(key))
    /\ PlannedActions(key)[act] \in Artifacts
    /\ \/ home[File] # "none" /\ pc' = "rename" /\ UNCHANGED <<act, ok>>
       \/ home[File] = "none" /\ Stop
    /\ UNCHANGED <<disk, ui, key, item, plistBack, whole, report, sound>>

\* refuseUnsafe, which an absent source fails, and the test for a collision.
CheckMove ==
    /\ pc = "act" /\ act <= Len(PlannedActions(key))
    /\ PlannedActions(key)[act] \in Artifacts
    /\ \/ /\ home[File] # "none" /\ jail[File] = "none"
          /\ pc' = "rename" /\ UNCHANGED <<act, ok>>
       \/ /\ home[File] = "none" \/ jail[File] # "none" \/ "move" \in Faults
          /\ Stop
    /\ UNCHANGED <<disk, ui, key, item, plistBack, whole, report, sound>>

Move ==
    /\ pc = "rename"
    /\ \/ /\ home[File] # "none"
          /\ jail' = [jail EXCEPT ![File] = home[File]]
          /\ home' = [home EXCEPT ![File] = "none"]
          /\ act' = act + 1 /\ pc' = "act" /\ UNCHANGED ok
       \/ /\ home[File] = "none" \/ "move" \in Faults
          /\ Stop /\ UNCHANGED <<home, jail>>
    /\ UNCHANGED <<loaded, manifest, torn, ui, key, item, plistBack, whole, report, sound>>

AllActed == /\ pc = "act" /\ act > Len(PlannedActions(key))
            /\ pc' = "record"
            /\ UNCHANGED <<disk, ui, op, report, sound>>

\* os.WriteFile of the manifest: whole, or not at all, or cut short.
WriteManifest(items) ==
    \/ manifest' = items /\ torn' = FALSE /\ UNCHANGED sound
    \/ /\ "write" \in Faults /\ sound' = FALSE
       /\ \/ UNCHANGED <<manifest, torn>>
          \/ manifest' = << >> /\ torn' = TRUE

\* Mutant of Record: only a quarantine that succeeded is recorded.
RecordIfOK ==
    /\ pc = "record"
    /\ IF ok THEN WriteManifest(Append(manifest, [key |-> key, n |-> act - 1]))
             ELSE UNCHANGED <<manifest, torn, sound>>
    /\ done' = IF ok THEN done \cup {key} ELSE done
    /\ lastManifest' = (lastManifest \/ ok)
    /\ pc' = "idle"
    /\ UNCHANGED <<home, jail, loaded, session, op, report>>

\* The deferred appendManifest, its error ignored (a manifest it cannot parse
\* counts as empty), and applyFindingsCmd.
Record ==
    /\ pc = "record"
    /\ IF act > 1 THEN WriteManifest(Append(manifest, [key |-> key, n |-> act - 1]))
                  ELSE UNCHANGED <<manifest, torn, sound>>
    /\ done' = IF ok THEN done \cup {key} ELSE done
    /\ lastManifest' = (lastManifest \/ act > 1)
    /\ pc' = "idle"
    /\ UNCHANGED <<home, jail, loaded, session, op, report>>

-----------------------------------------------------------------------------
(* RestoreItem for one finding, Restore for the whole manifest. *)

\* Item i is the first one recorded for k.
FirstItem(k, i) == manifest[i].key = k /\ \A j \in 1 .. i - 1 : manifest[j].key # k

BeginItem(i) == /\ item' = i /\ key' = manifest[i].key
                /\ act' = 1 /\ ok' = TRUE /\ plistBack' = FALSE
                /\ pc' = "check"

\* Key u, which wants the finding done, and a manifest with an item for it.
Undo(k) == /\ pc = "idle" /\ session
           /\ k \in done /\ lastManifest
           /\ \E i \in DOMAIN manifest : FirstItem(k, i) /\ BeginItem(i)
           /\ whole' = FALSE
           /\ UNCHANGED <<disk, ui, report, sound>>

\* `counterspy restore`, after the session.
Restore == /\ pc = "idle" /\ ~session
           /\ manifest # << >>
           /\ BeginItem(1) /\ whole' = TRUE
           /\ report' = "clean"
           /\ UNCHANGED <<disk, ui, sound>>

\* Mutant of Problem: the artifact is skipped and not reported.
SilentProblem == /\ ok' = FALSE /\ act' = act + 1 /\ pc' = "check"
                 /\ UNCHANGED report

\* The artifact is skipped and reported.
Problem == /\ ok' = FALSE /\ act' = act + 1 /\ pc' = "check"
           /\ report' = IF whole THEN "issues" ELSE report

\* restoreItem: an artifact goes back only if it is in quarantine and nothing is
\* at its place.
CheckBack ==
    /\ pc = "check" /\ act <= manifest[item].n
    /\ \/ /\ PlannedActions(key)[act] = "bootout"
          /\ act' = act + 1
          /\ UNCHANGED <<pc, ok, report>>
       \/ /\ PlannedActions(key)[act] \in Artifacts
          /\ jail[File] # "none" /\ home[File] = "none"
          /\ pc' = "back"
          /\ UNCHANGED <<act, ok, report>>
       \/ /\ PlannedActions(key)[act] \in Artifacts
          /\ jail[File] = "none" \/ home[File] # "none" \/ "move" \in Faults
          /\ Problem
    /\ UNCHANGED <<disk, ui, key, item, plistBack, whole, sound>>

\* os.Rename replaces what it finds.
MoveBack ==
    /\ pc = "back"
    /\ \/ /\ home' = [home EXCEPT ![File] = jail[File]]
          /\ jail' = [jail EXCEPT ![File] = "none"]
          /\ plistBack' = (plistBack \/ File[2] = "plist")
          /\ act' = act + 1 /\ pc' = "check" /\ UNCHANGED <<ok, report>>
       \/ "move" \in Faults /\ Problem /\ UNCHANGED <<home, jail, plistBack>>
    /\ UNCHANGED <<loaded, manifest, torn, ui, key, item, whole, sound>>

\* rebootstrap, best effort, when the item was booted out and its plist is back.
Rebootstrap ==
    /\ pc = "check" /\ act > manifest[item].n
    /\ loaded' \in IF plistBack /\ key \in Launch THEN {loaded, loaded \cup {key}} ELSE {loaded}
    /\ \/ /\ whole /\ item < Len(manifest)
          /\ item' = item + 1 /\ key' = manifest[item + 1].key
          /\ act' = 1 /\ plistBack' = FALSE
          /\ UNCHANGED <<pc, ok>>
       \/ /\ whole /\ item = Len(manifest)
          /\ pc' = "idle" /\ UNCHANGED <<item, key, act, ok, plistBack>>
       \/ /\ ~whole
          /\ pc' = IF ok THEN "save" ELSE "idle"
          /\ UNCHANGED <<item, key, act, ok, plistBack>>
    /\ UNCHANGED <<home, jail, manifest, torn, ui, whole, report, sound>>

\* Mutant of Save: the finding stays done.
SaveStaysDone ==
    /\ pc = "save"
    /\ manifest' = SubSeq(manifest, 1, item - 1) \o SubSeq(manifest, item + 1, Len(manifest))
    /\ pc' = "idle"
    /\ UNCHANGED <<home, jail, loaded, torn, ui, op, report, sound>>

\* A finding restored without a problem leaves the manifest; if that is saved it
\* is no longer done.
Save ==
    /\ pc = "save"
    /\ \/ /\ manifest' = SubSeq(manifest, 1, item - 1) \o SubSeq(manifest, item + 1, Len(manifest))
          /\ done' = done \ {key}
          /\ lastManifest' = (done \ {key} # {})
          /\ UNCHANGED <<torn, sound>>
       \/ /\ "write" \in Faults /\ sound' = FALSE
          /\ \/ UNCHANGED <<manifest, torn>>
             \/ manifest' = << >> /\ torn' = TRUE
          /\ UNCHANGED <<done, lastManifest>>
    /\ pc' = "idle"
    /\ UNCHANGED <<home, jail, loaded, session, op, report>>

-----------------------------------------------------------------------------
(* What else happens: the item is respawned or recreated by others and removed
   again, the session is left, or dies. *)

Appear(f) == /\ home[f] = "none"
             /\ home' = [home EXCEPT ![f] = "foreign"]
             /\ UNCHANGED <<jail, loaded, manifest, torn, ui, pc, op, report, sound>>

Vanish(f) == /\ home[f] = "foreign"
             /\ home' = [home EXCEPT ![f] = "none"]
             /\ UNCHANGED <<jail, loaded, manifest, torn, ui, pc, op, report, sound>>

LeaveSession == /\ session' = FALSE /\ pc' = "idle"
                /\ done' = {} /\ lastManifest' = FALSE

Quit == /\ pc = "idle" /\ session
        /\ LeaveSession
        /\ UNCHANGED <<disk, op, report, sound>>

Crash == /\ "crash" \in Faults /\ pc # "idle"
         /\ LeaveSession /\ report' = "none" /\ sound' = FALSE
         /\ UNCHANGED <<disk, op>>

Next == \/ \E k \in Findings : Confirm(k) \/ Undo(k)
        \/ Bootout \/ CheckMove \/ Move \/ AllActed \/ Record
        \/ Restore \/ CheckBack \/ MoveBack \/ Rebootstrap \/ Save
        \/ \E f \in Files : Appear(f) \/ Vanish(f)
        \/ Quit \/ Crash

Spec == Init /\ [][Next]_vars

-----------------------------------------------------------------------------
(* Properties. *)

\* "Never deleting": every artifact is at its place or in the quarantine folder,
\* whatever is respawned over it, whichever move or write fails, and wherever
\* the session dies.
NeverLost == \A f \in Files : home[f] = "orig" \/ jail[f] = "orig"

\* f is an artifact that an item of the manifest brings back.
Listed(f) == \E i \in DOMAIN manifest :
                /\ manifest[i].key = f[1]
                /\ \E a \in 1 .. manifest[i].n : PlannedActions(f[1])[a] = f[2]

\* Quarantine "records a manifest for whatever it completed (even on a mid-way
\* failure)": as long as the session lives and the manifest can be written, the
\* manifest lists whatever is in the folder between two operations, through
\* refused moves, retries, undos and items that respawn.
NoOrphans == sound /\ pc = "idle" => \A f \in Files : jail[f] # "none" => Listed(f)

\* A `counterspy restore` that reports no issue left nothing in quarantine (as long
\* as the manifest told the truth).
CleanRestoreIsWhole ==
    sound /\ pc = "idle" /\ ~session /\ report = "clean" => \A f \in Files : jail[f] = "none"

\* A finding the console shows as quarantined has an item that u can restore.
DoneHasItem ==
    sound /\ pc = "idle" => \A k \in done : \E i \in DOMAIN manifest : manifest[i].key = k
=============================================================================
