-------------------------- MODULE InterceptDaemon ---------------------------
(***************************************************************************)
(* The persistent form of the command: `intercept --install-daemon` and    *)
(* `intercept --uninstall-daemon` (runInstallDaemon, runUninstallDaemon,   *)
(* internal/intercept/daemon_darwin.go), with launchd, which starts the    *)
(* daemon at load and at boot, restarts it whenever it ends (KeepAlive)    *)
(* and stops it with SIGTERM (or, after a while, with SIGKILL: `kill`).    *)
(* The daemon is an intercept session process.                             *)
(*                                                                         *)
(* launchctl may fail, may not answer, and may be given up after it did    *)
(* its work; the commands go on after 20 s at the latest, and look at no   *)
(* error but bootstrap's.                                                  *)
(***************************************************************************)
EXTENDS Intercept

CONSTANTS Daemon,   \* the process launchd runs
          Admin     \* the process of --uninstall-daemon's forced revert

ASSUME DaemonAssumption == Daemon \in Procs /\ Admin \in Procs /\ Daemon # Admin

VARIABLES plist,    \* the definition under /Library/LaunchDaemons
          loaded,   \* launchd has the job
          term,     \* launchd has sent SIGTERM to the running daemon
          admin,    \* where the --(un)install-daemon command is
          removed,  \* history: the last such command was an uninstall that succeeded
          gaveUp,   \* history: and after its bootout the job or the daemon was still there
          untidy    \* history: the daemon died without its teardown, was stopped while
                    \* arming, or ran beside the forced revert

daemonVars == <<plist, loaded, term, admin, removed, gaveUp, untidy>>
allVars == <<vars, daemonVars>>

DaemonTypeOK ==
    /\ TypeOK
    /\ plist \in {"absent", "whole", "partial"}
    /\ loaded \in BOOLEAN /\ term \in BOOLEAN
    /\ admin \in {"idle", "iWrite", "iBootout", "iWait", "iBootstrap",
                  "uBootout", "uWait", "uRemove", "uRevert"}
    /\ removed \in BOOLEAN /\ gaveUp \in BOOLEAN /\ untidy \in BOOLEAN

DaemonInit == /\ Init
              /\ plist = "absent" /\ loaded = FALSE /\ term = FALSE
              /\ admin = "idle"
              /\ removed = FALSE /\ gaveUp = FALSE /\ untidy = FALSE

-----------------------------------------------------------------------------
(* launchd *)

\* Unload the job; SIGTERM its process, if there is one.
Unload == /\ loaded' = FALSE
          /\ term' = (pc[Daemon] # "off")

\* RunAtLoad and KeepAlive.
Start == /\ loaded /\ pc[Daemon] = "off"
         /\ Launch(Daemon, "session")
         /\ untidy' = (untidy \/ pc[Admin] # "off")
         /\ UNCHANGED <<plist, loaded, term, admin, removed, gaveUp>>

\* SIGTERM arrives: at the handler goroutine, or, before the handler is
\* registered, at the default disposition.
Terminate ==
    /\ term
    /\ \/ Signal(Daemon)
       \/ /\ pc[Daemon] = "setup"
          /\ Exit(Daemon, "other")
          /\ UNCHANGED <<proxy, trusted, caOnDisk, strays>>
    /\ term' = FALSE
    /\ untidy' = (untidy \/ pc[Daemon] \in Arming)
    /\ UNCHANGED <<plist, loaded, admin, removed, gaveUp>>

\* An orderly shutdown, and the next boot.
Shutdown == /\ loaded /\ admin = "idle"
            /\ Unload
            /\ UNCHANGED <<vars, plist, admin, removed, gaveUp, untidy>>

Boot == /\ plist = "whole" /\ ~loaded /\ admin = "idle" /\ AllOff
        /\ loaded' = TRUE
        /\ UNCHANGED <<vars, plist, term, admin, removed, gaveUp, untidy>>

-----------------------------------------------------------------------------
(* runInstallDaemon and InstallDaemon *)

\* Past the consent prompt.
BeginInstall == /\ admin = "idle" /\ pc[Admin] = "off"
                /\ admin' = "iWrite"
                /\ removed' = FALSE /\ gaveUp' = FALSE
                /\ UNCHANGED <<vars, plist, loaded, term, untidy>>

\* mkdirLogDir and writePlist: an error may leave half a definition behind.
WritePlist == /\ admin = "iWrite"
              /\ \/ plist' = "whole" /\ admin' = "iBootout"
                 \/ plist' \in {plist, "partial"} /\ admin' = "idle"
              /\ UNCHANGED <<vars, loaded, term, removed, gaveUp, untidy>>

\* launchctl bootout: launchd stops the daemon, or has no such job, or refuses, or does
\* nothing.
Bootout == /\ admin \in {"iBootout", "uBootout"}
           /\ \/ loaded /\ Unload
              \/ UNCHANGED <<loaded, term>>
           /\ admin' = IF admin = "iBootout" THEN "iWait" ELSE "uWait"
           /\ UNCHANGED <<vars, plist, removed, gaveUp, untidy>>

\* Mutant of BootoutOver: launchctl is run without a timeout.
BootoutWaits == /\ admin \in {"iWait", "uWait"}
                /\ ~loaded /\ pc[Daemon] = "off"
                /\ admin' = IF admin = "iWait" THEN "iBootstrap" ELSE "uRemove"
                /\ gaveUp' = FALSE
                /\ UNCHANGED <<vars, plist, loaded, term, removed, untidy>>

\* It returns when the daemon is gone, or with an error; or it is given up.
BootoutOver == /\ admin \in {"iWait", "uWait"}
               /\ admin' = IF admin = "iWait" THEN "iBootstrap" ELSE "uRemove"
               /\ gaveUp' = (admin = "uWait" /\ (loaded \/ pc[Daemon] # "off"))
               /\ UNCHANGED <<vars, plist, loaded, term, removed, untidy>>

\* launchd takes no job whose label it has, loaded or being stopped.
Bootstrapped == ~loaded /\ pc[Daemon] = "off" /\ loaded' = TRUE

\* A failed bootstrap removes the definition, if it can.
Bootstrap == /\ admin = "iBootstrap"
             /\ \/ Bootstrapped /\ UNCHANGED plist
                \/ (Bootstrapped \/ UNCHANGED loaded) /\ plist' \in {plist, "absent"}
             /\ admin' = "idle"
             /\ UNCHANGED <<vars, term, removed, gaveUp, untidy>>

-----------------------------------------------------------------------------
(* runUninstallDaemon, UninstallDaemon, then runInterceptUninstall *)

BeginUninstall == /\ admin = "idle" /\ pc[Admin] = "off"
                  /\ admin' = "uBootout"
                  /\ removed' = FALSE /\ gaveUp' = FALSE
                  /\ UNCHANGED <<vars, plist, loaded, term, untidy>>

\* runInterceptUninstall, by the same process.
BeginRevert == /\ admin' = "uRevert"
               /\ Launch(Admin, "uninstall")
               /\ untidy' = (untidy \/ pc[Daemon] # "off")

\* Mutant of RemovePlist: the error of the removal is ignored.
RemovePlistIgnored == /\ admin = "uRemove"
                      /\ plist' \in {plist, "absent"} /\ BeginRevert
                      /\ UNCHANGED <<loaded, term, removed, gaveUp>>

RemovePlist == /\ admin = "uRemove"
               /\ \/ plist' = "absent" /\ BeginRevert
                  \/ /\ plist # "absent"
                     /\ admin' = "idle"
                     /\ UNCHANGED <<vars, plist, untidy>>
               /\ UNCHANGED <<loaded, term, removed, gaveUp>>

-----------------------------------------------------------------------------

AdminStep == WritePlist \/ Bootout \/ BootoutOver \/ Bootstrap \/ RemovePlist

\* term belongs to the process it was sent to.  The command ends with its process.
\* The daemon may crash.
ProcStep(p) ==
    /\ \/ Step(p) /\ UNCHANGED untidy
       \/ ServeEnds(p) /\ UNCHANGED untidy
       \/ p = Daemon /\ Kill(p) /\ untidy' = TRUE
    /\ term' = (term /\ ~(p = Daemon /\ pc'[p] = "off"))
    /\ IF p = Admin /\ pc'[p] = "off"
       THEN /\ admin' = "idle"
            /\ removed' = (lastExit' = "uninstalled")
       ELSE UNCHANGED <<admin, removed>>
    /\ UNCHANGED <<plist, loaded, gaveUp>>

StrayStep == (\E c \in strays : Lands(c)) /\ UNCHANGED daemonVars

DaemonNext == \/ Start \/ Terminate \/ Shutdown \/ Boot
              \/ BeginInstall \/ BeginUninstall \/ AdminStep
              \/ \E p \in {Daemon, Admin} : ProcStep(p)
              \/ StrayStep

\* As in Intercept; launchd delivers the SIGTERM it sent, and the commands'
\* launchctl calls are bounded by a timeout.
DaemonFairness == /\ \A p \in {Daemon, Admin} : WF_allVars(Step(p) /\ ProcStep(p))
                  /\ WF_allVars(Terminate)
                  /\ WF_allVars(AdminStep)

DaemonSpec == DaemonInit /\ [][DaemonNext]_allVars /\ DaemonFairness

-----------------------------------------------------------------------------
(* Properties. *)

\* After --uninstall-daemon no definition is left to arm the machine at the next boot.  And
\* unless launchctl left it the job or the daemon, which it does not look at, no job, no
\* process and no trusted CA, whatever the daemon died of and as long as no call that a dead
\* one left behind comes to its effect; and the user's proxy settings are back, unless the
\* daemon ever crashed, was stopped while arming or ran beside the forced revert, however
\* often launchd had restarted or rebooted it.
UninstalledIsReverted ==
    removed /\ admin = "idle"
        => /\ plist # "whole"
           /\ ~gaveUp => ~loaded /\ AllOff /\ (trusted => lastExit = "stray")
           /\ ~gaveUp /\ ~untidy => \A s \in Services : PutBack(proxy[s], orig[s])

\* A machine on which the daemon is not loaded and nothing runs is one nobody is
\* decrypting, unless the daemon ever crashed, was stopped while arming or ran beside the
\* forced revert.
NothingLoadedNothingArmed ==
    ~loaded /\ AllOff /\ ~untidy => ~trusted /\ \A s \in Services : ~Redirected(proxy[s])

\* --uninstall-daemon ends, whatever launchd and the daemon do meanwhile.
UninstallEnds == admin = "uBootout" ~> admin = "idle"
=============================================================================
