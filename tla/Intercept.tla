----------------------------- MODULE Intercept ------------------------------
(***************************************************************************)
(* The life of `counterspy intercept` processes: arming (CA trust, then    *)
(* the system proxy of every network service), serving, and the teardown   *)
(* that reverts both, run by the main goroutine's deferred call or by the  *)
(* signal-handling goroutine, whichever is first; and `intercept           *)
(* --uninstall`, which is meant to revert what a dead process left behind. *)
(*                                                                         *)
(* Every call of networksetup or security is one step, because anything    *)
(* may happen between two of them.  A tool call may fail at any time while *)
(* arming.  The constant Faults switches on the rest of what the           *)
(* environment can do to a process.                                        *)
(***************************************************************************)
EXTENDS SysProxy

CONSTANTS Procs,      \* process identities
          Services,   \* the enabled network services
          NoService,
          NoProc,
          Faults,     \* a subset of FaultKinds
          Outliving   \* bound: the tools whose calls may outlive their process

(***************************************************************************)
(* kill:        SIGKILL, a power loss, or a signal no handler is set for   *)
(* armSignal:   SIGINT/TERM/HUP while the main goroutine is still arming   *)
(* revertError: a tool call fails while reverting                          *)
(* late:        a tool call reports an error (a timeout) after it applied  *)
(* overlap:     two processes of the command run at the same time          *)
(***************************************************************************)
FaultKinds == {"kill", "armSignal", "revertError", "late", "overlap"}

(***************************************************************************)
(* The tool calls that change something: `security` adds the CA to the     *)
(* trusted roots or removes it; `networksetup` names a service's server,   *)
(* or turns its proxy on or off.                                           *)
(***************************************************************************)
Tools == {"trust", "untrust", "server", "on", "off"}

ASSUME InterceptAssumption == /\ Services # {} /\ NoService \notin Services
                              /\ NoProc \notin Procs
                              /\ Faults \subseteq FaultKinds
                              /\ Outliving \subseteq Tools

VARIABLES
    proxy,     \* each service's setting, in the system configuration
    trusted,   \* the CA is a trusted root of the System keychain
    caOnDisk,  \* ~/.counterspy holds the CA pair
    port,      \* the process listening on 127.0.0.1:62443
    strays,    \* the tool calls still running whose process is gone
    orig,      \* history: the settings before the command was ever run
    lastExit   \* history: how the last process to end ended, or that a stray call did

\* The memory of each process.
VARIABLES
    pc,        \* its main goroutine
    mode,      \* the command it runs
    handler,   \* its signal goroutine
    tdown,     \* its teardown closure
    trustRec,  \* trustInstalled
    tdRec,     \* redirectTeardown # nil
    cur,       \* svc of InstallProxy's loop
    prior,     \* the settings captured, of which ...
    armed,     \* ... these services' were appended to prior
    rem,       \* the services left to restore
    rsvc,      \* the service between restore's two calls
    sinks,
    clean      \* history: no tool call of the process failed

pastVars == <<strays, orig, lastExit>>
osVars   == <<proxy, trusted, caOnDisk, port>>
goVars   == <<mode, handler, tdown>>
recVars  == <<trustRec, tdRec, sinks>>
capVars  == <<cur, prior, armed>>
restVars == <<rem, rsvc>>
vars == <<proxy, trusted, caOnDisk, port, strays, orig, lastExit, pc, mode, handler, tdown,
          trustRec, tdRec, cur, prior, armed, rem, rsvc, sinks, clean>>

PC == {"off", "setup", "trust", "trustRec", "list", "get", "set", "undo",
       "proxyRec", "listen", "serve", "unwind", "revert", "load", "untrust"}

Call == [proc : Procs, tool : Tools, svc : Services \cup {NoService}, srv : Servers]

TypeOK == /\ proxy \in [Services -> Setting]
          /\ orig \in [Services -> Setting]
          /\ trusted \in BOOLEAN
          /\ caOnDisk \in BOOLEAN
          /\ port \in Procs \cup {NoProc}
          /\ strays \subseteq Call
          /\ lastExit \in {"other", "signalled", "uninstalled", "stray"}
          /\ pc \in [Procs -> PC]
          /\ mode \in [Procs -> {"session", "uninstall"}]
          /\ handler \in [Procs -> {"none", "wait", "in"}]
          /\ tdown \in [Procs -> {"idle", "redirect", "trust", "sinks", "done"}]
          /\ trustRec \in [Procs -> BOOLEAN]
          /\ tdRec \in [Procs -> BOOLEAN]
          /\ cur \in [Procs -> Services \cup {NoService}]
          /\ prior \in [Procs -> [Services -> Setting]]
          /\ armed \in [Procs -> SUBSET Services]
          /\ rem \in [Procs -> SUBSET Services]
          /\ rsvc \in [Procs -> Services \cup {NoService}]
          /\ sinks \in [Procs -> {"unopened", "open", "closed"}]
          /\ clean \in [Procs -> BOOLEAN]

NoCapture == [s \in Services |-> NoProxy]

Init == /\ orig \in [Services -> {c \in Setting : c.srv # Ours}]
        /\ proxy = orig
        /\ trusted = FALSE
        /\ caOnDisk \in BOOLEAN
        /\ port = NoProc
        /\ strays = {}
        /\ lastExit = "other"
        /\ pc = [p \in Procs |-> "off"]
        /\ mode = [p \in Procs |-> "session"]
        /\ handler = [p \in Procs |-> "none"]
        /\ tdown = [p \in Procs |-> "idle"]
        /\ trustRec = [p \in Procs |-> FALSE]
        /\ tdRec = [p \in Procs |-> FALSE]
        /\ cur = [p \in Procs |-> NoService]
        /\ prior = [p \in Procs |-> NoCapture]
        /\ armed = [p \in Procs |-> {}]
        /\ rem = [p \in Procs |-> {}]
        /\ rsvc = [p \in Procs |-> NoService]
        /\ sinks = [p \in Procs |-> "unopened"]
        /\ clean = [p \in Procs |-> TRUE]

AllOff == \A p \in Procs : pc[p] = "off"

Arming == {"trust", "trustRec", "list", "get", "set", "undo", "proxyRec"}

Goto(p, l) == pc' = [pc EXCEPT ![p] = l]

\* A tool call of p failed.
Fails(p) == clean' = [clean EXCEPT ![p] = FALSE]

-----------------------------------------------------------------------------
(* Leaving.  The process's memory and its listener go with it. *)

Exit(p, how) == /\ Goto(p, "off")
                /\ mode' = [mode EXCEPT ![p] = "session"]
                /\ handler' = [handler EXCEPT ![p] = "none"]
                /\ tdown' = [tdown EXCEPT ![p] = "idle"]
                /\ trustRec' = [trustRec EXCEPT ![p] = FALSE]
                /\ tdRec' = [tdRec EXCEPT ![p] = FALSE]
                /\ cur' = [cur EXCEPT ![p] = NoService]
                /\ prior' = [prior EXCEPT ![p] = NoCapture]
                /\ armed' = [armed EXCEPT ![p] = {}]
                /\ rem' = [rem EXCEPT ![p] = {}]
                /\ rsvc' = [rsvc EXCEPT ![p] = NoService]
                /\ sinks' = [sinks EXCEPT ![p] = "unopened"]
                /\ clean' = [clean EXCEPT ![p] = TRUE]
                /\ port' = IF port = p THEN NoProc ELSE port
                /\ lastExit' = how
                /\ UNCHANGED orig

\* The call the main goroutine may be waiting for, and that of a teardown.
CallOf(p, tool, s, srv) == [proc |-> p, tool |-> tool, svc |-> s, srv |-> srv]

RestoreCalls(p) ==
    IF rsvc[p] = NoService
    THEN {CallOf(p, "server", s, prior[p][s].srv) : s \in rem[p]}
    ELSE {CallOf(p, IF HadProxy(prior[p][rsvc[p]]) THEN "on" ELSE "off", rsvc[p], NoServer)}

MainCalls(p) ==
    CASE pc[p] = "trust"              -> {CallOf(p, "trust", NoService, NoServer)}
      [] pc[p] = "set"                -> {CallOf(p, "server", cur[p], Ours)}
      [] pc[p] \in {"undo", "revert"} -> RestoreCalls(p)
      [] pc[p] = "untrust"            -> {CallOf(p, "untrust", NoService, NoServer)}
      [] OTHER                        -> {}

TeardownCalls(p) ==
    CASE tdown[p] = "redirect" /\ tdRec[p] -> RestoreCalls(p)
      [] tdown[p] = "trust" /\ trustRec[p] -> {CallOf(p, "untrust", NoService, NoServer)}
      [] OTHER                             -> {}

\* A tool is a child process, and its deadline is kept by the process that started it:
\* when that is gone it may go on.
AtMostOne(calls) == {{}} \cup {{c} : c \in calls}

Orphaned(main, teardown) ==
    \E c \in AtMostOne(main), d \in AtMostOne(teardown) :
        strays' = strays \cup {e \in c \cup d : e.tool \in Outliving}

Kill(p) == /\ "kill" \in Faults
           /\ pc[p] # "off"
           /\ Orphaned(MainCalls(p), TeardownCalls(p))
           /\ Exit(p, "other")
           /\ UNCHANGED <<proxy, trusted, caOnDisk>>

\* It comes to its effect, whoever runs by then.
Lands(c) ==
    /\ c \in strays
    /\ strays' = strays \ {c} /\ lastExit' = "stray"
    /\ trusted' = IF c.tool \in {"trust", "untrust"} THEN c.tool = "trust" ELSE trusted
    /\ proxy' = CASE c.tool = "server" -> [proxy EXCEPT ![c.svc] = SetSecureWebProxy(c.srv)]
                  [] c.tool \in {"on", "off"} ->
                         [proxy EXCEPT ![c.svc] = SetSecureWebProxyState(@, c.tool = "on")]
                  [] OTHER -> proxy
    /\ UNCHANGED <<caOnDisk, port, orig, pc, goVars, recVars, capVars, restVars, clean>>

-----------------------------------------------------------------------------
(* runIntercept up to the arming, and runInterceptUninstall's entry. *)

Launch(p, m) == /\ pc[p] = "off"
                /\ AllOff \/ "overlap" \in Faults
                /\ Goto(p, IF m = "session" THEN "setup" ELSE "list")
                /\ mode' = [mode EXCEPT ![p] = m]
                /\ UNCHANGED <<handler, tdown, recVars, capVars, restVars, clean, osVars, pastVars>>

\* Load or create the CA, ask for consent, open the sinks, register the signal
\* handler and the deferred teardown.  Each of the first three may end the run.
Setup(p) ==
    /\ pc[p] = "setup"
    /\ \/ /\ caOnDisk' = TRUE
          /\ Goto(p, "trust")
          /\ handler' = [handler EXCEPT ![p] = "wait"]
          /\ sinks' = [sinks EXCEPT ![p] = "open"]
          /\ UNCHANGED <<mode, tdown, trustRec, tdRec, capVars, restVars, clean, port, pastVars>>
       \/ /\ caOnDisk' \in {caOnDisk, TRUE}
          /\ Exit(p, "other") /\ UNCHANGED strays
    /\ UNCHANGED <<proxy, trusted>>

\* mu is held by a teardown for all of its run.
MuFree(p) == tdown[p] \in {"idle", "done"}

InstallTrust(p) ==
    /\ pc[p] = "trust"
    /\ \/ /\ trusted' = TRUE
          /\ Goto(p, "trustRec") /\ UNCHANGED clean
       \/ /\ UNCHANGED trusted \/ ("late" \in Faults /\ trusted' = TRUE)
          /\ Goto(p, "unwind") /\ Fails(p)
    /\ UNCHANGED <<goVars, recVars, capVars, restVars, proxy, caOnDisk, port, pastVars>>

RecordTrust(p) ==
    /\ pc[p] = "trustRec" /\ MuFree(p)
    /\ trustRec' = [trustRec EXCEPT ![p] = TRUE]
    /\ Goto(p, "list")
    /\ UNCHANGED <<goVars, tdRec, sinks, capVars, restVars, clean, osVars, pastVars>>

-----------------------------------------------------------------------------
(* InstallProxy, called by both commands. *)

\* Where the caller goes when InstallProxy returns an error.
InstallFailed(p) == IF mode[p] = "session" THEN "unwind" ELSE "load"

NetworkServices(p) ==
    /\ pc[p] = "list"
    /\ \/ Goto(p, "get") /\ UNCHANGED clean
       \/ Goto(p, InstallFailed(p)) /\ Fails(p)
    /\ UNCHANGED <<goVars, recVars, capVars, restVars, osVars, pastVars>>

\* An error of either call undoes the services already redirected.
Undo(p) == /\ Goto(p, "undo") /\ Fails(p)
           /\ rem' = [rem EXCEPT ![p] = armed[p]]
           /\ cur' = [cur EXCEPT ![p] = NoService]
           /\ UNCHANGED <<prior, armed>>

\* Mutant of GetProxyState: a service may be captured again once redirected.
GetProxyStateAgain(p) ==
    /\ pc[p] = "get"
    /\ \E s \in Services :
          /\ cur' = [cur EXCEPT ![p] = s]
          /\ prior' = [prior EXCEPT ![p][s] = proxy[s]]
          /\ Goto(p, "set")
    /\ UNCHANGED <<armed, rem, clean, goVars, recVars, rsvc, osVars, pastVars>>

GetProxyState(p) ==
    /\ pc[p] = "get"
    /\ \/ \E s \in Services \ armed[p] :
             /\ cur' = [cur EXCEPT ![p] = s]
             /\ prior' = [prior EXCEPT ![p][s] = proxy[s]]
             /\ Goto(p, "set")
             /\ UNCHANGED <<armed, rem, clean>>
       \/ Undo(p)
    /\ UNCHANGED <<goVars, recVars, rsvc, osVars, pastVars>>

\* A service joins prior only once it is redirected.
SetProxy(p) ==
    /\ pc[p] = "set"
    /\ \/ /\ proxy' = [proxy EXCEPT ![cur[p]] = SetSecureWebProxy(Ours)]
          /\ armed' = [armed EXCEPT ![p] = @ \cup {cur[p]}]
          /\ cur' = [cur EXCEPT ![p] = NoService]
          /\ Goto(p, IF armed[p] \cup {cur[p]} = Services THEN "proxyRec" ELSE "get")
          /\ UNCHANGED <<prior, rem, clean>>
       \/ /\ \/ UNCHANGED proxy
             \/ "late" \in Faults /\ proxy' = [proxy EXCEPT ![cur[p]] = SetSecureWebProxy(Ours)]
          /\ Undo(p)
    /\ UNCHANGED <<goVars, recVars, rsvc, trusted, caOnDisk, port, pastVars>>

-----------------------------------------------------------------------------
(* proxyState.restore of one service after another: InstallProxy's undo, its
   teardown closure called by the process's teardown, or by --uninstall. *)

Restoring(p) == \/ pc[p] \in {"undo", "revert"}
                \/ tdown[p] = "redirect" /\ tdRec[p]

\* The first call names the captured server.  Its error ends the restore of a
\* service whose user had a proxy, and is ignored otherwise.  What networksetup
\* does with an empty server is not documented: it may refuse it.
RestoreServer(p, s) ==
    /\ Restoring(p) /\ rsvc[p] = NoService /\ s \in rem[p]
    /\ \/ /\ proxy' = [proxy EXCEPT ![s] = SetSecureWebProxy(prior[p][s].srv)]
          /\ rsvc' = [rsvc EXCEPT ![p] = s]
          /\ UNCHANGED <<rem, clean>>
       \/ /\ "revertError" \in Faults \/ prior[p][s].srv = NoServer
          /\ \/ /\ HadProxy(prior[p][s])
                /\ rem' = [rem EXCEPT ![p] = @ \ {s}]
                /\ Fails(p) /\ UNCHANGED rsvc
             \/ /\ ~HadProxy(prior[p][s])
                /\ rsvc' = [rsvc EXCEPT ![p] = s]
                /\ UNCHANGED <<rem, clean>>
          /\ UNCHANGED proxy
    /\ UNCHANGED <<pc, goVars, recVars, capVars, trusted, caOnDisk, port, pastVars>>

\* The second call turns the proxy on or off.
RestoreState(p) ==
    /\ Restoring(p) /\ rsvc[p] # NoService
    /\ \/ /\ proxy' = [proxy EXCEPT ![rsvc[p]] =
                          SetSecureWebProxyState(@, HadProxy(prior[p][rsvc[p]]))]
          /\ UNCHANGED clean
       \/ "revertError" \in Faults /\ Fails(p) /\ UNCHANGED proxy
    /\ rem' = [rem EXCEPT ![p] = @ \ {rsvc[p]}]
    /\ rsvc' = [rsvc EXCEPT ![p] = NoService]
    /\ UNCHANGED <<pc, goVars, recVars, capVars, trusted, caOnDisk, port, pastVars>>

\* undo is over and InstallProxy returns its error, or --uninstall's td() is.
RestoreDone(p) ==
    /\ pc[p] \in {"undo", "revert"} /\ rem[p] = {}
    /\ armed' = [armed EXCEPT ![p] = {}]
    /\ Goto(p, IF pc[p] = "undo" THEN InstallFailed(p) ELSE "load")
    /\ UNCHANGED <<goVars, recVars, cur, prior, restVars, clean, osVars, pastVars>>

-----------------------------------------------------------------------------
(* The rest of runIntercept. *)

\* A session records the teardown closure; --uninstall calls it at once.
RecordProxy(p) ==
    /\ pc[p] = "proxyRec"
    /\ \/ /\ mode[p] = "session" /\ MuFree(p)
          /\ tdRec' = [tdRec EXCEPT ![p] = TRUE]
          /\ Goto(p, "listen") /\ UNCHANGED rem
       \/ /\ mode[p] = "uninstall"
          /\ rem' = [rem EXCEPT ![p] = armed[p]]
          /\ Goto(p, "revert") /\ UNCHANGED tdRec
    /\ UNCHANGED <<goVars, trustRec, sinks, capVars, rsvc, clean, osVars, pastVars>>

Listen(p) ==
    /\ pc[p] = "listen"
    /\ \/ port = NoProc /\ port' = p /\ Goto(p, "serve")
       \/ Goto(p, "unwind") /\ UNCHANGED port
    /\ UNCHANGED <<goVars, recVars, capVars, restVars, clean, proxy, trusted, caOnDisk, pastVars>>

\* The accept loop returned an error, or panicked.
ServeEnds(p) ==
    /\ pc[p] = "serve"
    /\ Goto(p, "unwind")
    /\ UNCHANGED <<goVars, recVars, capVars, restVars, clean, osVars, pastVars>>

\* The handler goroutine receives a signal.  The channel is read once: later
\* signals change nothing.
Signal(p) ==
    /\ handler[p] = "wait"
    /\ pc[p] \in Arming => "armSignal" \in Faults
    /\ handler' = [handler EXCEPT ![p] = "in"]
    /\ UNCHANGED <<pc, mode, tdown, recVars, capVars, restVars, clean, osVars, pastVars>>

-----------------------------------------------------------------------------
(* teardown, inside once.Do and under mu. *)

\* The first of the two goroutines to call it runs it.
BeginTeardown(p) ==
    /\ tdown[p] = "idle"
    /\ pc[p] = "unwind" \/ handler[p] = "in"
    /\ tdown' = [tdown EXCEPT ![p] = "redirect"]
    /\ rem' = [rem EXCEPT ![p] = IF tdRec[p] THEN armed[p] ELSE @]
    /\ UNCHANGED <<pc, mode, handler, recVars, capVars, rsvc, clean, osVars, pastVars>>

\* Mutant of RedirectReverted: the CA loses trust without waiting for the proxy.
RedirectNotAwaited(p) ==
    /\ tdown[p] = "redirect"
    /\ tdown' = [tdown EXCEPT ![p] = "trust"]
    /\ UNCHANGED <<pc, mode, handler, recVars, capVars, restVars, clean, osVars, pastVars>>

RedirectReverted(p) ==
    /\ tdown[p] = "redirect"
    /\ tdRec[p] => rem[p] = {}
    /\ tdown' = [tdown EXCEPT ![p] = "trust"]
    /\ UNCHANGED <<pc, mode, handler, recVars, capVars, restVars, clean, osVars, pastVars>>

UninstallTrust(p) ==
    /\ tdown[p] = "trust"
    /\ \/ /\ trusted' = (trusted /\ ~trustRec[p])
          /\ UNCHANGED clean
       \/ trustRec[p] /\ "revertError" \in Faults /\ Fails(p) /\ UNCHANGED trusted
    /\ tdown' = [tdown EXCEPT ![p] = "sinks"]
    /\ UNCHANGED <<pc, mode, handler, recVars, capVars, restVars, proxy, caOnDisk, port, pastVars>>

CloseSinks(p) ==
    /\ tdown[p] = "sinks"
    /\ tdown' = [tdown EXCEPT ![p] = "done"]
    /\ sinks' = [sinks EXCEPT ![p] = "closed"]
    /\ UNCHANGED <<pc, mode, handler, trustRec, tdRec, capVars, restVars, clean, osVars, pastVars>>

\* Mutant of Return: no deferred teardown.
ReturnAtOnce(p) == /\ pc[p] = "unwind"
                   /\ Exit(p, "other")
                   /\ UNCHANGED <<proxy, trusted, caOnDisk, strays>>

\* The main goroutine returns: once.Do made it wait for a teardown under way.
Return(p) == /\ pc[p] = "unwind" /\ tdown[p] = "done"
             /\ Exit(p, "other")
             /\ UNCHANGED <<proxy, trusted, caOnDisk, strays>>

\* Mutant of HandlerExit: it exits without a teardown.
HandlerExitAtOnce(p) == /\ handler[p] = "in"
                        /\ Orphaned(MainCalls(p), {})
                        /\ Exit(p, "signalled")
                        /\ UNCHANGED <<proxy, trusted, caOnDisk>>

\* The handler's os.Exit(130), wherever the main goroutine is.
HandlerExit(p) == /\ handler[p] = "in" /\ tdown[p] = "done"
                  /\ Orphaned(MainCalls(p), {})
                  /\ Exit(p, "signalled")
                  /\ UNCHANGED <<proxy, trusted, caOnDisk>>

-----------------------------------------------------------------------------
(* The rest of runInterceptUninstall. *)

\* Mutant of LoadCA: an unreadable CA is taken for one that was never created.
LoadCAQuietly(p) ==
    /\ pc[p] = "load"
    /\ \/ /\ caOnDisk
          /\ Goto(p, "untrust")
          /\ UNCHANGED <<goVars, recVars, capVars, restVars, clean, port, pastVars>>
       \/ Exit(p, IF clean[p] THEN "uninstalled" ELSE "other") /\ UNCHANGED strays
    /\ UNCHANGED <<proxy, trusted, caOnDisk>>

LoadCA(p) ==
    /\ pc[p] = "load"
    /\ \/ /\ caOnDisk
          /\ Goto(p, "untrust")
          /\ UNCHANGED <<goVars, recVars, capVars, restVars, clean, port, pastVars>>
       \/ /\ Exit(p, IF ~caOnDisk /\ clean[p] THEN "uninstalled" ELSE "other")
          /\ UNCHANGED strays
    /\ UNCHANGED <<proxy, trusted, caOnDisk>>

ForceUntrust(p) ==
    /\ pc[p] = "untrust"
    /\ \/ trusted' = FALSE /\ Exit(p, IF clean[p] THEN "uninstalled" ELSE "other")
       \/ UNCHANGED trusted /\ "revertError" \in Faults /\ Exit(p, "other")
    /\ UNCHANGED <<proxy, caOnDisk, strays>>

-----------------------------------------------------------------------------

\* What a process does on its own once it is started.
Step(p) == \/ Setup(p) \/ InstallTrust(p) \/ RecordTrust(p)
           \/ NetworkServices(p) \/ GetProxyState(p) \/ SetProxy(p)
           \/ \E s \in Services : RestoreServer(p, s)
           \/ RestoreState(p) \/ RestoreDone(p)
           \/ RecordProxy(p) \/ Listen(p)
           \/ BeginTeardown(p) \/ RedirectReverted(p) \/ UninstallTrust(p)
           \/ CloseSinks(p) \/ Return(p) \/ HandlerExit(p)
           \/ LoadCA(p) \/ ForceUntrust(p)

Next == \/ \E p \in Procs : \/ \E m \in {"session", "uninstall"} : Launch(p, m)
                            \/ Step(p)
                            \/ Signal(p) \/ ServeEnds(p) \/ Kill(p)
        \/ \E c \in strays : Lands(c)

\* Every step of a running process is a tool call with a timeout or a local
\* assignment, and Go's scheduler runs every runnable goroutine.  Starting a
\* process, signals, the end of the accept loop, crashes and what a call that lost its
\* process does are not promised.
Fairness == \A p \in Procs : WF_vars(Step(p))

Spec == Init /\ [][Next]_vars /\ Fairness

-----------------------------------------------------------------------------
(* Properties. *)

\* "A MITM that armed must always disarm": when no process is left, every
\* service has the setting it had before the first run and the CA is not
\* trusted, whichever arming step failed and however the process was stopped.
Reverted == AllOff => /\ \A s \in Services : PutBack(proxy[s], orig[s])
                      /\ ~trusted

\* Arming trusts the CA before it redirects, and teardown stops redirecting
\* before the CA loses trust: no client is sent to a proxy whose certificates
\* it rejects.  (--uninstall redirects for a moment without touching trust.)
RedirectOnlyWhileTrusted ==
    (\E s \in Services : Redirected(proxy[s]))
        => trusted \/ \E p \in Procs : mode[p] = "uninstall"

\* What InstallProxy captures as a service's prior setting is never its own
\* redirection, which a teardown would then put back as if it were the user's.
CaptureIsForeign ==
    \A p \in Procs : \A s \in armed[p] \cup ({cur[p]} \ {NoService}) :
        ~Redirected(prior[p][s])

\* A process told to stop, by a signal or by the end of its accept loop, ends
\* with everything reverted.
StopDisarms ==
    \A p \in Procs : (handler[p] = "in" \/ pc[p] = "unwind")
        ~> (pc[p] = "off" /\ ~trusted /\ \A s \in Services : PutBack(proxy[s], orig[s]))

\* An --uninstall none of whose tool calls failed leaves no trusted CA, whatever was
\* killed or signalled, wherever it was, before; as long as no call that a dead process
\* left behind comes to its effect after it.
UninstallUntrusts == AllOff /\ lastExit = "uninstalled" => ~trusted

\* runIntercept's comment on registering the handler before arming: a signal in the
\* arming window finds that "teardown reverts whatever got installed".
SignalReverts ==
    AllOff /\ lastExit = "signalled"
        => ~trusted /\ \A s \in Services : PutBack(proxy[s], orig[s])

\* runInterceptUninstall's comment: it "self-heals after an unclean exit:
\* restore the system proxy setting".
UninstallRestoresProxy ==
    AllOff /\ lastExit = "uninstalled" => \A s \in Services : PutBack(proxy[s], orig[s])
=============================================================================
