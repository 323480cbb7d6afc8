-------------------------- MODULE InterceptProofs ---------------------------
(***************************************************************************)
(* What Intercept guarantees for every set of services and processes, and  *)
(* what --uninstall-daemon leaves behind: the steps of the daemon are      *)
(* those of an intercept process, and what holds of an undisturbed one     *)
(* holds until launchd's process dies or is stopped while arming.  And in  *)
(* every environment: a process, and a command, that has to end is never   *)
(* stuck and has less left to do with each step.                           *)
(***************************************************************************)
EXTENDS InterceptDaemon, Integers, FiniteSetTheorems, TLAPS

\* The effects of the tools and the value a dead process's memory has are
\* settings.
LEMMA SettingFacts ==
    /\ NoProxy \in Setting
    /\ NoCapture \in [Services -> Setting]
    /\ \A srv \in Servers : SetSecureWebProxy(srv) \in Setting
    /\ \A c \in Setting, on \in BOOLEAN : SetSecureWebProxyState(c, on) \in Setting
    /\ \A c \in Setting : HadProxy(c) \in BOOLEAN /\ c.srv \in Servers
  BY ServersAssumption
  DEF NoProxy, NoCapture, Setting, SetSecureWebProxy, SetSecureWebProxyState, HadProxy

\* TypeOK alone is not inductive: SetProxy adds cur to a set of services.
TypeInv == TypeOK /\ \A p \in Procs : pc[p] = "set" => cur[p] \in Services

\* TypeInv holds when no process has been started.
LEMMA TypeInit == Init => TypeInv
<1> SUFFICES ASSUME Init PROVE TypeInv
  OBVIOUS
<1>1. orig \in [Services -> Setting]
  BY DEF Init
<1> QED
  BY <1>1, SettingFacts DEF Init, TypeInv, TypeOK, PC

\* What a process that leaves has lost is of the types of the module.
LEMMA ExitTypes ==
    ASSUME TypeInv, NEW p \in Procs,
           NEW how \in {"other", "signalled", "uninstalled"}, Exit(p, how),
           proxy' \in [Services -> Setting], trusted' \in BOOLEAN, caOnDisk' \in BOOLEAN,
           strays' \subseteq Call
    PROVE  TypeInv'
<1>1. /\ pc' \in [Procs -> PC] /\ cur' \in [Procs -> Services \cup {NoService}]
      /\ \A r \in Procs : pc'[r] = "set" => cur'[r] \in Services
  BY DEF Exit, Goto, TypeInv, TypeOK, PC
<1>2. /\ mode' \in [Procs -> {"session", "uninstall"}]
      /\ handler' \in [Procs -> {"none", "wait", "in"}]
      /\ tdown' \in [Procs -> {"idle", "redirect", "trust", "sinks", "done"}]
      /\ trustRec' \in [Procs -> BOOLEAN] /\ tdRec' \in [Procs -> BOOLEAN]
  BY DEF Exit, TypeInv, TypeOK
<1>3. prior' \in [Procs -> [Services -> Setting]]
  BY SettingFacts DEF Exit, TypeInv, TypeOK
<1>4. /\ armed' \in [Procs -> SUBSET Services] /\ rem' \in [Procs -> SUBSET Services]
      /\ rsvc' \in [Procs -> Services \cup {NoService}]
      /\ sinks' \in [Procs -> {"unopened", "open", "closed"}] /\ clean' \in [Procs -> BOOLEAN]
  BY DEF Exit, TypeInv, TypeOK
<1>5. port' \in Procs \cup {NoProc} /\ orig' \in [Services -> Setting]
      /\ lastExit' \in {"other", "signalled", "uninstalled", "stray"}
  BY DEF Exit, TypeInv, TypeOK
<1> QED
  BY <1>1, <1>2, <1>3, <1>4, <1>5 DEF TypeInv, TypeOK

\* The calls a process may be in are calls, and only one of them trusts the CA.
LEMMA CallTypes ==
    ASSUME TypeInv, NEW p \in Procs
    PROVE  /\ MainCalls(p) \subseteq Call /\ TeardownCalls(p) \subseteq Call
           /\ \A c \in MainCalls(p) : c.tool = "trust" => pc[p] = "trust"
           /\ \A c \in TeardownCalls(p) : c.tool # "trust"
<1>1. NoServer \in Servers /\ Ours \in Servers
  BY ServersAssumption
<1>2. \A tool \in Tools, s \in Services \cup {NoService}, srv \in Servers :
          CallOf(p, tool, s, srv) \in Call /\ CallOf(p, tool, s, srv).tool = tool
  BY DEF CallOf, Call
<1>3. \A c \in RestoreCalls(p) : c \in Call /\ c.tool # "trust"
  <2>1. \A s \in rem[p] : s \in Services /\ prior[p][s].srv \in Servers
    BY SettingFacts DEF TypeInv, TypeOK
  <2>2. rsvc[p] \in Services \cup {NoService}
    BY DEF TypeInv, TypeOK
  <2>3. {"server", "on", "off"} \subseteq Tools
    BY DEF Tools
  <2> QED
    BY <1>1, <1>2, <2>1, <2>2, <2>3 DEF RestoreCalls
<1>4. {"trust", "untrust", "server"} \subseteq Tools
  BY DEF Tools
<1>5. pc[p] = "set" => cur[p] \in Services
  BY DEF TypeInv
<1>6. ASSUME NEW c \in MainCalls(p) PROVE c \in Call /\ (c.tool = "trust" => pc[p] = "trust")
  BY <1>1, <1>2, <1>3, <1>4, <1>5, <1>6 DEF MainCalls
<1>7. ASSUME NEW c \in TeardownCalls(p) PROVE c \in Call /\ c.tool # "trust"
  BY <1>1, <1>2, <1>3, <1>4, <1>7 DEF TeardownCalls
<1> QED
  BY <1>6, <1>7

\* What outlives a process is what it was in.
LEMMA OrphanTypes ==
    ASSUME NEW main, NEW teardown, Orphaned(main, teardown)
    PROVE  strays' \subseteq strays \cup main \cup teardown
  BY DEF Orphaned, AtMostOne

\* What one process is to revert is set.
LEMMA RemTypes ==
  ASSUME NEW f \in [Procs -> SUBSET Services], NEW p \in Procs, NEW x \in SUBSET Services
  PROVE  [f EXCEPT ![p] = x] \in [Procs -> SUBSET Services]
OBVIOUS

\* A process that goes on to another point than the setting of a service.
LEMMA GotoTypes ==
    ASSUME TypeInv, NEW p \in Procs, NEW l \in PC \ {"set"}, Goto(p, l)
    PROVE  pc' \in [Procs -> PC] /\ \A r \in Procs : pc'[r] = "set" => pc[r] = "set"
<1>1. pc \in [Procs -> PC]
  BY DEF TypeInv, TypeOK
<1> QED
  BY <1>1 DEF Goto

\* Every tool call, signal and crash keeps TypeInv.
LEMMA TypeStep == TypeInv /\ [Next]_vars => TypeInv'
<1> SUFFICES ASSUME TypeInv, [Next]_vars PROVE TypeInv'
  OBVIOUS
<1> USE DEF TypeInv, TypeOK, PC, Goto, osVars, goVars, recVars, capVars, restVars, pastVars
<1>1. CASE UNCHANGED vars
  BY <1>1 DEF vars
<1>2. ASSUME NEW p \in Procs, NEW m \in {"session", "uninstall"}, Launch(p, m) PROVE TypeInv'
  <2>1. (IF m = "session" THEN "setup" ELSE "list") \in PC
    OBVIOUS
  <2> QED
    BY <1>2, <2>1 DEF Launch
<1>3. ASSUME NEW p \in Procs, NEW s \in Services, RestoreServer(p, s) PROVE TypeInv'
  <2>1. SetSecureWebProxy(prior[p][s].srv) \in Setting
    <3>1. prior[p][s] \in Setting
      OBVIOUS
    <3> QED
      BY <3>1, SettingFacts
  <2>2. proxy' \in [Services -> Setting]
    <3>1. proxy' = proxy \/ proxy' = [proxy EXCEPT ![s] = SetSecureWebProxy(prior[p][s].srv)]
      BY <1>3 DEF RestoreServer
    <3> HIDE DEF TypeInv
    <3>2. proxy \in [Services -> Setting]
      BY DEF TypeInv
    <3> QED
      BY <2>1, <3>1, <3>2
  <2>3. rem' \in [Procs -> SUBSET Services]
    <3>1. PICK left \in SUBSET Services : rem' = rem \/ rem' = [rem EXCEPT ![p] = left]
      <4>1. rem[p] \ {s} \in SUBSET Services
        OBVIOUS
      <4> QED
        BY <1>3, <4>1 DEF RestoreServer
    <3> QED
      BY <3>1
  <2>4. rsvc' \in [Procs -> Services \cup {NoService}]
    <3>1. rsvc' = rsvc \/ rsvc' = [rsvc EXCEPT ![p] = s]
      BY <1>3 DEF RestoreServer
    <3> QED
      BY <3>1
  <2>5. clean' \in [Procs -> BOOLEAN]
    <3>1. clean' = clean \/ clean' = [clean EXCEPT ![p] = FALSE]
      BY <1>3 DEF RestoreServer, Fails
    <3> QED
      BY <3>1
  <2> QED
    BY <1>3, <2>2, <2>3, <2>4, <2>5 DEF RestoreServer
<1>4. ASSUME NEW p \in Procs, Setup(p) PROVE TypeInv'
  <2>1. proxy' = proxy /\ trusted' = trusted /\ caOnDisk' \in BOOLEAN
    BY <1>4 DEF Setup
  <2>2. CASE Exit(p, "other")
    <3>1. UNCHANGED strays
      BY <1>4, <2>2 DEF Setup, pastVars
    <3> QED
      BY <2>1, <2>2, <3>1, ExitTypes
  <2>3. CASE ~Exit(p, "other")
    <3>1. /\ Goto(p, "trust") /\ handler' = [handler EXCEPT ![p] = "wait"]
          /\ sinks' = [sinks EXCEPT ![p] = "open"]
          /\ UNCHANGED <<mode, tdown, trustRec, tdRec, capVars, restVars, clean, port, pastVars>>
      BY <1>4, <2>3 DEF Setup
    <3>2. pc' \in [Procs -> PC] /\ \A r \in Procs : pc'[r] = "set" => pc[r] = "set"
      BY <3>1, GotoTypes
    <3> QED
      BY <2>1, <3>1, <3>2
  <2> QED
    BY <2>2, <2>3
<1>5. ASSUME NEW p \in Procs, InstallTrust(p) PROVE TypeInv'
  <2>1. Goto(p, "trustRec") \/ Goto(p, "unwind")
    BY <1>5 DEF InstallTrust
  <2>2. pc' \in [Procs -> PC] /\ \A r \in Procs : pc'[r] = "set" => pc[r] = "set"
    BY <2>1, GotoTypes
  <2>3. clean' \in [Procs -> BOOLEAN] /\ trusted' \in BOOLEAN
    BY <1>5 DEF InstallTrust, Fails
  <2>4. UNCHANGED <<goVars, recVars, capVars, restVars, proxy, caOnDisk, port, pastVars>>
    BY <1>5 DEF InstallTrust
  <2> QED
    BY <2>2, <2>3, <2>4
<1>6. ASSUME NEW p \in Procs, RecordTrust(p) PROVE TypeInv'
  BY <1>6 DEF RecordTrust
<1>7. ASSUME NEW p \in Procs, NetworkServices(p) PROVE TypeInv'
  <2>0. Goto(p, "get") \/ Goto(p, "unwind") \/ Goto(p, "load")
    BY <1>7 DEF NetworkServices, InstallFailed
  <2>1. pc' \in [Procs -> PC] /\ \A r \in Procs : pc'[r] = "set" => pc[r] = "set"
    BY <2>0, GotoTypes
  <2>2. clean' \in [Procs -> BOOLEAN]
    BY <1>7 DEF NetworkServices, Fails
  <2>3. UNCHANGED <<goVars, recVars, capVars, restVars, osVars, pastVars>>
    BY <1>7 DEF NetworkServices
  <2> QED
    BY <2>1, <2>2, <2>3
<1>8. ASSUME NEW p \in Procs, GetProxyState(p) PROVE TypeInv'
  <2>1. CASE Undo(p)
    BY <1>8, <2>1 DEF GetProxyState, Undo, Fails
  <2>2. ASSUME NEW s \in Services \ armed[p],
               cur' = [cur EXCEPT ![p] = s],
               prior' = [prior EXCEPT ![p][s] = proxy[s]],
               Goto(p, "set"),
               UNCHANGED <<armed, rem, clean>>
        PROVE  TypeInv'
    <3>1. prior' \in [Procs -> [Services -> Setting]]
      BY <2>2
    <3>2. cur' \in [Procs -> Services \cup {NoService}]
      BY <2>2
    <3>3. \A r \in Procs : pc'[r] = "set" => cur'[r] \in Services
      BY <2>2
    <3> QED
      BY <1>8, <2>2, <3>1, <3>2, <3>3 DEF GetProxyState
  <2> QED
    BY <1>8, <2>1, <2>2 DEF GetProxyState
<1>9. ASSUME NEW p \in Procs, SetProxy(p) PROVE TypeInv'
  <2>1. proxy' \in [Services -> Setting]
    BY <1>9, SettingFacts, ServersAssumption DEF SetProxy
  <2>2. CASE Undo(p)
    BY <1>9, <2>1, <2>2 DEF SetProxy, Undo, Fails
  <2>3. CASE ~Undo(p)
    <3>1. pc' \in [Procs -> PC]
      <4>1. \E l \in {"proxyRec", "get"} : pc' = [pc EXCEPT ![p] = l]
        BY <1>9, <2>3 DEF SetProxy
      <4> QED
        BY <4>1
    <3>2. cur[p] \in Services
      BY <1>9 DEF SetProxy
    <3>3. armed' \in [Procs -> SUBSET Services]
      <4>1. armed' = [armed EXCEPT ![p] = @ \cup {cur[p]}]
        BY <1>9, <2>3 DEF SetProxy
      <4> QED
        BY <3>2, <4>1
    <3>6. cur' = [cur EXCEPT ![p] = NoService]
      BY <1>9, <2>3 DEF SetProxy
    <3>4. cur' \in [Procs -> Services \cup {NoService}]
      BY <3>6
    <3>5. \A r \in Procs : pc'[r] = "set" => cur'[r] \in Services
      <4>1. \E l \in {"proxyRec", "get"} : pc' = [pc EXCEPT ![p] = l]
        BY <1>9, <2>3 DEF SetProxy
      <4>2. \A r \in Procs : pc'[r] = "set" => r # p /\ pc[r] = "set"
        BY <4>1
      <4> QED
        BY <3>6, <4>2
    <3> QED
      BY <1>9, <2>1, <2>3, <3>1, <3>3, <3>4, <3>5 DEF SetProxy
  <2> QED
    BY <2>2, <2>3
<1>10. ASSUME NEW p \in Procs, RestoreState(p) PROVE TypeInv'
  <2>1. rsvc[p] \in Services
    BY <1>10 DEF RestoreState
  <2>2. SetSecureWebProxyState(proxy[rsvc[p]], HadProxy(prior[p][rsvc[p]])) \in Setting
    BY <2>1, SettingFacts
  <2>3. proxy' \in [Services -> Setting]
    BY <1>10, <2>2 DEF RestoreState
  <2>4. rem' \in [Procs -> SUBSET Services]
    BY <1>10 DEF RestoreState
  <2>5. rsvc' \in [Procs -> Services \cup {NoService}]
    BY <1>10 DEF RestoreState
  <2>6. clean' \in [Procs -> BOOLEAN]
    BY <1>10 DEF RestoreState, Fails
  <2> QED
    BY <1>10, <2>3, <2>4, <2>5, <2>6 DEF RestoreState
<1>11. ASSUME NEW p \in Procs, RestoreDone(p) PROVE TypeInv'
  <2>1. pc' \in [Procs -> PC]
    BY <1>11 DEF RestoreDone, InstallFailed
  <2>2. armed' \in [Procs -> SUBSET Services]
    BY <1>11 DEF RestoreDone
  <2>3. \A r \in Procs : pc'[r] # "set" \/ pc'[r] = pc[r]
    BY <1>11 DEF RestoreDone, InstallFailed
  <2> QED
    BY <1>11, <2>1, <2>2, <2>3 DEF RestoreDone
<1>12. ASSUME NEW p \in Procs, RecordProxy(p) PROVE TypeInv'
  <2>0. Goto(p, "listen") \/ Goto(p, "revert")
    BY <1>12 DEF RecordProxy
  <2>1. pc' \in [Procs -> PC] /\ \A r \in Procs : pc'[r] = "set" => pc[r] = "set"
    BY <2>0, GotoTypes
  <2>2. tdRec' \in [Procs -> BOOLEAN]
    BY <1>12 DEF RecordProxy
  <2>3. rem' \in [Procs -> SUBSET Services]
    <3>1. rem' = [rem EXCEPT ![p] = armed[p]] \/ rem' = rem
      BY <1>12 DEF RecordProxy
    <3>2. armed[p] \in SUBSET Services /\ rem \in [Procs -> SUBSET Services]
      OBVIOUS
    <3>3. CASE rem' = [rem EXCEPT ![p] = armed[p]]
      BY <3>2, <3>3, RemTypes
    <3>4. CASE rem' = rem
      BY <3>2, <3>4
    <3> QED
      BY <3>1, <3>3, <3>4
  <2>4. UNCHANGED <<goVars, trustRec, sinks, capVars, rsvc, clean, osVars, pastVars>>
    BY <1>12 DEF RecordProxy
  <2> QED
    BY <2>1, <2>2, <2>3, <2>4
<1>13. ASSUME NEW p \in Procs, Listen(p) PROVE TypeInv'
  <2>0. Goto(p, "serve") \/ Goto(p, "unwind")
    BY <1>13 DEF Listen
  <2>1. pc' \in [Procs -> PC] /\ \A r \in Procs : pc'[r] = "set" => pc[r] = "set"
    BY <2>0, GotoTypes
  <2>2. port' \in Procs \cup {NoProc}
    BY <1>13 DEF Listen
  <2>3. UNCHANGED <<goVars, recVars, capVars, restVars, clean, proxy, trusted, caOnDisk, pastVars>>
    BY <1>13 DEF Listen
  <2> QED
    BY <2>1, <2>2, <2>3
<1>14. ASSUME NEW p \in Procs, BeginTeardown(p) PROVE TypeInv'
  BY <1>14 DEF BeginTeardown
<1>15. ASSUME NEW p \in Procs, RedirectReverted(p) PROVE TypeInv'
  BY <1>15 DEF RedirectReverted
<1>16. ASSUME NEW p \in Procs, UninstallTrust(p) PROVE TypeInv'
  BY <1>16 DEF UninstallTrust, Fails
<1>17. ASSUME NEW p \in Procs, CloseSinks(p) PROVE TypeInv'
  BY <1>17 DEF CloseSinks
<1>18. ASSUME NEW p \in Procs, Return(p) PROVE TypeInv'
  <2>1. Exit(p, "other") /\ UNCHANGED <<proxy, trusted, caOnDisk, strays>>
    BY <1>18 DEF Return
  <2> QED
    BY <2>1, ExitTypes
<1>19. ASSUME NEW p \in Procs, HandlerExit(p) PROVE TypeInv'
  <2>1. Exit(p, "signalled") /\ Orphaned(MainCalls(p), {}) /\ UNCHANGED <<proxy, trusted, caOnDisk>>
    BY <1>19 DEF HandlerExit
  <2>2. strays' \subseteq Call
    BY <2>1, CallTypes, OrphanTypes
  <2> QED
    BY <2>1, <2>2, ExitTypes
<1>20. ASSUME NEW p \in Procs, LoadCA(p) PROVE TypeInv'
  <2>0. UNCHANGED <<proxy, trusted, caOnDisk>>
    BY <1>20 DEF LoadCA
  <2>1. CASE Goto(p, "untrust") /\ UNCHANGED <<goVars, recVars, capVars, restVars, clean, port, pastVars>>
    BY <2>0, <2>1
  <2>2. ASSUME NEW how \in {"uninstalled", "other"}, Exit(p, how), UNCHANGED strays PROVE TypeInv'
    BY <2>0, <2>2, ExitTypes
  <2> QED
    BY <1>20, <2>1, <2>2 DEF LoadCA
<1>21. ASSUME NEW p \in Procs, ForceUntrust(p) PROVE TypeInv'
  <2>1. trusted' \in BOOLEAN /\ UNCHANGED <<proxy, caOnDisk, strays>>
    BY <1>21 DEF ForceUntrust
  <2>2. ASSUME NEW how \in {"uninstalled", "other"}, Exit(p, how) PROVE TypeInv'
    BY <2>1, <2>2, ExitTypes
  <2> QED
    BY <1>21, <2>2 DEF ForceUntrust
<1>22. ASSUME NEW p \in Procs, Signal(p) PROVE TypeInv'
  BY <1>22 DEF Signal
<1>23. ASSUME NEW p \in Procs, ServeEnds(p) PROVE TypeInv'
  BY <1>23 DEF ServeEnds
<1>24. ASSUME NEW p \in Procs, Kill(p) PROVE TypeInv'
  <2>1. /\ Exit(p, "other") /\ Orphaned(MainCalls(p), TeardownCalls(p))
        /\ UNCHANGED <<proxy, trusted, caOnDisk>>
    BY <1>24 DEF Kill
  <2>2. strays' \subseteq Call
    BY <2>1, CallTypes, OrphanTypes
  <2> QED
    BY <2>1, <2>2, ExitTypes
<1>25. ASSUME NEW c \in strays, Lands(c) PROVE TypeInv'
  <2>1. c \in Call /\ c.srv \in Servers
    BY DEF Call
  <2>2. proxy' \in [Services -> Setting]
    <3>1. CASE c.tool = "server"
      <4>1. SetSecureWebProxy(c.srv) \in Setting
        BY <2>1, SettingFacts
      <4> QED
        BY <1>25, <3>1, <4>1 DEF Lands
    <3>2. CASE c.tool \in {"on", "off"}
      <4>1. c.svc \in Services => SetSecureWebProxyState(proxy[c.svc], c.tool = "on") \in Setting
        BY SettingFacts
      <4> QED
        BY <1>25, <3>2, <4>1 DEF Lands
    <3>3. CASE c.tool \notin {"server", "on", "off"}
      BY <1>25, <3>3 DEF Lands
    <3> QED
      BY <3>1, <3>2, <3>3
  <2>3. trusted' \in BOOLEAN
    BY <1>25 DEF Lands
  <2> QED
    BY <1>25, <2>2, <2>3 DEF Lands
<1> QED
  BY <1>1, <1>2, <1>3, <1>4, <1>5, <1>6, <1>7, <1>8, <1>9, <1>10, <1>11, <1>12,
     <1>13, <1>14, <1>15, <1>16, <1>17, <1>18, <1>19, <1>20, <1>21, <1>22, <1>23, <1>24, <1>25
     DEF Next, Step

\* Every variable keeps its type, in every environment: a cursor names a service,
\* and each goroutine is at one of its program points.
THEOREM TypeCorrect == Spec => []TypeOK
<1>1. TypeInv => TypeOK
  BY DEF TypeInv
<1> QED
  BY <1>1, TypeInit, TypeStep, PTL DEF Spec

-----------------------------------------------------------------------------
(* What --uninstall can be relied on for, whatever happened before. *)

\* A CA that is or may become trusted is on disk, where --uninstall finds it.
CAOnDiskInv == /\ trusted => caOnDisk
               /\ \A p \in Procs : pc[p] = "trust" => caOnDisk
               /\ \A c \in strays : c.tool = "trust" => caOnDisk

\* No step makes trusted a CA that is not on disk; only an --uninstall that untrusts it
\* or finds none ends as one.
LEMMA UntrustStep == ASSUME TypeInv, CAOnDiskInv, UninstallUntrusts, [Next]_vars
                     PROVE  CAOnDiskInv' /\ UninstallUntrusts'
<1> DEFINE Inv == CAOnDiskInv /\ UninstallUntrusts
<1> SUFFICES Inv'
  OBVIOUS
<1> TypeOK
  BY DEF TypeInv
<1> USE DEF TypeOK, CAOnDiskInv, UninstallUntrusts, AllOff, Goto, osVars, pastVars
<1>1. CASE UNCHANGED vars
  BY <1>1 DEF vars
<1>2. ASSUME NEW p \in Procs, NEW l \in PC \ {"off", "trust"}, Goto(p, l),
             UNCHANGED <<trusted, caOnDisk, strays>>
      PROVE  Inv'
  BY <1>2
<1>4. ASSUME NEW p \in Procs, NEW how, how # "uninstalled", Exit(p, how),
             UNCHANGED <<trusted, caOnDisk, strays>>
      PROVE  Inv'
  BY <1>4 DEF Exit
<1>5. ASSUME NEW p \in Procs, NEW teardown \in {TeardownCalls(p), {}}, Orphaned(MainCalls(p), teardown),
             Exit(p, "other") \/ Exit(p, "signalled"), UNCHANGED <<trusted, caOnDisk>>
      PROVE  Inv'
  <2>1. \A c \in strays' : c.tool = "trust" => c \in strays \/ pc[p] = "trust"
    BY <1>5, CallTypes, OrphanTypes
  <2> QED
    BY <1>5, <2>1 DEF Exit
<1>6. ASSUME NEW p \in Procs, NEW m \in {"session", "uninstall"}, Launch(p, m) PROVE Inv'
  BY <1>6 DEF Launch
<1>7. ASSUME NEW p \in Procs, Setup(p) PROVE Inv'
  <2>1. CASE Exit(p, "other")
    <3>1. caOnDisk => caOnDisk'
      BY <1>7 DEF Setup
    <3> QED
      BY <1>7, <2>1, <3>1 DEF Setup, Exit
  <2>2. CASE ~Exit(p, "other")
    BY <1>7, <2>2 DEF Setup
  <2> QED
    BY <2>1, <2>2
<1>8. ASSUME NEW p \in Procs, InstallTrust(p) PROVE Inv'
  BY <1>8 DEF InstallTrust
<1>9. ASSUME NEW p \in Procs, NetworkServices(p) \/ RestoreDone(p) PROVE Inv'
  <2>1. InstallFailed(p) \in {"unwind", "load"}
    BY DEF InstallFailed
  <2> QED
    BY <1>9, <1>2, <2>1 DEF NetworkServices, RestoreDone, PC
<1>10. ASSUME NEW p \in Procs, RecordTrust(p) \/ GetProxyState(p) \/ SetProxy(p) PROVE Inv'
  BY <1>10, <1>2 DEF RecordTrust, GetProxyState, SetProxy, Undo, PC
<1>11. ASSUME NEW p \in Procs, RecordProxy(p) \/ Listen(p) \/ ServeEnds(p) PROVE Inv'
  BY <1>11, <1>2 DEF RecordProxy, Listen, ServeEnds, PC
<1>12. ASSUME NEW p \in Procs, UNCHANGED <<pc, trusted, caOnDisk, strays, lastExit>> PROVE Inv'
  BY <1>12
<1>13. ASSUME NEW p \in Procs, UninstallTrust(p) PROVE Inv'
  BY <1>13 DEF UninstallTrust
<1>14. ASSUME NEW p \in Procs, NEW s \in Services, RestoreServer(p, s) PROVE Inv'
  BY <1>14, <1>12 DEF RestoreServer
<1>15. ASSUME NEW p \in Procs,
              RestoreState(p) \/ Signal(p) \/ BeginTeardown(p) \/ RedirectReverted(p) \/ CloseSinks(p)
       PROVE  Inv'
  BY <1>15, <1>12 DEF RestoreState, Signal, BeginTeardown, RedirectReverted, CloseSinks
<1>16. ASSUME NEW p \in Procs, Return(p) PROVE Inv'
  BY <1>16, <1>4 DEF Return
<1>17. ASSUME NEW p \in Procs, HandlerExit(p) \/ Kill(p) PROVE Inv'
  BY <1>17, <1>5 DEF HandlerExit, Kill
<1>18. ASSUME NEW p \in Procs, LoadCA(p) PROVE Inv'
  BY <1>18 DEF LoadCA, Exit
<1>19. ASSUME NEW p \in Procs, ForceUntrust(p) PROVE Inv'
  BY <1>19 DEF ForceUntrust, Exit
<1>20. ASSUME NEW c \in strays, Lands(c) PROVE Inv'
  BY <1>20 DEF Lands
<1> QED
  BY <1>1, <1>6, <1>7, <1>8, <1>9, <1>10, <1>11, <1>13, <1>14, <1>15, <1>16, <1>17, <1>18, <1>19, <1>20
  DEF Next, Step

\* In every environment (kills, signals while arming, failing and late tools,
\* overlapping processes), an --uninstall that saw no tool fail leaves no trusted
\* CA: whoever was killed had put on disk the CA it made trusted, so --uninstall
\* finds it and removes it.
THEOREM UninstallUntrustsAlways == Spec => []UninstallUntrusts
<1>1. Init => CAOnDiskInv /\ UninstallUntrusts
  BY DEF Init, CAOnDiskInv, UninstallUntrusts
<1>2. /\ TypeInv /\ CAOnDiskInv /\ UninstallUntrusts /\ [Next]_vars
      => CAOnDiskInv' /\ UninstallUntrusts'
  BY UntrustStep
<1> QED
  BY <1>1, <1>2, TypeInit, TypeStep, PTL DEF Spec

-----------------------------------------------------------------------------
(* The undisturbed environment: tools may fail while arming, at any call, and *)
(* signals may arrive once armed; Faults is empty.                            *)

\* One process at a time, none killed, and no signal while arming.
CalmNext == \E p \in Procs : \/ AllOff /\ \E m \in {"session", "uninstall"} : Launch(p, m)
                             \/ Step(p)
                             \/ pc[p] \notin Arming /\ Signal(p)
                             \/ ServeEnds(p)

\* A service on which nothing of ours is left.
Good(s) == PutBack(proxy[s], orig[s])

\* Captured settings are being worked through, or have been.
Unwinding(p) == pc[p] \in {"undo", "revert"} \/ (tdRec[p] /\ tdown[p] # "idle")

\* Where each command and each goroutine can be.
ControlInv(p) ==
    /\ mode[p] = "uninstall" => /\ pc[p] \in {"list", "get", "set", "undo", "proxyRec",
                                               "revert", "load", "untrust"}
                                /\ handler[p] = "none" /\ ~trustRec[p]
    /\ mode[p] = "session" => pc[p] \notin {"revert", "load", "untrust"}
    /\ handler[p] = "in" => pc[p] \in {"listen", "serve", "unwind"}
    /\ pc[p] = "setup" => handler[p] = "none" /\ ~trustRec[p]
    /\ tdown[p] # "idle" => pc[p] = "unwind" \/ handler[p] = "in"
    /\ tdRec[p] => pc[p] \in {"listen", "serve", "unwind"}

\* Which services carry our redirection, and what was captured of them.
CaptureInv(p) ==
    /\ pc[p] = "set" => cur[p] \in Services \ armed[p]
    /\ pc[p] # "set" => cur[p] = NoService
    /\ \A s \in Services : s \in armed[p] \/ s = cur[p] => PutBack(prior[p][s], orig[s])
    /\ \A s \in Services : s \notin armed[p] => Good(s)
    /\ pc[p] \in {"setup", "trust", "trustRec", "list", "load", "untrust"} => armed[p] = {}
    /\ pc[p] \in {"listen", "serve"} => tdRec[p]
    /\ pc[p] = "unwind" /\ ~tdRec[p] => armed[p] = {}

\* How far the restores have come.
RestoreInv(p) ==
    /\ rem[p] \subseteq armed[p]
    /\ Unwinding(p) => \A s \in armed[p] \ rem[p] : Good(s)
    /\ ~Unwinding(p) => rsvc[p] = NoService
    /\ tdRec[p] /\ tdown[p] \in {"trust", "sinks", "done"} => rem[p] = {}
    /\ rsvc[p] # NoService =>
         /\ rsvc[p] \in rem[p]
         /\ \/ proxy[rsvc[p]] = SetSecureWebProxy(prior[p][rsvc[p]].srv)
            \/ prior[p][rsvc[p]].srv = NoServer

\* Whose trust it is, and for how long.
TrustInv(p) ==
    /\ trusted => (trustRec[p] \/ pc[p] = "trustRec") /\ tdown[p] \notin {"sinks", "done"}
    /\ pc[p] = "trustRec" => trusted
    /\ mode[p] = "session" /\ (pc[p] \in {"list", "get", "set", "undo", "proxyRec"} \/ tdRec[p])
          /\ tdown[p] \in {"idle", "redirect"} => trusted /\ trustRec[p]

ProcInv(p) == ControlInv(p) /\ CaptureInv(p) /\ RestoreInv(p) /\ TrustInv(p)

\* The memory of a process that is not running.
Blank(p) == /\ mode[p] = "session" /\ handler[p] = "none" /\ tdown[p] = "idle"
            /\ ~trustRec[p] /\ ~tdRec[p] /\ cur[p] = NoService
            /\ armed[p] = {} /\ rem[p] = {} /\ rsvc[p] = NoService

Solo == \A p, r \in Procs : p = r \/ pc[p] = "off" \/ pc[r] = "off"

IInv == /\ Solo
        /\ \A p \in Procs : pc[p] = "off" => Blank(p)
        /\ \A p \in Procs : pc[p] # "off" => ProcInv(p)
        /\ \A s \in Services : orig[s].srv # Ours
        /\ strays = {}
        /\ Reverted

\* One running process is all there is to check: the others are off and stay so.
Others(p) == \A r \in Procs : r # p =>
    /\ pc'[r] = pc[r]
    /\ mode'[r] = mode[r]
    /\ handler'[r] = handler[r]
    /\ tdown'[r] = tdown[r]
    /\ trustRec'[r] = trustRec[r]
    /\ tdRec'[r] = tdRec[r]
    /\ cur'[r] = cur[r]
    /\ armed'[r] = armed[r]
    /\ rem'[r] = rem[r]
    /\ rsvc'[r] = rsvc[r]

\* The only process goes on, and its own program point accounts for what it changed.
LEMMA OneRuns ==
    ASSUME IInv, NEW p \in Procs, pc[p] # "off", Others(p), pc'[p] # "off",
           UNCHANGED <<orig, strays>>, ProcInv(p)'
    PROVE  IInv'
<1>1. \A r \in Procs : r # p => pc[r] = "off" /\ Blank(r)
  BY DEF IInv, Solo
<1>2. \A r \in Procs : r # p => pc'[r] = "off" /\ Blank(r)'
  BY <1>1 DEF Others, Blank
<1> QED
  BY <1>2 DEF IInv, Solo, Reverted, AllOff

\* The only process exits when its settings are back and the CA is no longer trusted.
LEMMA OneLeaves ==
    ASSUME IInv, NEW p \in Procs, pc[p] # "off", NEW how, Exit(p, how), TypeOK,
           UNCHANGED <<proxy, strays>>, ~trusted', \A s \in Services : Good(s)
    PROVE  IInv'
<1>1. \A r \in Procs : r # p => pc[r] = "off" /\ Blank(r)
  BY DEF IInv, Solo
<1>2. \A r \in Procs : pc'[r] = "off" /\ Blank(r)'
  BY <1>1 DEF Blank, Exit, Goto, TypeOK
<1>3. \A s \in Services : Good(s)'
  BY DEF Good, Exit
<1> QED
  BY <1>2, <1>3 DEF IInv, Solo, Reverted, AllOff, Good, Exit

\* Restoring a captured setting that was the user's gives the user's back.
LEMMA RestoreIsGood ==
    ASSUME NEW now \in Setting, NEW was \in Setting, NEW o \in Setting, PutBack(was, o),
           now = SetSecureWebProxy(was.srv) \/ was.srv = NoServer
    PROVE  PutBack(SetSecureWebProxyState(now, HadProxy(was)), o)
<1> DEFINE then == SetSecureWebProxyState(now, HadProxy(was))
<1>1. then = [on |-> HadProxy(was), srv |-> now.srv]
  BY DEF SetSecureWebProxyState, Setting
<1>2. was = [on |-> was.on, srv |-> was.srv] /\ was.on \in BOOLEAN
  BY DEF Setting
<1>3. CASE HadProxy(was)
  <2>a. HadProxy(was) = TRUE
    BY <1>3 DEF HadProxy
  <2>b. now.srv = was.srv
    BY <1>3 DEF SetSecureWebProxy, HadProxy
  <2>1. then = [on |-> TRUE, srv |-> was.srv]
    BY <1>1, <2>a, <2>b
  <2>2. was.on = TRUE
    BY <1>2, <1>3 DEF HadProxy
  <2> QED
    BY <1>2, <2>1, <2>2
<1>4. CASE ~HadProxy(was) /\ o.srv = NoServer
  BY <1>1, <1>4 DEF PutBack
<1>5. CASE ~HadProxy(was) /\ o.srv # NoServer
  <2>1. was = o
    BY <1>5 DEF PutBack
  <2>2. was.on = FALSE
    BY <1>2, <1>5, <2>1 DEF HadProxy
  <2>a. HadProxy(was) = FALSE
    BY <1>5 DEF HadProxy
  <2>b. now.srv = was.srv
    BY <1>5, <2>1 DEF SetSecureWebProxy
  <2>3. then = [on |-> FALSE, srv |-> was.srv]
    BY <1>1, <2>a, <2>b
  <2> QED
    BY <1>2, <2>1, <2>2, <2>3 DEF PutBack
<1> QED
  BY <1>3, <1>4, <1>5

-----------------------------------------------------------------------------

\* The heart of the argument: in the undisturbed environment every step keeps
\* IInv.  One step of the proof for each action, and in it one for each part of
\* the invariant.
LEMMA Inductive ==
    ASSUME "revertError" \notin Faults, "late" \notin Faults, TypeOK, TypeOK', IInv, [CalmNext]_vars
    PROVE  IInv'
<1> USE DEF Goto, osVars, goVars, recVars, capVars, restVars, pastVars
<1>1. ASSUME NEW p \in Procs, InstallTrust(p) PROVE IInv'
  <2>1. pc[p] # "off" /\ ProcInv(p)
    BY <1>1 DEF InstallTrust, Fails, IInv, Blank
  <2>2. Others(p) /\ pc'[p] # "off" /\ UNCHANGED <<orig, strays>>
    BY <1>1, <2>1 DEF InstallTrust, Fails, Others, TypeOK
  <2>3. ControlInv(p)'
    BY <1>1, <2>1 DEF InstallTrust, Fails, ProcInv, ControlInv, TypeOK
  <2>4. CaptureInv(p)'
    BY <1>1, <2>1 DEF InstallTrust, Fails, ProcInv, ControlInv, CaptureInv, Good, TypeOK
  <2>5. RestoreInv(p)'
    BY <1>1, <2>1 DEF InstallTrust, Fails, ProcInv, ControlInv, CaptureInv, RestoreInv, Unwinding, Good, TypeOK
  <2>6. TrustInv(p)'
    BY <1>1, <2>1 DEF InstallTrust, Fails, ProcInv, ControlInv, TrustInv, TypeOK
  <2> QED
    BY <2>1, <2>2, <2>3, <2>4, <2>5, <2>6, OneRuns DEF ProcInv
<1>2. ASSUME NEW p \in Procs, RecordTrust(p) PROVE IInv'
  <2>1. pc[p] # "off" /\ ProcInv(p)
    BY <1>2 DEF RecordTrust, IInv, Blank
  <2>2. Others(p) /\ pc'[p] # "off" /\ UNCHANGED <<orig, strays>>
    BY <1>2, <2>1 DEF RecordTrust, Others, TypeOK
  <2>3. ControlInv(p)'
    BY <1>2, <2>1 DEF RecordTrust, ProcInv, ControlInv, TypeOK
  <2>4. CaptureInv(p)'
    BY <1>2, <2>1 DEF RecordTrust, ProcInv, ControlInv, CaptureInv, Good, TypeOK
  <2>5. RestoreInv(p)'
    BY <1>2, <2>1 DEF RecordTrust, ProcInv, ControlInv, CaptureInv, RestoreInv, Unwinding, Good, TypeOK
  <2>6. TrustInv(p)'
    BY <1>2, <2>1 DEF RecordTrust, ProcInv, ControlInv, TrustInv, TypeOK
  <2> QED
    BY <2>1, <2>2, <2>3, <2>4, <2>5, <2>6, OneRuns DEF ProcInv
<1>3. ASSUME NEW p \in Procs, NetworkServices(p) PROVE IInv'
  <2>1. pc[p] # "off" /\ ProcInv(p)
    BY <1>3 DEF NetworkServices, InstallFailed, Fails, IInv, Blank
  <2>2. Others(p) /\ pc'[p] # "off" /\ UNCHANGED <<orig, strays>>
    BY <1>3, <2>1 DEF NetworkServices, InstallFailed, Fails, Others, TypeOK
  <2>3. ControlInv(p)'
    BY <1>3, <2>1 DEF NetworkServices, InstallFailed, Fails, ProcInv, ControlInv, TypeOK
  <2>4. CaptureInv(p)'
    BY <1>3, <2>1 DEF NetworkServices, InstallFailed, Fails, ProcInv, ControlInv, CaptureInv, Good, TypeOK
  <2>5. RestoreInv(p)'
    BY <1>3, <2>1 DEF NetworkServices, InstallFailed, Fails, ProcInv, ControlInv, CaptureInv, RestoreInv, Unwinding, Good, TypeOK
  <2>6. TrustInv(p)'
    BY <1>3, <2>1 DEF NetworkServices, InstallFailed, Fails, ProcInv, ControlInv, TrustInv, TypeOK
  <2> QED
    BY <2>1, <2>2, <2>3, <2>4, <2>5, <2>6, OneRuns DEF ProcInv
<1>4. ASSUME NEW p \in Procs, GetProxyState(p) PROVE IInv'
  <2>1. pc[p] # "off" /\ ProcInv(p)
    BY <1>4 DEF GetProxyState, Undo, Fails, IInv, Blank
  <2>2. Others(p) /\ pc'[p] # "off" /\ UNCHANGED <<orig, strays>>
    BY <1>4, <2>1 DEF GetProxyState, Undo, Fails, Others, TypeOK
  <2>3. ControlInv(p)'
    BY <1>4, <2>1 DEF GetProxyState, Undo, Fails, ProcInv, ControlInv, TypeOK
  <2>4. CaptureInv(p)'
    BY <1>4, <2>1 DEF GetProxyState, Undo, Fails, ProcInv, ControlInv, CaptureInv, Good, TypeOK
  <2>5. RestoreInv(p)'
    BY <1>4, <2>1 DEF GetProxyState, Undo, Fails, ProcInv, ControlInv, CaptureInv, RestoreInv, Unwinding, Good, TypeOK
  <2>6. TrustInv(p)'
    BY <1>4, <2>1 DEF GetProxyState, Undo, Fails, ProcInv, ControlInv, TrustInv, TypeOK
  <2> QED
    BY <2>1, <2>2, <2>3, <2>4, <2>5, <2>6, OneRuns DEF ProcInv
<1>5. ASSUME NEW p \in Procs, SetProxy(p) PROVE IInv'
  <2>1. pc[p] # "off" /\ ProcInv(p)
    BY <1>5 DEF SetProxy, Undo, Fails, IInv, Blank
  <2>2. Others(p) /\ pc'[p] # "off" /\ UNCHANGED <<orig, strays>>
    BY <1>5, <2>1 DEF SetProxy, Undo, Fails, Others, TypeOK
  <2>3. ControlInv(p)'
    BY <1>5, <2>1 DEF SetProxy, Undo, Fails, ProcInv, ControlInv, TypeOK
  <2>4. CaptureInv(p)'
    <3>1. cur[p] \in Services \ armed[p]
      BY <1>5, <2>1 DEF SetProxy, ProcInv, CaptureInv
    <3>2. CASE Undo(p)
      <4>1. pc'[p] = "undo"
        BY <3>2 DEF Undo, TypeOK
      <4>2. UNCHANGED <<proxy, armed, prior>> /\ cur'[p] = NoService
        BY <1>5, <3>2, <4>1 DEF SetProxy, Undo, TypeOK
      <4> QED
        BY <2>1, <2>2, <4>1, <4>2, InterceptAssumption DEF ProcInv, CaptureInv, Good
    <3>3. CASE ~Undo(p)
      <4>1. /\ proxy' = [proxy EXCEPT ![cur[p]] = SetSecureWebProxy(Ours)]
            /\ armed' = [armed EXCEPT ![p] = @ \cup {cur[p]}]
            /\ cur' = [cur EXCEPT ![p] = NoService]
            /\ pc'[p] \in {"proxyRec", "get"}
            /\ UNCHANGED prior
        BY <1>5, <3>3 DEF SetProxy, TypeOK
      <4>2. armed'[p] = armed[p] \cup {cur[p]} /\ cur'[p] = NoService
        BY <4>1 DEF TypeOK
      <4>3. \A s \in Services : s \notin armed'[p] => Good(s)'
        BY <2>1, <2>2, <4>1, <4>2 DEF ProcInv, CaptureInv, Good, TypeOK
      <4>4. \A s \in Services : s \in armed'[p] => PutBack(prior[p][s], orig[s])
        BY <2>1, <4>2 DEF ProcInv, CaptureInv
      <4> QED
        BY <2>2, <4>1, <4>2, <4>3, <4>4, InterceptAssumption DEF CaptureInv
    <3> QED
      BY <3>2, <3>3
  <2>5. RestoreInv(p)'
    BY <1>5, <2>1 DEF SetProxy, Undo, Fails, ProcInv, ControlInv, CaptureInv, RestoreInv, Unwinding, Good, TypeOK
  <2>6. TrustInv(p)'
    BY <1>5, <2>1 DEF SetProxy, Undo, Fails, ProcInv, ControlInv, TrustInv, TypeOK
  <2> QED
    BY <2>1, <2>2, <2>3, <2>4, <2>5, <2>6, OneRuns DEF ProcInv
<1>6. ASSUME NEW p \in Procs, RestoreState(p) PROVE IInv'
  <2>1. pc[p] # "off" /\ ProcInv(p)
    BY <1>6 DEF RestoreState, Fails, IInv, Blank
  <2>2. Others(p) /\ pc'[p] # "off" /\ UNCHANGED <<orig, strays>>
    BY <1>6, <2>1 DEF RestoreState, Fails, Others, TypeOK
  <2>3. ControlInv(p)'
    BY <1>6, <2>1 DEF RestoreState, Fails, ProcInv, ControlInv, TypeOK
  <2>v. PICK v \in Services : v = rsvc[p]
    BY <1>6 DEF RestoreState, TypeOK
  <2>a. v \in rem[p] /\ v \in armed[p] /\ v \in Services /\ PutBack(prior[p][v], orig[v])
    BY <1>6, <2>1, <2>v DEF RestoreState, ProcInv, RestoreInv, CaptureInv, TypeOK
  <2>b. /\ proxy[v] \in Setting /\ prior[p][v] \in Setting /\ orig[v] \in Setting
        /\ proxy[v] = SetSecureWebProxy(prior[p][v].srv) \/ prior[p][v].srv = NoServer
    BY <1>6, <2>1, <2>v, <2>a DEF RestoreState, ProcInv, RestoreInv, TypeOK
  <2>c. /\ proxy'[v] = SetSecureWebProxyState(proxy[v], HadProxy(prior[p][v]))
        /\ \A s \in Services : s # v => proxy'[s] = proxy[s]
    BY <1>6, <2>v, <2>a DEF RestoreState, TypeOK
  <2>d. Good(v)'
    <3>1. PutBack(SetSecureWebProxyState(proxy[v], HadProxy(prior[p][v])), orig[v])
      BY <2>a, <2>b, RestoreIsGood
    <3> QED
      BY <2>2, <2>c, <3>1 DEF Good
  <2>e. \A s \in Services : s # v => (Good(s) => Good(s)')
    BY <2>2, <2>c DEF Good
  <2>4. CaptureInv(p)'
    <3>1. \A s \in Services : s \notin armed[p] => Good(s)'
      BY <2>1, <2>a, <2>e DEF ProcInv, CaptureInv
    <3>2. UNCHANGED <<pc, armed, cur, prior, tdRec>>
      BY <1>6 DEF RestoreState
    <3> QED
      BY <2>1, <2>2, <3>1, <3>2 DEF ProcInv, CaptureInv
  <2>5. RestoreInv(p)'
    <3>1. UNCHANGED <<pc, armed, tdRec, tdown>>
      BY <1>6 DEF RestoreState
    <3>2. rem'[p] = rem[p] \ {v} /\ rsvc'[p] = NoService
      BY <1>6, <2>v DEF RestoreState, TypeOK
    <3>3. Unwinding(p)' => \A s \in armed[p] \ rem'[p] : Good(s)'
      <4>1. Unwinding(p)' => Unwinding(p)
        BY <3>1 DEF Unwinding
      <4>2. armed[p] \subseteq Services
        BY DEF TypeOK
      <4> QED
        BY <2>1, <2>d, <2>e, <3>2, <4>1, <4>2 DEF ProcInv, RestoreInv
    <3> QED
      BY <2>1, <3>1, <3>2, <3>3 DEF ProcInv, RestoreInv, Unwinding
  <2>6. TrustInv(p)'
    BY <1>6, <2>1 DEF RestoreState, Fails, ProcInv, ControlInv, TrustInv, TypeOK
  <2> QED
    BY <2>1, <2>2, <2>3, <2>4, <2>5, <2>6, OneRuns DEF ProcInv
<1>7. ASSUME NEW p \in Procs, RestoreDone(p) PROVE IInv'
  <2>1. pc[p] # "off" /\ ProcInv(p)
    BY <1>7 DEF RestoreDone, InstallFailed, IInv, Blank
  <2>2. Others(p) /\ pc'[p] # "off" /\ UNCHANGED <<orig, strays>>
    BY <1>7, <2>1 DEF RestoreDone, InstallFailed, Others, TypeOK
  <2>3. ControlInv(p)'
    BY <1>7, <2>1 DEF RestoreDone, InstallFailed, ProcInv, ControlInv, TypeOK
  <2>4. CaptureInv(p)'
    <3>1. \A s \in Services : Good(s)
      BY <1>7, <2>1 DEF RestoreDone, ProcInv, CaptureInv, RestoreInv, Unwinding
    <3>2. pc'[p] \in {"unwind", "load"} /\ armed'[p] = {} /\ cur' = cur
      BY <1>7 DEF RestoreDone, InstallFailed, TypeOK
    <3>3. \A s \in Services : Good(s)'
      BY <1>7, <3>1 DEF RestoreDone, Good
    <3> QED
      BY <1>7, <2>1, <3>2, <3>3 DEF RestoreDone, ProcInv, CaptureInv, TypeOK
  <2>5. RestoreInv(p)'
    BY <1>7, <2>1 DEF RestoreDone, InstallFailed, ProcInv, ControlInv, CaptureInv, RestoreInv, Unwinding, Good, TypeOK
  <2>6. TrustInv(p)'
    BY <1>7, <2>1 DEF RestoreDone, InstallFailed, ProcInv, ControlInv, TrustInv, TypeOK
  <2> QED
    BY <2>1, <2>2, <2>3, <2>4, <2>5, <2>6, OneRuns DEF ProcInv
<1>8. ASSUME NEW p \in Procs, RecordProxy(p) PROVE IInv'
  <2>1. pc[p] # "off" /\ ProcInv(p)
    BY <1>8 DEF RecordProxy, IInv, Blank
  <2>2. Others(p) /\ pc'[p] # "off" /\ UNCHANGED <<orig, strays>>
    BY <1>8, <2>1 DEF RecordProxy, Others, TypeOK
  <2>3. ControlInv(p)'
    BY <1>8, <2>1 DEF RecordProxy, ProcInv, ControlInv, TypeOK
  <2>4. CaptureInv(p)'
    BY <1>8, <2>1 DEF RecordProxy, ProcInv, ControlInv, CaptureInv, Good, TypeOK
  <2>5. RestoreInv(p)'
    BY <1>8, <2>1 DEF RecordProxy, ProcInv, ControlInv, CaptureInv, RestoreInv, Unwinding, Good, TypeOK
  <2>6. TrustInv(p)'
    BY <1>8, <2>1 DEF RecordProxy, ProcInv, ControlInv, TrustInv, TypeOK
  <2> QED
    BY <2>1, <2>2, <2>3, <2>4, <2>5, <2>6, OneRuns DEF ProcInv
<1>9. ASSUME NEW p \in Procs, Listen(p) PROVE IInv'
  <2>1. pc[p] # "off" /\ ProcInv(p)
    BY <1>9 DEF Listen, IInv, Blank
  <2>2. Others(p) /\ pc'[p] # "off" /\ UNCHANGED <<orig, strays>>
    BY <1>9, <2>1 DEF Listen, Others, TypeOK
  <2>3. ControlInv(p)'
    BY <1>9, <2>1 DEF Listen, ProcInv, ControlInv, TypeOK
  <2>4. CaptureInv(p)'
    BY <1>9, <2>1 DEF Listen, ProcInv, ControlInv, CaptureInv, Good, TypeOK
  <2>5. RestoreInv(p)'
    BY <1>9, <2>1 DEF Listen, ProcInv, ControlInv, CaptureInv, RestoreInv, Unwinding, Good, TypeOK
  <2>6. TrustInv(p)'
    BY <1>9, <2>1 DEF Listen, ProcInv, ControlInv, TrustInv, TypeOK
  <2> QED
    BY <2>1, <2>2, <2>3, <2>4, <2>5, <2>6, OneRuns DEF ProcInv
<1>10. ASSUME NEW p \in Procs, ServeEnds(p) PROVE IInv'
  <2>1. pc[p] # "off" /\ ProcInv(p)
    BY <1>10 DEF ServeEnds, IInv, Blank
  <2>2. Others(p) /\ pc'[p] # "off" /\ UNCHANGED <<orig, strays>>
    BY <1>10, <2>1 DEF ServeEnds, Others, TypeOK
  <2>3. ControlInv(p)'
    BY <1>10, <2>1 DEF ServeEnds, ProcInv, ControlInv, TypeOK
  <2>4. CaptureInv(p)'
    BY <1>10, <2>1 DEF ServeEnds, ProcInv, ControlInv, CaptureInv, Good, TypeOK
  <2>5. RestoreInv(p)'
    BY <1>10, <2>1 DEF ServeEnds, ProcInv, ControlInv, CaptureInv, RestoreInv, Unwinding, Good, TypeOK
  <2>6. TrustInv(p)'
    BY <1>10, <2>1 DEF ServeEnds, ProcInv, ControlInv, TrustInv, TypeOK
  <2> QED
    BY <2>1, <2>2, <2>3, <2>4, <2>5, <2>6, OneRuns DEF ProcInv
<1>11. ASSUME NEW p \in Procs, pc[p] \notin Arming, Signal(p) PROVE IInv'
  <2>1. pc[p] # "off" /\ ProcInv(p)
    BY <1>11 DEF Signal, Arming, IInv, Blank
  <2>2. Others(p) /\ pc'[p] # "off" /\ UNCHANGED <<orig, strays>>
    BY <1>11, <2>1 DEF Signal, Arming, Others, TypeOK
  <2>3. ControlInv(p)'
    <3>1. pc[p] \in {"listen", "serve", "unwind"}
      BY <1>11, <2>1 DEF Signal, Arming, ProcInv, ControlInv, TypeOK, PC
    <3> QED
      BY <1>11, <2>1, <3>1 DEF Signal, ProcInv, ControlInv, TypeOK
  <2>4. CaptureInv(p)'
    BY <1>11, <2>1 DEF Signal, Arming, ProcInv, ControlInv, CaptureInv, Good, TypeOK
  <2>5. RestoreInv(p)'
    BY <1>11, <2>1 DEF Signal, Arming, ProcInv, ControlInv, CaptureInv, RestoreInv, Unwinding, Good, TypeOK
  <2>6. TrustInv(p)'
    BY <1>11, <2>1 DEF Signal, Arming, ProcInv, ControlInv, TrustInv, TypeOK
  <2> QED
    BY <2>1, <2>2, <2>3, <2>4, <2>5, <2>6, OneRuns DEF ProcInv
<1>12. ASSUME NEW p \in Procs, BeginTeardown(p) PROVE IInv'
  <2>1. pc[p] # "off" /\ ProcInv(p)
    BY <1>12 DEF BeginTeardown, IInv, Blank
  <2>2. Others(p) /\ pc'[p] # "off" /\ UNCHANGED <<orig, strays>>
    BY <1>12, <2>1 DEF BeginTeardown, Others, TypeOK
  <2>3. ControlInv(p)'
    BY <1>12, <2>1 DEF BeginTeardown, ProcInv, ControlInv, TypeOK
  <2>4. CaptureInv(p)'
    BY <1>12, <2>1 DEF BeginTeardown, ProcInv, ControlInv, CaptureInv, Good, TypeOK
  <2>5. RestoreInv(p)'
    BY <1>12, <2>1 DEF BeginTeardown, ProcInv, ControlInv, CaptureInv, RestoreInv, Unwinding, Good, TypeOK
  <2>6. TrustInv(p)'
    BY <1>12, <2>1 DEF BeginTeardown, ProcInv, ControlInv, TrustInv, TypeOK
  <2> QED
    BY <2>1, <2>2, <2>3, <2>4, <2>5, <2>6, OneRuns DEF ProcInv
<1>13. ASSUME NEW p \in Procs, RedirectReverted(p) PROVE IInv'
  <2>1. pc[p] # "off" /\ ProcInv(p)
    BY <1>13 DEF RedirectReverted, IInv, Blank
  <2>2. Others(p) /\ pc'[p] # "off" /\ UNCHANGED <<orig, strays>>
    BY <1>13, <2>1 DEF RedirectReverted, Others, TypeOK
  <2>3. ControlInv(p)'
    BY <1>13, <2>1 DEF RedirectReverted, ProcInv, ControlInv, TypeOK
  <2>4. CaptureInv(p)'
    BY <1>13, <2>1 DEF RedirectReverted, ProcInv, ControlInv, CaptureInv, Good, TypeOK
  <2>5. RestoreInv(p)'
    BY <1>13, <2>1 DEF RedirectReverted, ProcInv, ControlInv, CaptureInv, RestoreInv, Unwinding, Good, TypeOK
  <2>6. TrustInv(p)'
    BY <1>13, <2>1 DEF RedirectReverted, ProcInv, ControlInv, TrustInv, TypeOK
  <2> QED
    BY <2>1, <2>2, <2>3, <2>4, <2>5, <2>6, OneRuns DEF ProcInv
<1>14. ASSUME NEW p \in Procs, UninstallTrust(p) PROVE IInv'
  <2>1. pc[p] # "off" /\ ProcInv(p)
    BY <1>14 DEF UninstallTrust, Fails, IInv, Blank
  <2>2. Others(p) /\ pc'[p] # "off" /\ UNCHANGED <<orig, strays>>
    BY <1>14, <2>1 DEF UninstallTrust, Fails, Others, TypeOK
  <2>3. ControlInv(p)'
    BY <1>14, <2>1 DEF UninstallTrust, Fails, ProcInv, ControlInv, TypeOK
  <2>4. CaptureInv(p)'
    BY <1>14, <2>1 DEF UninstallTrust, Fails, ProcInv, ControlInv, CaptureInv, Good, TypeOK
  <2>5. RestoreInv(p)'
    BY <1>14, <2>1 DEF UninstallTrust, Fails, ProcInv, ControlInv, CaptureInv, RestoreInv, Unwinding, Good, TypeOK
  <2>6. TrustInv(p)'
    BY <1>14, <2>1 DEF UninstallTrust, Fails, ProcInv, ControlInv, TrustInv, TypeOK
  <2> QED
    BY <2>1, <2>2, <2>3, <2>4, <2>5, <2>6, OneRuns DEF ProcInv
<1>15. ASSUME NEW p \in Procs, CloseSinks(p) PROVE IInv'
  <2>1. pc[p] # "off" /\ ProcInv(p)
    BY <1>15 DEF CloseSinks, IInv, Blank
  <2>2. Others(p) /\ pc'[p] # "off" /\ UNCHANGED <<orig, strays>>
    BY <1>15, <2>1 DEF CloseSinks, Others, TypeOK
  <2>3. ControlInv(p)'
    BY <1>15, <2>1 DEF CloseSinks, ProcInv, ControlInv, TypeOK
  <2>4. CaptureInv(p)'
    BY <1>15, <2>1 DEF CloseSinks, ProcInv, ControlInv, CaptureInv, Good, TypeOK
  <2>5. RestoreInv(p)'
    BY <1>15, <2>1 DEF CloseSinks, ProcInv, ControlInv, CaptureInv, RestoreInv, Unwinding, Good, TypeOK
  <2>6. TrustInv(p)'
    BY <1>15, <2>1 DEF CloseSinks, ProcInv, ControlInv, TrustInv, TypeOK
  <2> QED
    BY <2>1, <2>2, <2>3, <2>4, <2>5, <2>6, OneRuns DEF ProcInv
<1>16. ASSUME NEW p \in Procs, NEW u \in Services, RestoreServer(p, u) PROVE IInv'
  <2>1. pc[p] # "off" /\ ProcInv(p)
    BY <1>16 DEF RestoreServer, Restoring, IInv, Blank
  <2>2. Others(p) /\ pc'[p] # "off" /\ UNCHANGED <<orig, strays>>
    BY <1>16, <2>1 DEF RestoreServer, Others, TypeOK
  <2>3. ControlInv(p)'
    BY <1>16, <2>1 DEF RestoreServer, ProcInv, ControlInv
  <2>a. u \in armed[p] /\ u \in rem[p] /\ Unwinding(p)
    BY <1>16, <2>1 DEF RestoreServer, Restoring, Unwinding, ProcInv, RestoreInv
  <2>b. UNCHANGED <<pc, armed, cur, prior, tdRec, tdown, rem>>
    BY <1>16 DEF RestoreServer, HadProxy
  <2>c. rsvc'[p] = u /\ (proxy'[u] = SetSecureWebProxy(prior[p][u].srv) \/ prior[p][u].srv = NoServer)
    BY <1>16 DEF RestoreServer, HadProxy, TypeOK
  <2>d. \A s \in Services : s # u => (Good(s) => Good(s)')
    <3>1. \A s \in Services : s # u => proxy'[s] = proxy[s]
      BY <1>16 DEF RestoreServer, TypeOK
    <3> QED
      BY <2>2, <3>1 DEF Good
  <2>4. CaptureInv(p)'
    BY <2>1, <2>2, <2>a, <2>b, <2>d DEF ProcInv, CaptureInv
  <2>5. RestoreInv(p)'
    <3>1. armed[p] \subseteq Services
      BY DEF TypeOK
    <3>2. \A s \in armed[p] \ rem[p] : Good(s)'
      BY <2>1, <2>a, <2>d, <3>1 DEF ProcInv, RestoreInv
    <3>3. Unwinding(p)'
      BY <2>a, <2>b DEF Unwinding
    <3> QED
      BY <2>1, <2>a, <2>b, <2>c, <3>2, <3>3 DEF ProcInv, RestoreInv
  <2>6. TrustInv(p)'
    BY <1>16, <2>1 DEF RestoreServer, ProcInv, TrustInv
  <2> QED
    BY <2>1, <2>2, <2>3, <2>4, <2>5, <2>6, OneRuns DEF ProcInv
<1>17. ASSUME NEW p \in Procs, NEW m \in {"session", "uninstall"}, AllOff, Launch(p, m)
       PROVE  IInv'
  <2>1. \A r \in Procs : pc[r] = "off" /\ Blank(r)
    BY <1>17 DEF Launch, AllOff, IInv
  <2>2. ~trusted /\ \A s \in Services : Good(s)'
    BY <1>17, <2>1 DEF Launch, IInv, Reverted, AllOff, Good
  <2>3. pc'[p] \in {"setup", "list"} /\ mode'[p] = m /\ (pc'[p] = "setup" <=> m = "session")
    BY <1>17 DEF Launch, TypeOK
  <2>4. \A r \in Procs : r # p => pc'[r] = "off" /\ Blank(r)'
    BY <1>17, <2>1 DEF Launch, Blank, TypeOK
  <2>5. ProcInv(p)'
    <3>1. Blank(p) /\ UNCHANGED <<handler, tdown, trustRec, tdRec, cur, armed, rem, rsvc, trusted, prior>>
      BY <1>17, <2>1 DEF Launch
    <3>2. ControlInv(p)' /\ RestoreInv(p)' /\ TrustInv(p)'
      BY <2>2, <2>3, <3>1 DEF Blank, ControlInv, RestoreInv, TrustInv, Unwinding
    <3>3. CaptureInv(p)'
      BY <2>2, <2>3, <3>1, InterceptAssumption DEF Blank, CaptureInv
    <3> QED
      BY <3>2, <3>3 DEF ProcInv
  <2> QED
    BY <1>17, <2>3, <2>4, <2>5 DEF Launch, IInv, Solo, Reverted, AllOff
<1>18. ASSUME NEW p \in Procs, Setup(p) PROVE IInv'
  <2>1. pc[p] # "off" /\ ProcInv(p)
    BY <1>18 DEF Setup, IInv
  <2>2. CASE Exit(p, "other")
    <3>1. ~trusted' /\ UNCHANGED <<proxy, strays>>
      BY <1>18, <2>1 DEF Setup, ProcInv, ControlInv, TrustInv
    <3>2. \A s \in Services : Good(s)
      BY <1>18, <2>1 DEF Setup, ProcInv, CaptureInv
    <3> QED
      BY <2>1, <2>2, <3>1, <3>2, OneLeaves
  <2>3. CASE ~Exit(p, "other")
    <3>1. /\ pc' = [pc EXCEPT ![p] = "trust"] /\ handler' = [handler EXCEPT ![p] = "wait"]
          /\ UNCHANGED <<proxy, trusted, orig, strays, mode, tdown, trustRec, tdRec, cur, prior, armed, rem, rsvc>>
      BY <1>18, <2>3 DEF Setup
    <3>2. Others(p) /\ pc'[p] = "trust" /\ handler'[p] = "wait"
      BY <3>1 DEF Others, TypeOK
    <3>3. ControlInv(p)' /\ RestoreInv(p)' /\ TrustInv(p)'
      BY <1>18, <2>1, <3>1, <3>2
      DEF Setup, ProcInv, ControlInv, RestoreInv, TrustInv, Unwinding, Good, TypeOK
    <3>4. CaptureInv(p)'
      BY <1>18, <2>1, <3>1, <3>2 DEF Setup, ProcInv, CaptureInv, Good
    <3> QED
      BY <2>1, <3>1, <3>2, <3>3, <3>4, OneRuns DEF ProcInv
  <2> QED
    BY <2>2, <2>3
<1>19. ASSUME NEW p \in Procs, pc[p] # "off", tdown[p] = "done", NEW how, Exit(p, how),
              UNCHANGED <<proxy, trusted, strays>>
       PROVE  IInv'
  <2>1. ProcInv(p)
    BY <1>19 DEF IInv
  <2>2. ~trusted'
    BY <1>19, <2>1 DEF ProcInv, TrustInv
  <2>3. \A s \in Services : Good(s)
    BY <1>19, <2>1 DEF ProcInv, ControlInv, CaptureInv, RestoreInv, Unwinding
  <2> QED
    BY <1>19, <2>2, <2>3, OneLeaves
<1>20. ASSUME NEW p \in Procs, Return(p) PROVE IInv'
  BY <1>19, <1>20 DEF Return
<1>21. ASSUME NEW p \in Procs, HandlerExit(p) PROVE IInv'
  <2>1. pc[p] \in {"listen", "serve", "unwind"}
    BY <1>21 DEF HandlerExit, IInv, Blank, ProcInv, ControlInv
  <2>2. MainCalls(p) = {}
    BY <2>1 DEF MainCalls
  <2>3. strays' = strays
    BY <1>21, <2>2 DEF HandlerExit, Orphaned, AtMostOne
  <2> QED
    BY <1>19, <1>21, <2>1, <2>3 DEF HandlerExit
<1>22. ASSUME NEW p \in Procs, pc[p] \in {"load", "untrust"}, NEW how, Exit(p, how),
              UNCHANGED <<proxy, strays>>, trusted' => trusted
       PROVE  IInv'
  <2>1. ProcInv(p)
    BY <1>22 DEF IInv
  <2>2. ~trusted'
    BY <1>22, <2>1 DEF ProcInv, ControlInv, TrustInv, TypeOK
  <2>3. \A s \in Services : Good(s)
    BY <1>22, <2>1 DEF ProcInv, CaptureInv
  <2> QED
    BY <1>22, <2>2, <2>3, OneLeaves
<1>23. ASSUME NEW p \in Procs, LoadCA(p) PROVE IInv'
  <2>1. pc[p] # "off" /\ ProcInv(p)
    BY <1>23 DEF LoadCA, IInv
  <2>2. CASE \E how : Exit(p, how)
    BY <1>22, <1>23, <2>2 DEF LoadCA
  <2>3. CASE ~\E how : Exit(p, how)
    <3>1. /\ pc' = [pc EXCEPT ![p] = "untrust"]
          /\ UNCHANGED <<proxy, trusted, orig, strays, handler, mode, tdown, trustRec, tdRec, cur, prior, armed, rem, rsvc>>
      BY <1>23, <2>3 DEF LoadCA
    <3>2. Others(p) /\ pc'[p] = "untrust"
      BY <3>1 DEF Others, TypeOK
    <3>3. ControlInv(p)' /\ RestoreInv(p)' /\ TrustInv(p)'
      BY <1>23, <2>1, <3>1, <3>2
      DEF LoadCA, ProcInv, ControlInv, RestoreInv, TrustInv, Unwinding, Good, TypeOK
    <3>4. CaptureInv(p)'
      BY <1>23, <2>1, <3>1, <3>2 DEF LoadCA, ProcInv, CaptureInv, Good
    <3> QED
      BY <2>1, <3>1, <3>2, <3>3, <3>4, OneRuns DEF ProcInv
  <2> QED
    BY <2>2, <2>3
<1>24. ASSUME NEW p \in Procs, ForceUntrust(p) PROVE IInv'
  BY <1>22, <1>24 DEF ForceUntrust
<1>25. ASSUME UNCHANGED vars PROVE IInv'
  BY <1>25 DEF vars, IInv, Solo, Blank, ProcInv, ControlInv, CaptureInv, RestoreInv, TrustInv,
               Unwinding, Good, Reverted, AllOff
<1> QED
  BY <1>1, <1>2, <1>3, <1>4, <1>5, <1>6, <1>7, <1>8, <1>9, <1>10, <1>11, <1>12, <1>13, <1>14,
     <1>15, <1>16, <1>17, <1>18, <1>20, <1>21, <1>23, <1>24, <1>25 DEF CalmNext, Step

\* Without faults IInv holds throughout.
LEMMA Undisturbed == ASSUME Faults = {} PROVE Spec => []IInv
<1>1. Init => IInv
  BY InterceptAssumption DEF Init, IInv, Solo, Blank, Reverted, PutBack
<1>2. IInv /\ [Next]_vars => [CalmNext]_vars
  BY DEF Next, CalmNext, Launch, Signal, Kill, IInv
<1>3. TypeOK /\ TypeOK' /\ IInv /\ [Next]_vars => IInv'
  BY <1>2, Inductive
<1> QED
  BY <1>1, <1>3, TypeCorrect, PTL DEF Spec

\* "A MITM that armed must always disarm": whatever arming step failed, however
\* serving ended or whenever a signal arrived once armed, a machine on which the
\* command no longer runs has the user's proxy settings and no trusted CA.
THEOREM AlwaysReverted == ASSUME Faults = {} PROVE Spec => []Reverted
<1>1. IInv => Reverted
  BY DEF IInv
<1> QED
  BY <1>1, Undisturbed, PTL

\* What a teardown will put back is a setting of the user's, never a redirection
\* of ours.
THEOREM CaptureAlwaysForeign == ASSUME Faults = {} PROVE Spec => []CaptureIsForeign
<1>1. TypeOK /\ IInv => CaptureIsForeign
  <2> SUFFICES ASSUME TypeOK, IInv, NEW p \in Procs,
                      NEW s \in armed[p] \cup ({cur[p]} \ {NoService})
               PROVE  ~Redirected(prior[p][s])
    BY DEF CaptureIsForeign
  <2>1. s \in Services
    BY DEF TypeOK
  <2>2. pc[p] # "off"
    BY DEF IInv, Blank
  <2>3. PutBack(prior[p][s], orig[s]) /\ orig[s].srv # Ours
    BY <2>1, <2>2 DEF IInv, ProcInv, CaptureInv
  <2> QED
    BY <2>3 DEF PutBack, Redirected
<1> QED
  BY <1>1, Undisturbed, TypeCorrect, PTL

\* Nobody's traffic is sent to a proxy whose certificates are not trusted: arming
\* trusts before it redirects and teardown does the reverse.
THEOREM AlwaysRedirectOnlyWhileTrusted ==
    ASSUME Faults = {} PROVE Spec => []RedirectOnlyWhileTrusted
<1>1. TypeOK /\ IInv => RedirectOnlyWhileTrusted
  <2> SUFFICES ASSUME TypeOK, IInv, NEW s \in Services, Redirected(proxy[s]), ~trusted,
                      \A p \in Procs : mode[p] # "uninstall"
               PROVE  FALSE
    BY DEF RedirectOnlyWhileTrusted
  <2>1. ~Good(s)
    BY DEF Good, PutBack, Redirected, IInv
  <2>2. PICK p \in Procs : pc[p] # "off"
    BY <2>1 DEF IInv, Reverted, AllOff, Good
  <2>3. ProcInv(p) /\ mode[p] = "session"
    BY <2>2 DEF IInv, TypeOK
  <2>4. s \in armed[p]
    BY <2>1, <2>3 DEF ProcInv, CaptureInv
  <2>5. pc[p] \in {"get", "set", "undo", "proxyRec"} \/ tdRec[p]
    BY <2>2, <2>3, <2>4 DEF ProcInv, ControlInv, CaptureInv, TypeOK, PC
  <2>6. CASE tdown[p] \in {"idle", "redirect"}
    BY <2>3, <2>5, <2>6 DEF ProcInv, TrustInv
  <2>7. CASE tdown[p] \in {"trust", "sinks", "done"}
    <3>1. tdRec[p]
      BY <2>3, <2>5, <2>7 DEF ProcInv, ControlInv
    <3> QED
      BY <2>1, <2>3, <2>4, <2>7, <3>1 DEF ProcInv, RestoreInv, Unwinding
  <2> QED
    BY <2>6, <2>7 DEF TypeOK
<1> QED
  BY <1>1, Undisturbed, TypeCorrect, PTL

-----------------------------------------------------------------------------
(* A process that is told to stop ends.                                       *)
(*                                                                            *)
(* StopDisarms is liveness, of a number of steps that grows with the number   *)
(* of services: it stays with TLC.  What it rests on is proved here, in every *)
(* environment: a process is never stuck (only one that serves waits), and    *)
(* each of its steps brings its end closer.                                   *)

\* When a process can go on by itself: the guards of Step(p).
StepGuard(p) ==
    \/ pc[p] \in {"setup", "trust", "list", "get", "set", "listen", "load", "untrust"}
    \/ pc[p] = "trustRec" /\ MuFree(p)
    \/ pc[p] = "proxyRec" /\ (mode[p] = "session" => MuFree(p))
    \/ Restoring(p) /\ (rem[p] # {} \/ rsvc[p] # NoService)
    \/ pc[p] \in {"undo", "revert"} /\ rem[p] = {}
    \/ tdown[p] = "idle" /\ (pc[p] = "unwind" \/ handler[p] = "in")
    \/ tdown[p] = "redirect" /\ (tdRec[p] => rem[p] = {})
    \/ tdown[p] \in {"trust", "sinks"}
    \/ tdown[p] = "done" /\ (pc[p] = "unwind" \/ handler[p] = "in")

\* Only a session that serves waits for something: a signal, or the end of its
\* accept loop.
NeverStuck == \A p \in Procs : pc[p] # "off" /\ (pc[p] = "serve" => handler[p] = "in") => StepGuard(p)

\* The most steps that a process, each of its goroutines and a restore have left.
NumServices == Cardinality(Services)

MainRank(l, done) ==
    CASE l = "off"      -> 0
      [] l = "untrust"  -> 1
      [] l = "load"     -> 2
      [] l = "unwind"   -> 3
      [] l \in {"undo", "revert", "serve"} -> 4
      [] l = "listen"   -> 5
      [] l = "proxyRec" -> 6 + 2 * NumServices
      [] l = "set"      -> 6 + 4 * NumServices - 2 * done
      [] l = "get"      -> 7 + 4 * NumServices - 2 * done
      [] l = "list"     -> 8 + 4 * NumServices
      [] l = "trustRec" -> 9 + 4 * NumServices
      [] l = "trust"    -> 10 + 4 * NumServices
      [] l = "setup"    -> 13 + 4 * NumServices

MainLeft(p) == MainRank(pc[p], Cardinality(armed[p]))

HandlerLeft(p) == CASE handler[p] = "none" -> 0 [] handler[p] = "wait" -> 2 [] handler[p] = "in" -> 1

TeardownLeft(p) ==
    CASE tdown[p] = "idle"     -> 4 + 2 * NumServices
      [] tdown[p] = "redirect" -> 3
      [] tdown[p] = "trust"    -> 2
      [] tdown[p] = "sinks"    -> 1
      [] tdown[p] = "done"     -> 0

RestoreLeft(p) == 2 * Cardinality(rem[p]) - (IF rsvc[p] = NoService THEN 0 ELSE 1)

Left(p) == IF pc[p] = "off" THEN 0
           ELSE MainLeft(p) + HandlerLeft(p) + TeardownLeft(p) + RestoreLeft(p)

\* Every step of a process brings its end closer, and no step of another delays it.
Descends == \A p \in Procs : pc[p] # "off" =>
                /\ Left(p)' \in Nat /\ Left(p)' <= Left(p)
                /\ Step(p) \/ ServeEnds(p) \/ Signal(p) \/ Kill(p) => Left(p)' < Left(p)

\* What the two goroutines may rely on of each other: between the two calls of a
\* restore, that service is being restored; a closure is recorded, and a handler
\* set, when their sessions serve; and a service is redirected once.
LifeInv(p) ==
    /\ rsvc[p] # NoService => Restoring(p) /\ rsvc[p] \in rem[p]
    /\ tdRec[p] => pc[p] \in {"listen", "serve", "unwind"}
    /\ pc[p] = "set" => cur[p] \notin armed[p]
    /\ handler[p] = "none" <=> pc[p] \in {"off", "setup"} \/ mode[p] = "uninstall"
    /\ mode[p] = "uninstall" => pc[p] \notin {"setup", "listen", "serve"}

\* Whatever a process does, it leaves the memory of the others alone.
LEMMA OthersKeep ==
    ASSUME TypeOK, NEW p \in Procs,
           \/ \E m \in {"session", "uninstall"} : Launch(p, m)
           \/ Step(p) \/ ServeEnds(p) \/ Signal(p) \/ Kill(p)
    PROVE  Others(p)
<1>. USE DEF TypeOK, Goto, osVars, goVars, recVars, capVars, restVars, pastVars
<1>1. ASSUME NEW how, Exit(p, how) PROVE Others(p)
  BY <1>1 DEF Exit, Others
<1>2. CASE \E m \in {"session", "uninstall"} : Launch(p, m)
  BY <1>2 DEF Launch, Others
<1>3. CASE Setup(p)
  <2>1. CASE Exit(p, "other")
    BY <1>1, <2>1
  <2>2. CASE ~Exit(p, "other")
    BY <1>3, <2>2 DEF Setup, Others
  <2>. QED
    BY <2>1, <2>2
<1>4. CASE InstallTrust(p) \/ RecordTrust(p) \/ NetworkServices(p) \/ Listen(p) \/ ServeEnds(p)
  BY <1>4 DEF InstallTrust, RecordTrust, NetworkServices, Listen, ServeEnds, Others
<1>5. CASE GetProxyState(p)
  BY <1>5 DEF GetProxyState, Undo, Others
<1>6. CASE SetProxy(p)
  BY <1>6 DEF SetProxy, Undo, Others
<1>7. ASSUME NEW s \in Services, RestoreServer(p, s) PROVE Others(p)
  BY <1>7 DEF RestoreServer, Others
<1>8. CASE RestoreState(p)
  BY <1>8 DEF RestoreState, Others
<1>9. CASE RestoreDone(p) \/ RecordProxy(p)
  BY <1>9 DEF RestoreDone, RecordProxy, Others
<1>10. CASE BeginTeardown(p) \/ RedirectReverted(p) \/ UninstallTrust(p) \/ CloseSinks(p) \/ Signal(p)
  BY <1>10 DEF BeginTeardown, RedirectReverted, UninstallTrust, CloseSinks, Signal, Others
<1>11. CASE Return(p) \/ HandlerExit(p) \/ Kill(p) \/ ForceUntrust(p)
  BY <1>1, <1>11 DEF Return, HandlerExit, Kill, ForceUntrust
<1>12. CASE LoadCA(p)
  <2>1. CASE \E how : Exit(p, how)
    BY <1>1, <2>1
  <2>2. CASE ~\E how : Exit(p, how)
    BY <1>12, <2>2 DEF LoadCA, Others
  <2>. QED
    BY <2>1, <2>2
<1>. QED
  BY <1>2, <1>3, <1>4, <1>5, <1>6, <1>7, <1>8, <1>9, <1>10, <1>11, <1>12 DEF Step

\* A process has what its place in the command promises, after each of its steps.
LEMMA LifeStep ==
    ASSUME TypeInv, NEW p \in Procs, LifeInv(p),
           \/ \E m \in {"session", "uninstall"} : Launch(p, m)
           \/ Step(p) \/ ServeEnds(p) \/ Signal(p) \/ Kill(p)
    PROVE  LifeInv(p)'
<1>. USE DEF TypeInv, TypeOK, PC, Goto, osVars, goVars, recVars, capVars, restVars, pastVars, Restoring, LifeInv
<1>1. ASSUME NEW how, Exit(p, how) PROVE LifeInv(p)'
  BY <1>1 DEF Exit
<1>2. ASSUME NEW m \in {"session", "uninstall"}, Launch(p, m) PROVE LifeInv(p)'
  BY <1>2 DEF Launch
<1>3. CASE Setup(p)
  <2>1. CASE Exit(p, "other")
    BY <1>1, <2>1
  <2>2. CASE ~Exit(p, "other")
    BY <1>3, <2>2 DEF Setup
  <2>. QED
    BY <2>1, <2>2
<1>4. CASE InstallTrust(p) \/ RecordTrust(p) \/ Listen(p) \/ ServeEnds(p)
  BY <1>4 DEF InstallTrust, RecordTrust, Listen, ServeEnds
<1>5. CASE NetworkServices(p)
  BY <1>5 DEF NetworkServices, InstallFailed
<1>6. CASE GetProxyState(p)
  <2>1. CASE Undo(p)
    BY <1>6, <2>1 DEF GetProxyState, Undo
  <2>2. CASE ~Undo(p)
    BY <1>6, <2>2 DEF GetProxyState
  <2>. QED
    BY <2>1, <2>2
<1>7. CASE SetProxy(p)
  <2>1. CASE Undo(p)
    BY <1>7, <2>1 DEF SetProxy, Undo
  <2>2. CASE ~Undo(p)
    BY <1>7, <2>2 DEF SetProxy
  <2>. QED
    BY <2>1, <2>2
<1>8. ASSUME NEW s \in Services, RestoreServer(p, s) PROVE LifeInv(p)'
  BY <1>8 DEF RestoreServer
<1>9. CASE RestoreState(p)
  BY <1>9 DEF RestoreState
<1>10. CASE RestoreDone(p)
  BY <1>10 DEF RestoreDone, InstallFailed
<1>11. CASE RecordProxy(p)
  BY <1>11 DEF RecordProxy
<1>12. CASE BeginTeardown(p) \/ RedirectReverted(p)
  BY <1>12 DEF BeginTeardown, RedirectReverted
<1>13. CASE UninstallTrust(p) \/ CloseSinks(p) \/ Signal(p)
  BY <1>13 DEF UninstallTrust, CloseSinks, Signal
<1>14. CASE Return(p) \/ HandlerExit(p) \/ Kill(p) \/ ForceUntrust(p)
  BY <1>1, <1>14 DEF Return, HandlerExit, Kill, ForceUntrust
<1>15. CASE LoadCA(p)
  <2>1. CASE \E how : Exit(p, how)
    BY <1>1, <2>1
  <2>2. CASE ~\E how : Exit(p, how)
    BY <1>15, <2>2 DEF LoadCA
  <2>. QED
    BY <2>1, <2>2
<1>. QED
  BY <1>2, <1>3, <1>4, <1>5, <1>6, <1>7, <1>8, <1>9, <1>10, <1>11, <1>12, <1>13, <1>14, <1>15 DEF Step

\* Nobody but the process itself disturbs it.
LEMMA LifeKept ==
    ASSUME TypeInv, \A p \in Procs : LifeInv(p), [Next]_vars
    PROVE  \A p \in Procs : LifeInv(p)'
<1>1. ASSUME NEW p \in Procs,
             \/ \E m \in {"session", "uninstall"} : Launch(p, m)
             \/ Step(p) \/ ServeEnds(p) \/ Signal(p) \/ Kill(p)
      PROVE  \A r \in Procs : LifeInv(r)'
  <2>1. LifeInv(p)'
    BY <1>1, LifeStep
  <2>2. Others(p)
    BY <1>1, OthersKeep DEF TypeInv
  <2>3. ASSUME NEW r \in Procs, r # p PROVE LifeInv(r)'
    BY <2>2, <2>3 DEF Others, LifeInv, Restoring
  <2>. QED
    BY <2>1, <2>3
<1>2. CASE UNCHANGED vars
  BY <1>2 DEF vars, LifeInv, Restoring
<1>3. ASSUME NEW c \in strays, Lands(c) PROVE \A r \in Procs : LifeInv(r)'
  BY <1>3 DEF Lands, LifeInv, Restoring, goVars, recVars, capVars, restVars
<1>. QED
  BY <1>1, <1>2, <1>3 DEF Next

\* A process that has not ended and does not serve can take a step: what it waits for,
\* mu, is held by a teardown that can.
LEMMA CanGoOn ==
    ASSUME TypeOK, NEW p \in Procs, LifeInv(p), pc[p] # "off", pc[p] = "serve" => handler[p] = "in"
    PROVE  StepGuard(p)
  BY DEF TypeOK, PC, LifeInv, StepGuard, MuFree, Restoring

\* Of each process that may be running.
LifeAll == \A p \in Procs : LifeInv(p)

LEMMA LifeHolds == Spec => []LifeAll
<1>1. Init => LifeAll
  BY DEF Init, LifeAll, LifeInv
<1>2. TypeInv /\ LifeAll /\ [Next]_vars => LifeAll'
  BY LifeKept DEF LifeAll
<1>. QED
  BY <1>1, <1>2, TypeInit, TypeStep, PTL DEF Spec

\* In every environment: no tool call, lock or goroutine keeps a process waiting for ever; a
\* session that serves waits for a signal or for the end of its accept loop, and once it has
\* either it can always go on (runIntercept, teardown, once and mu).
THEOREM ProcessNeverStuck == Spec => []NeverStuck
<1>1. TypeOK /\ LifeAll => NeverStuck
  BY CanGoOn DEF LifeAll, NeverStuck
<1>. QED
  BY <1>1, LifeHolds, TypeCorrect, PTL

\* The values of the ranks.
LEMMA MainRanks ==
    ASSUME NumServices \in Nat, NEW k \in Nat
    PROVE  /\ MainRank("untrust", k) = 1 /\ MainRank("load", k) = 2 /\ MainRank("unwind", k) = 3
           /\ MainRank("undo", k) = 4 /\ MainRank("revert", k) = 4 /\ MainRank("serve", k) = 4
           /\ MainRank("listen", k) = 5
           /\ MainRank("proxyRec", k) = 6 + 2 * NumServices
           /\ MainRank("set", k) = 6 + 4 * NumServices - 2 * k
           /\ MainRank("get", k) = 7 + 4 * NumServices - 2 * k
           /\ MainRank("list", k) = 8 + 4 * NumServices
           /\ MainRank("trustRec", k) = 9 + 4 * NumServices
           /\ MainRank("trust", k) = 10 + 4 * NumServices
           /\ MainRank("setup", k) = 13 + 4 * NumServices
  BY DEF MainRank

\* As many services are redirected, or left to restore, as there are at most.
LEMMA ServiceCounts ==
    ASSUME IsFiniteSet(Services), TypeOK, NEW p \in Procs
    PROVE  /\ NumServices \in Nat
           /\ IsFiniteSet(armed[p]) /\ Cardinality(armed[p]) \in Nat /\ Cardinality(armed[p]) <= NumServices
           /\ IsFiniteSet(rem[p]) /\ Cardinality(rem[p]) \in Nat /\ Cardinality(rem[p]) <= NumServices
<1>1. armed[p] \subseteq Services /\ rem[p] \subseteq Services
  BY DEF TypeOK
<1>. QED
  BY <1>1, FS_Subset, FS_CardinalityType DEF NumServices

\* Each part of what is left is a number, and a process that has not ended has a step left.
LEMMA LeftParts ==
    ASSUME IsFiniteSet(Services), TypeOK, NEW p \in Procs, LifeInv(p), pc[p] # "off"
    PROVE  /\ MainLeft(p) \in Nat /\ MainLeft(p) >= 1
           /\ HandlerLeft(p) \in Nat /\ TeardownLeft(p) \in Nat /\ RestoreLeft(p) \in Nat
           /\ Left(p) = MainLeft(p) + HandlerLeft(p) + TeardownLeft(p) + RestoreLeft(p)
           /\ Left(p) \in Nat /\ Left(p) >= 1
           /\ HandlerLeft(p) <= 2 /\ TeardownLeft(p) <= 4 + 2 * NumServices
           /\ RestoreLeft(p) <= 2 * NumServices
<1>0. /\ NumServices \in Nat
      /\ Cardinality(armed[p]) \in Nat /\ Cardinality(armed[p]) <= NumServices
      /\ Cardinality(rem[p]) \in Nat /\ Cardinality(rem[p]) <= NumServices
      /\ IsFiniteSet(rem[p])
  BY ServiceCounts
<1>1. MainLeft(p) \in Nat /\ MainLeft(p) >= 1
  <2>1. pc[p] \in PC
    BY DEF TypeOK
  <2>. QED
    BY <1>0, <2>1, MainRanks DEF MainLeft, PC
<1>2. HandlerLeft(p) \in Nat /\ HandlerLeft(p) <= 2
  BY DEF TypeOK, HandlerLeft
<1>3. TeardownLeft(p) \in Nat /\ TeardownLeft(p) <= 4 + 2 * NumServices
  <2>1. tdown[p] \in {"idle", "redirect", "trust", "sinks", "done"}
    BY DEF TypeOK
  <2>. QED
    BY <1>0, <2>1 DEF TeardownLeft
<1>4. RestoreLeft(p) \in Nat /\ RestoreLeft(p) <= 2 * NumServices
  <2>1. rsvc[p] # NoService => Cardinality(rem[p]) >= 1
    <3>1. rsvc[p] # NoService => rem[p] # {}
      BY DEF LifeInv
    <3>. QED
      BY <1>0, <3>1, FS_EmptySet
  <2>. QED
    BY <1>0, <2>1 DEF RestoreLeft
<1>5. Left(p) = MainLeft(p) + HandlerLeft(p) + TeardownLeft(p) + RestoreLeft(p)
  BY DEF Left
<1>. QED
  BY <1>1, <1>2, <1>3, <1>4, <1>5

LEMMA LeftPartsNext ==
    (IsFiniteSet(Services) /\ TypeOK
       => \A p \in Procs : LifeInv(p) /\ pc[p] # "off"
             => /\ MainLeft(p) \in Nat /\ MainLeft(p) >= 1
                /\ HandlerLeft(p) \in Nat /\ TeardownLeft(p) \in Nat /\ RestoreLeft(p) \in Nat
                /\ Left(p) = MainLeft(p) + HandlerLeft(p) + TeardownLeft(p) + RestoreLeft(p)
                /\ Left(p) \in Nat)'
<1>1. IsFiniteSet(Services) /\ TypeOK
       => \A p \in Procs : LifeInv(p) /\ pc[p] # "off"
             => /\ MainLeft(p) \in Nat /\ MainLeft(p) >= 1
                /\ HandlerLeft(p) \in Nat /\ TeardownLeft(p) \in Nat /\ RestoreLeft(p) \in Nat
                /\ Left(p) = MainLeft(p) + HandlerLeft(p) + TeardownLeft(p) + RestoreLeft(p)
                /\ Left(p) \in Nat
  BY LeftParts
<1>. QED
  BY <1>1, PTL

\* A process has fewer steps left after each of them.
LEMMA OwnDescends ==
    ASSUME IsFiniteSet(Services), TypeInv, TypeOK', NEW p \in Procs, pc[p] # "off", LifeInv(p), LifeInv(p)',
           Step(p) \/ ServeEnds(p) \/ Signal(p) \/ Kill(p)
    PROVE  Left(p)' \in Nat /\ Left(p)' < Left(p)
<1>. DEFINE Less == Left(p)' \in Nat /\ Left(p)' < Left(p)
<1>. SUFFICES Less
  OBVIOUS
<1>t. TypeOK
  BY DEF TypeInv
<1>0. /\ MainLeft(p) \in Nat /\ MainLeft(p) >= 1
      /\ HandlerLeft(p) \in Nat /\ TeardownLeft(p) \in Nat /\ RestoreLeft(p) \in Nat
      /\ Left(p) = MainLeft(p) + HandlerLeft(p) + TeardownLeft(p) + RestoreLeft(p)
  BY <1>t, LeftParts
<1>n. /\ NumServices \in Nat
      /\ IsFiniteSet(armed[p]) /\ Cardinality(armed[p]) \in Nat /\ Cardinality(armed[p]) <= NumServices
      /\ IsFiniteSet(rem[p]) /\ Cardinality(rem[p]) \in Nat /\ Cardinality(rem[p]) <= NumServices
  BY <1>t, ServiceCounts
\* It ends.
<1>x. ASSUME NEW how, Exit(p, how) PROVE Less
  <2>1. pc'[p] = "off"
    BY <1>t, <1>x DEF Exit, Goto, TypeOK
  <2>2. Left(p)' = 0
    BY <2>1 DEF Left
  <2>. QED
    BY <1>0, <2>2
\* It goes on, and one of the four goes down by more than the others go up.
<1>y. ASSUME pc'[p] # "off",
             MainLeft(p)' + HandlerLeft(p)' + TeardownLeft(p)' + RestoreLeft(p)'
                < MainLeft(p) + HandlerLeft(p) + TeardownLeft(p) + RestoreLeft(p)
      PROVE  Less
  BY <1>0, <1>y, LeftPartsNext
<1>z. ASSUME pc'[p] # "off" PROVE /\ MainLeft(p)' \in Nat /\ HandlerLeft(p)' \in Nat
                                  /\ TeardownLeft(p)' \in Nat /\ RestoreLeft(p)' \in Nat
  BY <1>z, LeftPartsNext
\* The main goroutine goes on, alone.
<1>m. ASSUME pc'[p] # "off", MainLeft(p)' < MainLeft(p), UNCHANGED <<goVars, restVars>> PROVE Less
  <2>1. HandlerLeft(p)' = HandlerLeft(p) /\ TeardownLeft(p)' = TeardownLeft(p) /\ RestoreLeft(p)' = RestoreLeft(p)
    BY <1>m DEF goVars, restVars, HandlerLeft, TeardownLeft, RestoreLeft
  <2>. QED
    BY <1>0, <1>m, <1>y, <1>z, <2>1
<1>1. CASE Setup(p)
  <2>1. CASE Exit(p, "other")
    BY <1>x, <2>1
  <2>2. CASE ~Exit(p, "other")
    <3>0. /\ pc[p] = "setup" /\ pc' = [pc EXCEPT ![p] = "trust"]
          /\ handler' = [handler EXCEPT ![p] = "wait"] /\ UNCHANGED <<tdown, capVars, restVars>>
      BY <1>1, <2>2 DEF Setup, Goto
    <3>a. DOMAIN pc = Procs /\ DOMAIN handler = Procs
      BY <1>t DEF TypeOK
    <3>1. /\ pc[p] = "setup" /\ pc'[p] = "trust" /\ handler'[p] = "wait"
          /\ UNCHANGED <<tdown, armed, rem, rsvc>>
      BY <3>0, <3>a DEF capVars, restVars
    <3>2. MainLeft(p) = 13 + 4 * NumServices /\ MainLeft(p)' = 10 + 4 * NumServices
      BY <1>n, <3>1, MainRanks DEF MainLeft
    <3>3. HandlerLeft(p)' = 2
      BY <3>1 DEF HandlerLeft
    <3>4. TeardownLeft(p)' = TeardownLeft(p) /\ RestoreLeft(p)' = RestoreLeft(p)
      BY <3>1 DEF TeardownLeft, RestoreLeft
    <3>. QED
      BY <1>0, <1>n, <1>y, <1>z, <3>1, <3>2, <3>3, <3>4
  <2>. QED
    BY <2>1, <2>2
<1>2. CASE InstallTrust(p)
  <2>1. /\ pc[p] = "trust" /\ pc'[p] \in {"trustRec", "unwind"} /\ armed' = armed
        /\ UNCHANGED <<goVars, restVars>>
    BY <1>2, <1>t DEF InstallTrust, Goto, TypeOK, capVars
  <2>2. MainLeft(p)' < MainLeft(p)
    BY <1>n, <2>1, MainRanks DEF MainLeft
  <2>. QED
    BY <1>m, <2>1, <2>2
<1>3. CASE RecordTrust(p)
  <2>1. /\ pc[p] = "trustRec" /\ pc'[p] = "list" /\ armed' = armed
        /\ UNCHANGED <<goVars, restVars>>
    BY <1>3, <1>t DEF RecordTrust, Goto, TypeOK, capVars
  <2>2. MainLeft(p)' < MainLeft(p)
    BY <1>n, <2>1, MainRanks DEF MainLeft
  <2>. QED
    BY <1>m, <2>1, <2>2
<1>4. CASE NetworkServices(p)
  <2>1. /\ pc[p] = "list" /\ pc'[p] \in {"get", "unwind", "load"} /\ armed' = armed
        /\ UNCHANGED <<goVars, restVars>>
    BY <1>4, <1>t DEF NetworkServices, InstallFailed, Goto, TypeOK, capVars
  <2>2. MainLeft(p)' < MainLeft(p)
    BY <1>n, <2>1, MainRanks DEF MainLeft
  <2>. QED
    BY <1>m, <2>1, <2>2
\* What is undone was redirected: twice as many steps as were saved at most.
<1>u. ASSUME pc[p] \in {"get", "set"}, Undo(p), UNCHANGED <<goVars, rsvc>> PROVE Less
  <2>1. /\ pc'[p] = "undo" /\ rem'[p] = armed[p] /\ armed' = armed
        /\ UNCHANGED <<tdown, handler>>
    BY <1>t, <1>u DEF Undo, Goto, TypeOK, goVars
  <2>2. MainLeft(p) >= 6 + 2 * NumServices
    BY <1>n, <1>u, MainRanks DEF MainLeft
  <2>3. MainLeft(p)' = 4
    BY <1>n, <2>1, MainRanks DEF MainLeft
  <2>4. RestoreLeft(p)' <= 2 * NumServices
    BY <1>n, <2>1 DEF RestoreLeft
  <2>5. TeardownLeft(p)' = TeardownLeft(p) /\ HandlerLeft(p)' = HandlerLeft(p)
    BY <2>1 DEF TeardownLeft, HandlerLeft
  <2>. QED
    BY <1>0, <1>n, <1>y, <1>z, <2>1, <2>2, <2>3, <2>4, <2>5
<1>5. CASE GetProxyState(p)
  <2>1. CASE Undo(p)
    BY <1>5, <1>u, <2>1 DEF GetProxyState
  <2>2. CASE ~Undo(p)
    <3>1. /\ pc[p] = "get" /\ pc'[p] = "set" /\ armed' = armed
          /\ UNCHANGED <<goVars, restVars>>
      BY <1>5, <1>t, <2>2 DEF GetProxyState, Goto, TypeOK, restVars
    <3>2. MainLeft(p)' < MainLeft(p)
      BY <1>n, <3>1, MainRanks DEF MainLeft
    <3>. QED
      BY <1>m, <3>1, <3>2
  <2>. QED
    BY <2>1, <2>2
<1>6. CASE SetProxy(p)
  <2>1. CASE Undo(p)
    BY <1>6, <1>u, <2>1 DEF SetProxy
  <2>2. CASE ~Undo(p)
    <3>1. /\ pc[p] = "set" /\ cur[p] \in Services /\ cur[p] \notin armed[p]
          /\ armed'[p] = armed[p] \cup {cur[p]}
          /\ pc'[p] = IF armed[p] \cup {cur[p]} = Services THEN "proxyRec" ELSE "get"
          /\ UNCHANGED <<goVars, restVars>>
      BY <1>6, <1>t, <2>2 DEF SetProxy, Goto, TypeInv, TypeOK, restVars, LifeInv
    <3>2. Cardinality(armed'[p]) = Cardinality(armed[p]) + 1
      BY <1>n, <3>1, FS_AddElement
    <3>3. Cardinality(armed'[p]) <= NumServices
      <4>1. armed'[p] \subseteq Services
        BY DEF TypeOK
      <4>. QED
        BY <4>1, FS_Subset DEF NumServices
    <3>4. MainLeft(p) = 6 + 4 * NumServices - 2 * Cardinality(armed[p])
      BY <1>n, <3>1, MainRanks DEF MainLeft
    <3>5. \/ MainLeft(p)' = 6 + 2 * NumServices
          \/ MainLeft(p)' = 7 + 4 * NumServices - 2 * (Cardinality(armed[p]) + 1)
      BY <1>n, <3>1, <3>2, MainRanks DEF MainLeft
    <3>6. MainLeft(p)' < MainLeft(p)
      BY <1>n, <3>2, <3>3, <3>4, <3>5
    <3>. QED
      BY <1>m, <3>1, <3>6
  <2>. QED
    BY <2>1, <2>2
\* A restore makes one call after another, or leaves a service as it is.
<1>r. ASSUME pc'[p] # "off", UNCHANGED <<pc, goVars, armed>>, RestoreLeft(p)' < RestoreLeft(p) PROVE Less
  <2>1. MainLeft(p)' = MainLeft(p) /\ HandlerLeft(p)' = HandlerLeft(p) /\ TeardownLeft(p)' = TeardownLeft(p)
    BY <1>r DEF goVars, MainLeft, HandlerLeft, TeardownLeft
  <2>. QED
    BY <1>0, <1>r, <1>y, <1>z, <2>1
<1>7. ASSUME NEW s \in Services, RestoreServer(p, s) PROVE Less
  <2>1. rsvc[p] = NoService /\ s \in rem[p] /\ UNCHANGED <<pc, goVars, armed>>
    BY <1>7 DEF RestoreServer, capVars
  <2>2. \/ rsvc'[p] = s /\ rem'[p] = rem[p]
        \/ rsvc'[p] = NoService /\ rem'[p] = rem[p] \ {s}
    BY <1>7, <1>t DEF RestoreServer, TypeOK
  <2>3. s # NoService
    BY InterceptAssumption
  <2>4. Cardinality(rem[p] \ {s}) = Cardinality(rem[p]) - 1
    BY <1>n, <2>1, FS_RemoveElement
  <2>5. RestoreLeft(p) = 2 * Cardinality(rem[p]) - 0
    BY <2>1 DEF RestoreLeft
  <2>6. \/ RestoreLeft(p)' = 2 * Cardinality(rem[p]) - 1
        \/ RestoreLeft(p)' = 2 * (Cardinality(rem[p]) - 1) - 0
    BY <2>2, <2>3, <2>4 DEF RestoreLeft
  <2>7. RestoreLeft(p)' < RestoreLeft(p)
    BY <1>n, <2>5, <2>6
  <2>. QED
    BY <1>r, <2>1, <2>7
<1>8. CASE RestoreState(p)
  <2>1. rsvc[p] # NoService /\ rsvc[p] \in rem[p] /\ UNCHANGED <<pc, goVars, armed>>
    BY <1>8 DEF RestoreState, capVars, LifeInv
  <2>2. rsvc'[p] = NoService /\ rem'[p] = rem[p] \ {rsvc[p]}
    BY <1>8, <1>t DEF RestoreState, TypeOK
  <2>4. Cardinality(rem[p] \ {rsvc[p]}) = Cardinality(rem[p]) - 1
    BY <1>n, <2>1, FS_RemoveElement
  <2>5. RestoreLeft(p)' < RestoreLeft(p)
    BY <1>n, <2>1, <2>2, <2>4 DEF RestoreLeft
  <2>. QED
    BY <1>r, <2>1, <2>5
<1>9. CASE RestoreDone(p)
  <2>1. /\ pc[p] \in {"undo", "revert"} /\ pc'[p] \in {"unwind", "load"}
        /\ UNCHANGED <<goVars, restVars>>
    BY <1>9, <1>t DEF RestoreDone, InstallFailed, Goto, TypeOK
  <2>2. Cardinality(armed'[p]) \in Nat
    BY ServiceCounts, <1>9, <1>t, FS_EmptySet DEF RestoreDone, TypeOK
  <2>3. MainLeft(p)' < MainLeft(p)
    BY <1>n, <2>1, <2>2, MainRanks DEF MainLeft
  <2>. QED
    BY <1>m, <2>1, <2>3
<1>10. CASE RecordProxy(p)
  <2>1. pc[p] = "proxyRec" /\ UNCHANGED <<goVars, armed, rsvc>> /\ MainLeft(p) = 6 + 2 * NumServices
    BY <1>10, <1>n, MainRanks DEF RecordProxy, capVars, MainLeft
  <2>2. CASE pc'[p] = "listen" /\ rem' = rem
    <3>1. MainLeft(p)' < MainLeft(p)
      BY <1>n, <2>1, <2>2, MainRanks DEF MainLeft
    <3>. QED
      BY <1>m, <2>1, <2>2, <3>1 DEF restVars
  <2>3. CASE pc'[p] = "revert" /\ rem'[p] = armed[p]
    <3>1. MainLeft(p)' = 4
      BY <1>n, <2>1, <2>3, MainRanks DEF MainLeft
    <3>2. RestoreLeft(p)' <= 2 * NumServices
      BY <1>n, <2>1, <2>3 DEF RestoreLeft
    <3>3. TeardownLeft(p)' = TeardownLeft(p) /\ HandlerLeft(p)' = HandlerLeft(p)
      BY <2>1 DEF TeardownLeft, HandlerLeft, goVars
    <3>. QED
      BY <1>0, <1>n, <1>y, <1>z, <2>1, <2>3, <3>1, <3>2, <3>3
  <2>. QED
    BY <1>10, <1>t, <2>2, <2>3 DEF RecordProxy, Goto, TypeOK
<1>11. CASE Listen(p) \/ ServeEnds(p)
  <2>1. /\ \/ pc[p] = "listen" /\ pc'[p] \in {"serve", "unwind"}
           \/ pc[p] = "serve" /\ pc'[p] = "unwind"
        /\ armed' = armed /\ UNCHANGED <<goVars, restVars>>
    BY <1>11, <1>t DEF Listen, ServeEnds, Goto, TypeOK, capVars
  <2>2. MainLeft(p)' < MainLeft(p)
    BY <1>n, <2>1, MainRanks DEF MainLeft
  <2>. QED
    BY <1>m, <2>1, <2>2
\* The handler goroutine, or whoever runs the teardown.
<1>h. ASSUME UNCHANGED <<pc, armed>>,
             HandlerLeft(p)' + TeardownLeft(p)' + RestoreLeft(p)'
                < HandlerLeft(p) + TeardownLeft(p) + RestoreLeft(p)
      PROVE  Less
  <2>1. MainLeft(p)' = MainLeft(p)
    BY <1>h DEF MainLeft
  <2>. QED
    BY <1>0, <1>h, <1>y, <1>z, <2>1
<1>hn. UNCHANGED pc => /\ HandlerLeft(p)' \in Nat /\ TeardownLeft(p)' \in Nat /\ RestoreLeft(p)' \in Nat
  BY <1>z
<1>12. CASE BeginTeardown(p)
  <2>1. /\ tdown[p] = "idle" /\ tdown'[p] = "redirect" /\ UNCHANGED <<pc, armed, handler, rsvc>>
        /\ rem'[p] = rem[p] \/ rem'[p] = armed[p]
    BY <1>12, <1>t DEF BeginTeardown, capVars, TypeOK
  <2>2. TeardownLeft(p) = 4 + 2 * NumServices /\ TeardownLeft(p)' = 3
    BY <2>1 DEF TeardownLeft
  <2>3. HandlerLeft(p)' = HandlerLeft(p)
    BY <2>1 DEF HandlerLeft
  <2>4. RestoreLeft(p)' <= RestoreLeft(p) + 2 * NumServices
    <3>1. CASE rem'[p] = rem[p]
      BY <1>0, <1>n, <2>1, <3>1 DEF RestoreLeft
    <3>2. CASE rem'[p] = armed[p]
      <4>1. RestoreLeft(p)' <= 2 * NumServices
        BY <1>n, <2>1, <3>2 DEF RestoreLeft
      <4>. QED
        BY <1>0, <1>n, <1>hn, <2>1, <4>1
    <3>. QED
      BY <2>1, <3>1, <3>2
  <2>. QED
    BY <1>0, <1>n, <1>h, <1>hn, <2>1, <2>2, <2>3, <2>4
<1>13. CASE RedirectReverted(p) \/ UninstallTrust(p) \/ CloseSinks(p)
  <2>1. /\ \/ tdown[p] = "redirect" /\ tdown'[p] = "trust"
           \/ tdown[p] = "trust" /\ tdown'[p] = "sinks"
           \/ tdown[p] = "sinks" /\ tdown'[p] = "done"
        /\ UNCHANGED <<pc, armed, handler, rem, rsvc>>
    BY <1>13, <1>t DEF RedirectReverted, UninstallTrust, CloseSinks, capVars, restVars, TypeOK
  <2>2. TeardownLeft(p)' < TeardownLeft(p)
    BY <2>1 DEF TeardownLeft
  <2>3. HandlerLeft(p)' = HandlerLeft(p) /\ RestoreLeft(p)' = RestoreLeft(p)
    BY <2>1 DEF HandlerLeft, RestoreLeft
  <2>. QED
    BY <1>0, <1>h, <1>hn, <2>1, <2>2, <2>3
<1>14. CASE Signal(p)
  <2>1. handler[p] = "wait" /\ handler'[p] = "in" /\ UNCHANGED <<pc, armed, tdown, rem, rsvc>>
    BY <1>14, <1>t DEF Signal, capVars, restVars, TypeOK
  <2>2. HandlerLeft(p)' < HandlerLeft(p)
    BY <2>1 DEF HandlerLeft
  <2>3. TeardownLeft(p)' = TeardownLeft(p) /\ RestoreLeft(p)' = RestoreLeft(p)
    BY <2>1 DEF TeardownLeft, RestoreLeft
  <2>. QED
    BY <1>0, <1>h, <1>hn, <2>1, <2>2, <2>3
<1>15. CASE Return(p) \/ HandlerExit(p) \/ Kill(p) \/ ForceUntrust(p)
  BY <1>x, <1>15 DEF Return, HandlerExit, Kill, ForceUntrust
<1>16. CASE LoadCA(p)
  <2>1. CASE \E how : Exit(p, how)
    BY <1>x, <2>1
  <2>2. CASE ~\E how : Exit(p, how)
    <3>1. /\ pc[p] = "load" /\ pc'[p] = "untrust" /\ armed' = armed
          /\ UNCHANGED <<goVars, restVars>>
      BY <1>16, <1>t, <2>2 DEF LoadCA, Goto, TypeOK, capVars
    <3>2. MainLeft(p)' < MainLeft(p)
      BY <1>n, <3>1, MainRanks DEF MainLeft
    <3>. QED
      BY <1>m, <3>1, <3>2
  <2>. QED
    BY <2>1, <2>2
<1>. QED
  BY <1>1, <1>2, <1>3, <1>4, <1>5, <1>6, <1>7, <1>8, <1>9, <1>10, <1>11, <1>12, <1>13, <1>14, <1>15, <1>16
  DEF Step

\* What a process has left is its own business.
LEMMA OthersLeft ==
    ASSUME NEW p \in Procs, Others(p), NEW r \in Procs, r # p
    PROVE  Left(r)' = Left(r)
<1>1. MainLeft(r)' = MainLeft(r) /\ HandlerLeft(r)' = HandlerLeft(r)
  BY DEF Others, MainLeft, HandlerLeft
<1>2. TeardownLeft(r)' = TeardownLeft(r) /\ RestoreLeft(r)' = RestoreLeft(r)
  BY DEF Others, TeardownLeft, RestoreLeft
<1>. QED
  BY <1>1, <1>2 DEF Others, Left

\* A call whose process is gone changes the machine, and no process.
LEMMA StrayLeaves ==
    ASSUME NEW c \in strays, Lands(c), NEW r \in Procs
    PROVE  Left(r)' = Left(r)
<1>1. UNCHANGED <<pc, goVars, recVars, capVars, restVars>>
  BY DEF Lands
<1>2. MainLeft(r)' = MainLeft(r) /\ HandlerLeft(r)' = HandlerLeft(r)
  BY <1>1 DEF MainLeft, HandlerLeft, goVars, capVars
<1>3. TeardownLeft(r)' = TeardownLeft(r) /\ RestoreLeft(r)' = RestoreLeft(r)
  BY <1>1 DEF TeardownLeft, RestoreLeft, goVars, restVars
<1>. QED
  BY <1>1, <1>2, <1>3 DEF Left

\* In every environment, for finitely many network services: each step of a process leaves
\* it fewer steps, and no step of another more; together with ProcessNeverStuck, and what
\* AlwaysReverted says of the state it ends in, what StopDisarms needs but an induction over
\* their number (runIntercept, InstallProxy, restore, teardown, runInterceptUninstall).
THEOREM ProcessDescends == ASSUME IsFiniteSet(Services) PROVE Spec => [][Descends]_vars
<1>1. TypeInv /\ TypeOK' /\ LifeAll /\ LifeAll' /\ [Next]_vars => [Descends]_vars
  <2>1. SUFFICES ASSUME TypeInv, TypeOK', LifeAll, LifeAll', Next, NEW r \in Procs, pc[r] # "off"
                 PROVE  /\ Left(r)' \in Nat /\ Left(r)' <= Left(r)
                        /\ Step(r) \/ ServeEnds(r) \/ Signal(r) \/ Kill(r) => Left(r)' < Left(r)
    BY DEF Descends
  <2>2. CASE Step(r) \/ ServeEnds(r) \/ Signal(r) \/ Kill(r)
    <3>1. Left(r)' \in Nat /\ Left(r)' < Left(r)
      BY <2>1, <2>2, OwnDescends DEF LifeAll
    <3>2. Left(r) \in Nat
      BY <2>1, LeftParts DEF LifeAll, TypeInv
    <3>. QED
      BY <3>1, <3>2
  <2>3. CASE ~(Step(r) \/ ServeEnds(r) \/ Signal(r) \/ Kill(r))
    <3>1. ASSUME NEW p \in Procs,
                 \/ \E m \in {"session", "uninstall"} : Launch(p, m)
                 \/ Step(p) \/ ServeEnds(p) \/ Signal(p) \/ Kill(p)
          PROVE  Left(r)' = Left(r)
      <4>1. ~ \E m \in {"session", "uninstall"} : Launch(r, m)
        BY <2>1 DEF Launch
      <4>2. r # p
        BY <2>3, <3>1, <4>1
      <4>. QED
        BY <2>1, <3>1, <4>2, OthersKeep, OthersLeft DEF TypeInv
    <3>2. ASSUME NEW c \in strays, Lands(c) PROVE Left(r)' = Left(r)
      BY <3>2, StrayLeaves
    <3>3. Left(r)' = Left(r)
      BY <2>1, <3>1, <3>2 DEF Next
    <3>4. Left(r) \in Nat
      BY <2>1, LeftParts DEF LifeAll, TypeInv
    <3>. QED
      BY <2>3, <3>3, <3>4
  <2>. QED
    BY <2>2, <2>3
<1>2. Init => TypeInv
  BY TypeInit
<1>3. TypeInv /\ [Next]_vars => TypeInv'
  BY TypeStep
<1>. QED
  BY <1>1, <1>2, <1>3, LifeHolds, TypeCorrect, PTL DEF Spec

-----------------------------------------------------------------------------
(* The daemon. *)

\* The goroutines of a process end with it.
OffIsBlank == \A p \in Procs : pc[p] = "off" => handler[p] = "none" /\ tdown[p] = "idle"

\* Who runs, by where the commands are.
DaemonPlace ==
    /\ \A p \in Procs : p \notin {Daemon, Admin} => pc[p] = "off"
    /\ pc[Admin] # "off" <=> admin = "uRevert"
    /\ pc[Admin] # "off" => mode[Admin] = "uninstall"
    /\ admin = "uRevert" => plist = "absent"
    /\ admin \in {"uRemove", "uRevert"} /\ ~gaveUp => ~loaded /\ pc[Daemon] = "off"
    /\ removed => admin = "idle" /\ plist = "absent"
    /\ removed /\ ~gaveUp => ~loaded /\ AllOff /\ (trusted => lastExit = "stray")

\* SIGTERM before the session's handler is set.
KilledInSetup == /\ pc[Daemon] = "setup" /\ Exit(Daemon, "other")
                 /\ UNCHANGED <<proxy, trusted, caOnDisk, strays>>

\* A process that is off does nothing, and no other process leaves it.
LEMMA OwnStep ==
    ASSUME TypeOK, OffIsBlank, NEW p \in Procs,
           Step(p) \/ ServeEnds(p) \/ Kill(p) \/ Signal(p)
    PROVE  /\ pc[p] # "off"
           /\ \A r \in Procs : r # p => pc'[r] = pc[r] /\ handler'[r] = handler[r] /\ tdown'[r] = tdown[r]
           /\ pc'[p] = "off" => handler'[p] = "none" /\ tdown'[p] = "idle"
           /\ pc'[p] = "off" \/ mode'[p] = mode[p]
           /\ \A r \in Procs : r # p => mode'[r] = mode[r]
<1>. DEFINE Own == /\ pc[p] # "off"
                   /\ \A r \in Procs : r # p => pc'[r] = pc[r] /\ handler'[r] = handler[r] /\ tdown'[r] = tdown[r]
                   /\ pc'[p] = "off" => handler'[p] = "none" /\ tdown'[p] = "idle"
                   /\ pc'[p] = "off" \/ mode'[p] = mode[p]
                   /\ \A r \in Procs : r # p => mode'[r] = mode[r]
<1>1. SUFFICES Own
  OBVIOUS
<1>. USE DEF TypeOK, OffIsBlank, Goto, osVars, goVars, recVars, capVars, restVars, pastVars
<1>2. ASSUME NEW how, Exit(p, how), pc[p] # "off" PROVE Own
  BY <1>2 DEF Exit
<1>3. ASSUME NEW l, l # "off", Goto(p, l), pc[p] # "off", UNCHANGED goVars PROVE Own
  BY <1>3
<1>4. CASE Setup(p)
  <2>1. CASE Exit(p, "other")
    BY <1>2, <1>4, <2>1 DEF Setup
  <2>2. CASE ~Exit(p, "other")
    BY <1>4, <2>2 DEF Setup
  <2>. QED
    BY <2>1, <2>2
<1>5. CASE InstallTrust(p) \/ RecordTrust(p) \/ Listen(p) \/ ServeEnds(p)
  BY <1>5, <1>3 DEF InstallTrust, RecordTrust, Listen, ServeEnds
<1>6. CASE NetworkServices(p) \/ RestoreDone(p)
  <2>1. InstallFailed(p) # "off"
    BY DEF InstallFailed
  <2>. QED
    BY <1>3, <1>6, <2>1 DEF NetworkServices, RestoreDone
<1>7. CASE GetProxyState(p) \/ SetProxy(p) \/ RecordProxy(p)
  BY <1>3, <1>7 DEF GetProxyState, SetProxy, RecordProxy, Undo
<1>8. ASSUME NEW s \in Services, RestoreServer(p, s) PROVE Own
  BY <1>8 DEF RestoreServer, Restoring
<1>9. CASE RestoreState(p)
  BY <1>9 DEF RestoreState, Restoring
<1>10. CASE BeginTeardown(p) \/ RedirectReverted(p) \/ UninstallTrust(p) \/ CloseSinks(p) \/ Signal(p)
  BY <1>10 DEF BeginTeardown, RedirectReverted, UninstallTrust, CloseSinks, Signal
<1>11. CASE Return(p) \/ HandlerExit(p) \/ Kill(p)
  BY <1>2, <1>11 DEF Return, HandlerExit, Kill
<1>12. CASE LoadCA(p)
  <2>1. CASE \E how : Exit(p, how)
    BY <1>2, <1>12, <2>1 DEF LoadCA
  <2>2. CASE ~\E how : Exit(p, how)
    BY <1>12, <2>2 DEF LoadCA
  <2>. QED
    BY <2>1, <2>2
<1>13. CASE ForceUntrust(p)
  BY <1>2, <1>13 DEF ForceUntrust
<1>. QED
  BY <1>4, <1>5, <1>6, <1>7, <1>8, <1>9, <1>10, <1>11, <1>12, <1>13 DEF Step

\* A step of the daemon's world is one of Intercept, or a SIGTERM before there is a
\* handler; while untidy stays false it is one of an undisturbed process.
LEMMA DaemonSteps ==
    ASSUME TypeOK, OffIsBlank, DaemonPlace, [DaemonNext]_allVars
    PROVE  /\ [Next]_vars \/ KilledInSetup
           /\ ~untidy' => ~untidy /\ (strays = {} => [CalmNext]_vars \/ KilledInSetup)
<1>k. Daemon \in Procs /\ Admin \in Procs
  BY DaemonAssumption
<1>1. CASE Start
  <2>1. Launch(Daemon, "session") /\ (~untidy' => ~untidy /\ pc[Daemon] = "off" /\ pc[Admin] = "off")
    BY <1>1 DEF Start
  <2>2. ~untidy' => AllOff
    BY <2>1 DEF AllOff, DaemonPlace
  <2>. QED
    BY <1>k, <2>1, <2>2 DEF Next, CalmNext
<1>2. CASE Terminate
  <2>1. Signal(Daemon) \/ KilledInSetup
    BY <1>2 DEF Terminate, KilledInSetup
  <2>2. ~untidy' => ~untidy /\ pc[Daemon] \notin Arming
    BY <1>2 DEF Terminate
  <2>. QED
    BY <1>k, <2>1, <2>2 DEF Next, CalmNext
<1>3. CASE Shutdown \/ Boot \/ BeginInstall \/ BeginUninstall \/ WritePlist \/ Bootout \/ BootoutOver
             \/ Bootstrap \/ UNCHANGED allVars
  BY <1>3 DEF Shutdown, Boot, BeginInstall, BeginUninstall, WritePlist, Bootout, BootoutOver, Bootstrap,
              allVars, daemonVars
<1>4. CASE RemovePlist
  <2>1. CASE UNCHANGED <<vars, untidy>>
    BY <2>1
  <2>2. CASE BeginRevert
    <3>1. Launch(Admin, "uninstall") /\ (~untidy' => ~untidy /\ pc[Daemon] = "off")
      BY <2>2 DEF BeginRevert
    <3>2. ~untidy' => AllOff
      BY <3>1 DEF AllOff, DaemonPlace, Launch
    <3>. QED
      BY <1>k, <3>1, <3>2 DEF Next, CalmNext
  <2>. QED
    BY <1>4, <2>1, <2>2 DEF RemovePlist
<1>5. ASSUME NEW p \in {Daemon, Admin}, ProcStep(p)
      PROVE  /\ [Next]_vars
             /\ ~untidy' => ~untidy /\ [CalmNext]_vars
  BY <1>k, <1>5 DEF ProcStep, Next, CalmNext
<1>6. CASE StrayStep
  <2>1. Next /\ UNCHANGED untidy /\ strays # {}
    BY <1>6 DEF StrayStep, Next, daemonVars
  <2>. QED
    BY <2>1
<1>. QED
  BY <1>1, <1>2, <1>3, <1>4, <1>5, <1>6 DEF DaemonNext, AdminStep

\* No step starts a process that should not run, or undoes an uninstallation.
LEMMA DaemonPlaceStep ==
    ASSUME TypeOK, OffIsBlank, UninstallUntrusts', DaemonPlace, [DaemonNext]_allVars
    PROVE  OffIsBlank' /\ DaemonPlace'
<1>k. Daemon \in Procs /\ Admin \in Procs /\ Daemon # Admin
  BY DaemonAssumption
<1>1. ASSUME UNCHANGED vars
      PROVE  /\ OffIsBlank' /\ (AllOff' <=> AllOff)
             /\ pc' = pc /\ mode' = mode /\ trusted' = trusted /\ lastExit' = lastExit
  BY <1>1 DEF vars, OffIsBlank, AllOff
\* The daemon goes on, or ends.
<1>2. ASSUME UNCHANGED <<plist, loaded, admin, removed, gaveUp>>, pc[Daemon] # "off",
             \A r \in Procs : r # Daemon => pc'[r] = pc[r] /\ mode'[r] = mode[r]
      PROVE  DaemonPlace'
  <2>1. ~AllOff
    BY <1>k, <1>2 DEF AllOff
  <2>2. gaveUp \/ (~removed /\ admin \notin {"uRemove", "uRevert"})
    BY <1>2, <2>1 DEF DaemonPlace
  <2>3. pc'[Admin] = pc[Admin] /\ mode'[Admin] = mode[Admin]
    BY <1>k, <1>2
  <2>4. \A r \in Procs : r \notin {Daemon, Admin} => pc'[r] = "off"
    BY <1>2 DEF DaemonPlace
  <2>. QED
    BY <1>2, <2>2, <2>3, <2>4 DEF DaemonPlace
<1>3. CASE Start
  <2>1. /\ pc' = [pc EXCEPT ![Daemon] = "setup"] /\ mode' = [mode EXCEPT ![Daemon] = "session"]
        /\ UNCHANGED <<handler, tdown>>
        /\ loaded /\ UNCHANGED <<plist, loaded, admin, removed, gaveUp>>
    BY <1>3 DEF Start, Launch, Goto
  <2>2. OffIsBlank'
    BY <2>1 DEF OffIsBlank, TypeOK
  <2>3. DaemonPlace'
    BY <1>k, <2>1 DEF DaemonPlace, TypeOK
  <2>. QED
    BY <2>2, <2>3
<1>4. CASE Terminate
  <2>0. UNCHANGED <<plist, loaded, admin, removed, gaveUp>>
    BY <1>4 DEF Terminate
  <2>1. CASE Signal(Daemon)
    <3>1. /\ pc[Daemon] # "off"
          /\ \A r \in Procs : r # Daemon => pc'[r] = pc[r] /\ handler'[r] = handler[r] /\ tdown'[r] = tdown[r]
          /\ \A r \in Procs : r # Daemon => mode'[r] = mode[r]
          /\ pc'[Daemon] = "off" => handler'[Daemon] = "none" /\ tdown'[Daemon] = "idle"
      BY <1>k, <2>1, OwnStep
    <3>2. OffIsBlank'
      BY <3>1 DEF OffIsBlank
    <3>. QED
      BY <1>2, <2>0, <3>1, <3>2
  <2>2. CASE KilledInSetup
    <3>1. /\ pc[Daemon] # "off"
          /\ \A r \in Procs : r # Daemon => pc'[r] = pc[r] /\ handler'[r] = handler[r] /\ tdown'[r] = tdown[r]
          /\ \A r \in Procs : r # Daemon => mode'[r] = mode[r]
          /\ handler'[Daemon] = "none" /\ tdown'[Daemon] = "idle"
      BY <1>k, <2>2 DEF KilledInSetup, Exit, Goto, TypeOK
    <3>2. OffIsBlank'
      BY <3>1 DEF OffIsBlank
    <3>. QED
      BY <1>2, <2>0, <3>1, <3>2
  <2>. QED
    BY <1>4, <2>1, <2>2 DEF Terminate, KilledInSetup
<1>5. ASSUME NEW p \in {Daemon, Admin}, ProcStep(p) PROVE OffIsBlank' /\ DaemonPlace'
  <2>1. p \in Procs
    BY <1>k
  <2>2. UNCHANGED <<plist, loaded, gaveUp>>
    BY <1>5 DEF ProcStep
  <2>3. /\ pc[p] # "off"
        /\ \A r \in Procs : r # p => pc'[r] = pc[r] /\ handler'[r] = handler[r] /\ tdown'[r] = tdown[r]
        /\ pc'[p] = "off" => handler'[p] = "none" /\ tdown'[p] = "idle"
        /\ pc'[p] = "off" \/ mode'[p] = mode[p]
        /\ \A r \in Procs : r # p => mode'[r] = mode[r]
    BY <1>5, <2>1, OwnStep DEF ProcStep
  <2>4. OffIsBlank'
    BY <2>3 DEF OffIsBlank
  <2>5. CASE p = Daemon
    <3>1. UNCHANGED <<admin, removed>>
      BY <1>5, <1>k, <2>5 DEF ProcStep
    <3>. QED
      BY <1>2, <2>2, <2>3, <2>4, <2>5, <3>1
  <2>6. CASE p = Admin
    <3>1. admin = "uRevert" /\ plist = "absent" /\ ~removed
      BY <2>3, <2>6 DEF DaemonPlace
    <3>2. pc'[Daemon] = pc[Daemon] /\ \A r \in Procs : r \notin {Daemon, Admin} => pc'[r] = "off"
      BY <1>k, <2>3, <2>6 DEF DaemonPlace
    <3>3. CASE pc'[Admin] = "off"
      <4>1. admin' = "idle" /\ removed' = (lastExit' = "uninstalled")
        BY <1>5, <2>6, <3>3 DEF ProcStep
      <4>2. pc'[Daemon] = "off" => AllOff'
        BY <3>2, <3>3 DEF AllOff
      <4>3. AllOff' /\ removed' => ~trusted'
        BY <4>1 DEF UninstallUntrusts
      <4>. QED
        BY <2>2, <2>4, <3>1, <3>2, <3>3, <4>1, <4>2, <4>3 DEF DaemonPlace
    <3>4. CASE pc'[Admin] # "off"
      <4>1. UNCHANGED <<admin, removed>> /\ mode'[Admin] = mode[Admin]
        BY <1>5, <2>3, <2>6, <3>4 DEF ProcStep
      <4>. QED
        BY <2>2, <2>3, <2>4, <2>6, <3>1, <3>2, <3>4, <4>1 DEF DaemonPlace
    <3>. QED
      BY <3>3, <3>4
  <2>. QED
    BY <2>5, <2>6
<1>6. CASE RemovePlist
  <2>0. /\ admin = "uRemove" /\ pc[Admin] = "off" /\ ~removed
        /\ UNCHANGED <<loaded, removed, gaveUp>>
    BY <1>6 DEF RemovePlist, DaemonPlace
  <2>1. CASE UNCHANGED vars /\ admin' = "idle"
    BY <1>1, <2>0, <2>1 DEF DaemonPlace
  <2>2. CASE BeginRevert /\ plist' = "absent"
    <3>1. /\ pc' = [pc EXCEPT ![Admin] = "list"] /\ mode' = [mode EXCEPT ![Admin] = "uninstall"]
          /\ UNCHANGED <<handler, tdown>> /\ admin' = "uRevert"
      BY <2>2 DEF BeginRevert, Launch, Goto
    <3>2. OffIsBlank'
      BY <3>1 DEF OffIsBlank, TypeOK
    <3>. QED
      BY <1>k, <2>0, <2>2, <3>1, <3>2 DEF DaemonPlace, TypeOK
  <2>. QED
    BY <1>6, <2>1, <2>2 DEF RemovePlist
<1>7. CASE StrayStep
  <2>1. /\ UNCHANGED <<pc, mode, handler, tdown>> /\ lastExit' = "stray"
        /\ UNCHANGED <<plist, loaded, admin, removed, gaveUp>>
    BY <1>7 DEF StrayStep, Lands, goVars, daemonVars
  <2>2. AllOff' <=> AllOff
    BY <2>1 DEF AllOff
  <2>. QED
    BY <2>1, <2>2 DEF DaemonPlace, OffIsBlank
<1>8. CASE UNCHANGED allVars
  <2>1. UNCHANGED vars /\ UNCHANGED <<plist, loaded, admin, removed, gaveUp>>
    BY <1>8 DEF allVars, daemonVars
  <2>. QED
    BY <1>1, <2>1 DEF DaemonPlace
<1>9. CASE Shutdown \/ Boot \/ BeginInstall \/ BeginUninstall \/ WritePlist \/ Bootout \/ BootoutOver
             \/ Bootstrap
  <2>1. UNCHANGED vars
    BY <1>9 DEF Shutdown, Boot, BeginInstall, BeginUninstall, WritePlist, Bootout, BootoutOver, Bootstrap
  <2>2. CASE Shutdown \/ Boot
    BY <1>1, <2>1, <2>2 DEF Shutdown, Boot, Unload, DaemonPlace
  <2>3. CASE BeginInstall \/ BeginUninstall \/ WritePlist
    BY <1>1, <2>1, <2>3 DEF BeginInstall, BeginUninstall, WritePlist, DaemonPlace
  <2>4. CASE Bootout \/ BootoutOver \/ Bootstrap
    <3>0. ~removed /\ pc[Admin] = "off"
      BY <2>4 DEF Bootout, BootoutOver, Bootstrap, DaemonPlace
    <3>1. CASE Bootout
      BY <1>1, <2>1, <3>0, <3>1 DEF Bootout, Unload, DaemonPlace
    <3>2. CASE BootoutOver
      BY <1>1, <2>1, <3>0, <3>2 DEF BootoutOver, DaemonPlace
    <3>3. CASE Bootstrap
      BY <1>1, <2>1, <3>0, <3>3 DEF Bootstrap, Bootstrapped, DaemonPlace
    <3>. QED
      BY <2>4, <3>1, <3>2, <3>3
  <2>. QED
    BY <1>1, <1>9, <2>1, <2>2, <2>3, <2>4
<1>. QED
  BY <1>3, <1>4, <1>5, <1>6, <1>7, <1>8, <1>9 DEF DaemonNext, AdminStep

-----------------------------------------------------------------------------

\* What holds of the daemon's world in every environment.
DaemonBase == /\ DaemonTypeOK /\ TypeInv /\ CAOnDiskInv /\ UninstallUntrusts
              /\ OffIsBlank /\ DaemonPlace

\* No tool that fails, and no crash, disturbs it.
LEMMA DaemonBaseStep == ASSUME DaemonBase, [DaemonNext]_allVars PROVE DaemonBase'
<1>. USE DEF DaemonBase
<1>1. TypeOK
  BY DEF TypeInv
<1>2. [Next]_vars \/ KilledInSetup
  BY <1>1, DaemonSteps
<1>3. TypeInv'
  <2>1. CASE KilledInSetup
    BY <2>1, SettingFacts DEF KilledInSetup, Exit, Goto, TypeInv, TypeOK, PC
  <2>. QED
    BY <1>2, <2>1, TypeStep
<1>4. CAOnDiskInv' /\ UninstallUntrusts'
  <2>1. CASE KilledInSetup
    BY <1>1, <2>1 DEF KilledInSetup, Exit, Goto, CAOnDiskInv, UninstallUntrusts, TypeOK
  <2>. QED
    BY <1>1, <1>2, <2>1, UntrustStep
<1>5. OffIsBlank' /\ DaemonPlace'
  BY <1>1, <1>4, DaemonPlaceStep
<1>6. DaemonTypeOK'
  <2>0. TypeOK'
    BY <1>3 DEF TypeInv
  <2>. USE DEF DaemonTypeOK
  <2>1. CASE Start \/ Terminate \/ Shutdown \/ Boot
    BY <2>0, <2>1 DEF Start, Terminate, Shutdown, Boot, Unload, daemonVars
  <2>2. CASE BeginInstall \/ BeginUninstall \/ WritePlist \/ Bootout \/ BootoutOver
    BY <2>0, <2>2 DEF BeginInstall, BeginUninstall, WritePlist, Bootout, BootoutOver, Unload
  <2>3. CASE Bootstrap \/ RemovePlist
    BY <2>0, <2>3 DEF Bootstrap, Bootstrapped, RemovePlist, BeginRevert
  <2>4. CASE \E p \in {Daemon, Admin} : ProcStep(p)
    BY <2>0, <2>4 DEF ProcStep
  <2>5. CASE StrayStep \/ UNCHANGED allVars
    BY <2>0, <2>5 DEF StrayStep, allVars, daemonVars
  <2>. QED
    BY <2>1, <2>2, <2>3, <2>4, <2>5 DEF DaemonNext, AdminStep
<1>. QED
  BY <1>3, <1>4, <1>5, <1>6

\* DaemonBase holds throughout, in every environment.
LEMMA DaemonBaseHolds == DaemonSpec => []DaemonBase
<1>1. DaemonInit => DaemonBase
  <2>1. Init => TypeInv /\ CAOnDiskInv /\ UninstallUntrusts /\ OffIsBlank
    BY TypeInit DEF Init, CAOnDiskInv, UninstallUntrusts, OffIsBlank
  <2>2. DaemonInit => DaemonPlace
    BY DaemonAssumption DEF DaemonInit, Init, DaemonPlace
  <2>. QED
    BY <2>1, <2>2 DEF DaemonBase, DaemonInit, DaemonTypeOK, TypeInv
<1>2. DaemonBase /\ [DaemonNext]_allVars => DaemonBase'
  BY DaemonBaseStep
<1>. QED
  BY <1>1, <1>2, PTL DEF DaemonSpec

\* What an undisturbed process guarantees, while none was disturbed.
DaemonInv == DaemonBase /\ (~untidy => IInv)

\* launchd's starts, stops and restarts, and the administrator's commands, keep DaemonInv.
LEMMA DaemonInvStep ==
    ASSUME "revertError" \notin Faults, "late" \notin Faults, DaemonInv, DaemonBase', [DaemonNext]_allVars
    PROVE  DaemonInv'
<1>. USE DEF DaemonInv
<1>1. TypeOK /\ TypeOK' /\ OffIsBlank /\ DaemonPlace
  BY DEF DaemonBase, TypeInv
<1>2. ~untidy' => ~untidy /\ (strays = {} => [CalmNext]_vars \/ KilledInSetup)
  BY <1>1, DaemonSteps
<1>3. ASSUME ~untidy' PROVE IInv'
  <2>1. IInv /\ strays = {}
    BY <1>2, <1>3 DEF IInv
  <2>2. CASE KilledInSetup
    <3>1. Daemon \in Procs /\ pc[Daemon] = "setup" /\ ProcInv(Daemon)
      BY <2>1, <2>2, DaemonAssumption DEF KilledInSetup, IInv
    <3>2. ~trusted
      BY <3>1 DEF ProcInv, ControlInv, TrustInv
    <3>3. \A s \in Services : Good(s)
      BY <3>1 DEF ProcInv, CaptureInv
    <3>. QED
      BY <1>1, <2>1, <2>2, <3>1, <3>2, <3>3, OneLeaves DEF KilledInSetup
  <2>3. CASE [CalmNext]_vars
    BY <1>1, <2>1, <2>3, Inductive
  <2>. QED
    BY <1>2, <1>3, <2>1, <2>2, <2>3
<1>. QED
  BY <1>3

\* DaemonInv holds throughout when no revert is refused or applies late.
LEMMA DaemonInvKept ==
    ASSUME "revertError" \notin Faults, "late" \notin Faults PROVE DaemonSpec => []DaemonInv
<1>1. DaemonInit /\ DaemonBase => DaemonInv
  BY InterceptAssumption DEF DaemonInit, DaemonInv, Init, IInv, Solo, Blank, Reverted, PutBack
<1>2. DaemonInv /\ DaemonBase' /\ [DaemonNext]_allVars => DaemonInv'
  BY DaemonInvStep
<1>. QED
  BY <1>1, <1>2, DaemonBaseHolds, PTL DEF DaemonSpec

\* In every environment, tools that fail, report a failure late or outlive their process
\* included: an --uninstall-daemon that reports success leaves no definition to arm the machine
\* at the next boot; and, unless launchctl left it the job or the daemon, no job, no process
\* and no CA that anything but a call of a dead process made trusted again (runUninstallDaemon:
\* what fails is reported, not passed over, but for bootout).
THEOREM UninstallLeavesNothing ==
    DaemonSpec => [](removed /\ admin = "idle"
                         => /\ plist # "whole"
                            /\ ~gaveUp => ~loaded /\ AllOff /\ (trusted => lastExit = "stray"))
<1>1. DaemonBase => (removed /\ admin = "idle"
                         => /\ plist # "whole"
                            /\ ~gaveUp => ~loaded /\ AllOff /\ (trusted => lastExit = "stray"))
  BY DEF DaemonBase, DaemonPlace
<1>. QED
  BY <1>1, DaemonBaseHolds, PTL

\* The same, and the user's proxy settings, unless launchctl left the job or the daemon or the
\* latter was disturbed (runUninstallDaemon), as long as the tools do what they report.
THEOREM UninstallReverts ==
    ASSUME "revertError" \notin Faults, "late" \notin Faults
    PROVE  DaemonSpec => []UninstalledIsReverted
<1>1. DaemonInv => UninstalledIsReverted
  BY DEF DaemonInv, DaemonBase, DaemonPlace, UninstalledIsReverted, IInv, Reverted
<1>. QED
  BY <1>1, DaemonInvKept, PTL

\* Where the daemon is not loaded and nothing runs nobody is decrypting, unless it crashed was
\* stopped while arming or ran beside the forced revert (InstallDaemon, UninstallDaemon, the
\* session's teardown): the tools do what they report.
THEOREM UnloadedIsDisarmed ==
    ASSUME "revertError" \notin Faults, "late" \notin Faults
    PROVE  DaemonSpec => []NothingLoadedNothingArmed
<1>1. DaemonInv => NothingLoadedNothingArmed
  <2>1. SUFFICES ASSUME DaemonInv, AllOff, ~untidy
                 PROVE  ~trusted /\ \A s \in Services : ~Redirected(proxy[s])
    BY DEF NothingLoadedNothingArmed
  <2>2. ~trusted /\ \A s \in Services : PutBack(proxy[s], orig[s]) /\ orig[s].srv # Ours
    BY <2>1 DEF DaemonInv, IInv, Reverted
  <2>. QED
    BY <2>2 DEF PutBack, Redirected
<1>. QED
  BY <1>1, DaemonInvKept, PTL

-----------------------------------------------------------------------------
(* --uninstall-daemon ends: as StopDisarms, UninstallEnds is an induction over *)
(* the number of steps left, of which the two halves are proved.               *)

\* When a command can go on by itself: the guards of AdminStep.
AdminGuard == \/ admin \in {"iWrite", "iBootout", "iWait", "iBootstrap", "uBootout", "uWait"}
              \/ /\ admin = "uRemove"
                 /\ \/ pc[Admin] = "off" /\ (AllOff \/ "overlap" \in Faults)
                    \/ plist # "absent"

\* A command under way never waits, neither for launchd nor for the daemon.
CommandNeverStuck == admin # "idle" => AdminGuard \/ StepGuard(Admin)

\* The most steps that the command, with its forced revert, has left.
AdminLeft == CASE admin = "iWrite"     -> 4
               [] admin = "iBootout"   -> 3
               [] admin = "iWait"      -> 2
               [] admin = "iBootstrap" -> 1
               [] admin = "uBootout"   -> 17 + 8 * NumServices
               [] admin = "uWait"      -> 16 + 8 * NumServices
               [] admin = "uRemove"    -> 15 + 8 * NumServices
               [] OTHER                -> 0

CommandLeft == AdminLeft + Left(Admin)

\* Each of its own steps brings its end closer; nobody else's puts it off.
CommandDescends ==
    admin # "idle" => /\ CommandLeft' \in Nat /\ CommandLeft' <= CommandLeft
                      /\ AdminStep \/ ProcStep(Admin) => CommandLeft' < CommandLeft

\* Killed before it has a handler, the daemon is like a process that was never started.
LEMMA KilledIsOut ==
    ASSUME TypeOK, KilledInSetup
    PROVE  /\ Daemon \in Procs /\ pc[Daemon] = "setup" /\ pc'[Daemon] = "off"
           /\ LifeInv(Daemon)' /\ Others(Daemon)
<1>1. Daemon \in Procs
  BY DaemonAssumption
<1>. QED
  BY <1>1 DEF KilledInSetup, Exit, Goto, TypeOK, LifeInv, Restoring, Others

\* Each process has what its place in the command promises, launchd's too.
LEMMA DaemonLifeStep ==
    ASSUME DaemonBase, LifeAll, [DaemonNext]_allVars PROVE LifeAll'
<1>1. [Next]_vars \/ KilledInSetup
  BY DaemonSteps DEF DaemonBase, TypeInv
<1>2. CASE [Next]_vars
  BY <1>2, LifeKept DEF DaemonBase, LifeAll
<1>3. CASE KilledInSetup
  <2>1. LifeInv(Daemon)' /\ Others(Daemon)
    BY <1>3, KilledIsOut DEF DaemonBase, TypeInv
  <2>2. ASSUME NEW r \in Procs, r # Daemon PROVE LifeInv(r)'
    BY <2>1, <2>2 DEF Others, LifeAll, LifeInv, Restoring
  <2>. QED
    BY <2>1, <2>2 DEF LifeAll
<1>. QED
  BY <1>1, <1>2, <1>3

\* LifeAll holds throughout in the daemon's world too.
LEMMA DaemonLifeHolds == DaemonSpec => []LifeAll
<1>1. DaemonInit => LifeAll
  BY DEF DaemonInit, Init, LifeAll, LifeInv
<1>2. DaemonBase /\ LifeAll /\ [DaemonNext]_allVars => LifeAll'
  BY DaemonLifeStep
<1>. QED
  BY <1>1, <1>2, DaemonBaseHolds, PTL DEF DaemonSpec

\* In every environment in which processes may run side by side, as the forced revert and a
\* daemon that was not stopped do: while --install-daemon or --uninstall-daemon runs, the
\* command or its forced revert can go on (runLaunchctl's timeout, runUninstallDaemon), whether
\* launchctl answers or not and whatever the daemon is at.
THEOREM CommandIsNeverStuck ==
    ASSUME "overlap" \in Faults PROVE DaemonSpec => []CommandNeverStuck
<1>1. ASSUME DaemonBase, LifeAll, admin # "idle" PROVE AdminGuard \/ StepGuard(Admin)
  <2>t. Admin \in Procs /\ TypeOK /\ LifeInv(Admin)
    BY <1>1, DaemonAssumption DEF DaemonBase, TypeInv, LifeAll
  <2>1. CASE admin # "uRevert"
    BY <1>1, <2>1 DEF AdminGuard, DaemonBase, DaemonPlace, DaemonTypeOK
  <2>2. CASE admin = "uRevert"
    <3>1. pc[Admin] # "off" /\ pc[Admin] # "serve"
      BY <1>1, <2>2, <2>t DEF DaemonBase, DaemonPlace, LifeInv
    <3>. QED
      BY <2>t, <3>1, CanGoOn
  <2>. QED
    BY <2>1, <2>2
<1>2. DaemonBase /\ LifeAll => CommandNeverStuck
  BY <1>1 DEF CommandNeverStuck
<1>. QED
  BY <1>2, DaemonBaseHolds, DaemonLifeHolds, PTL

\* What a process has left is a number, of which a forced revert has this many at its start.
LEMMA LeftIsNat ==
    ASSUME IsFiniteSet(Services), TypeOK, LifeAll, NEW p \in Procs PROVE Left(p) \in Nat
<1>1. CASE pc[p] = "off"
  BY <1>1 DEF Left
<1>2. CASE pc[p] # "off"
  BY <1>2, LeftParts DEF LifeAll
<1>. QED
  BY <1>1, <1>2

LEMMA LeftIsNatNext ==
    (IsFiniteSet(Services) /\ TypeOK /\ LifeAll => \A p \in Procs : Left(p) \in Nat)'
<1>1. IsFiniteSet(Services) /\ TypeOK /\ LifeAll => \A p \in Procs : Left(p) \in Nat
  BY LeftIsNat
<1>. QED
  BY <1>1, PTL

LEMMA LeftAtList ==
    ASSUME IsFiniteSet(Services), TypeOK, LifeAll, NEW p \in Procs, pc[p] = "list"
    PROVE  Left(p) <= 14 + 8 * NumServices
<1>1. LifeInv(p) /\ NumServices \in Nat /\ Cardinality(armed[p]) \in Nat
  BY ServiceCounts DEF LifeAll
<1>2. MainLeft(p) = 8 + 4 * NumServices
  BY <1>1, MainRanks DEF MainLeft
<1>. QED
  BY <1>1, <1>2, LeftParts

LEMMA LeftAtListNext ==
    (IsFiniteSet(Services) /\ TypeOK /\ LifeAll
        => \A p \in Procs : pc[p] = "list" => Left(p) <= 14 + 8 * NumServices)'
<1>1. IsFiniteSet(Services) /\ TypeOK /\ LifeAll
        => \A p \in Procs : pc[p] = "list" => Left(p) <= 14 + 8 * NumServices
  BY LeftAtList
<1>. QED
  BY <1>1, PTL

\* Whoever takes it, a step does not put off the end of a command, and its own bring it closer.
LEMMA CommandStep ==
    ASSUME IsFiniteSet(Services), DaemonBase, DaemonBase', LifeAll, LifeAll', DaemonNext, admin # "idle"
    PROVE  /\ CommandLeft' \in Nat /\ CommandLeft' <= CommandLeft
           /\ AdminStep \/ ProcStep(Admin) => CommandLeft' < CommandLeft
<1>. DEFINE Less == CommandLeft' \in Nat /\ CommandLeft' < CommandLeft
            Same == CommandLeft' \in Nat /\ CommandLeft' = CommandLeft
<1>k. Daemon \in Procs /\ Admin \in Procs /\ Daemon # Admin
  BY DaemonAssumption
<1>t. TypeOK /\ TypeOK' /\ LifeInv(Daemon) /\ LifeInv(Admin) /\ LifeInv(Daemon)' /\ LifeInv(Admin)'
  BY <1>k DEF DaemonBase, TypeInv, LifeAll
<1>n. NumServices \in Nat
  BY <1>k, <1>t, ServiceCounts
<1>0. AdminLeft \in Nat /\ Left(Admin) \in Nat /\ AdminLeft' \in Nat /\ Left(Admin)' \in Nat
  <2>1. AdminLeft \in Nat
    BY <1>n DEF AdminLeft
  <2>2. AdminLeft' \in Nat
    BY <1>n DEF AdminLeft
  <2>. QED
    BY <1>k, <1>t, <2>1, <2>2, LeftIsNat, LeftIsNatNext
\* The command's process does not move.
<1>a. ASSUME UNCHANGED vars PROVE Left(Admin)' = Left(Admin)
  <2>1. MainLeft(Admin)' = MainLeft(Admin) /\ HandlerLeft(Admin)' = HandlerLeft(Admin)
    BY <1>a DEF vars, MainLeft, HandlerLeft
  <2>2. TeardownLeft(Admin)' = TeardownLeft(Admin) /\ RestoreLeft(Admin)' = RestoreLeft(Admin)
    BY <1>a DEF vars, TeardownLeft, RestoreLeft
  <2>. QED
    BY <1>a, <2>1, <2>2 DEF vars, Left
\* Nothing of the command does.
<1>b. ASSUME admin' = admin, Left(Admin)' = Left(Admin) PROVE Same
  BY <1>0, <1>b DEF AdminLeft, CommandLeft
<1>c. ASSUME admin' = admin, Others(Daemon) PROVE Same
  <2>1. Left(Admin)' = Left(Admin)
    BY <1>c, <1>k, OthersLeft
  <2>. QED
    BY <1>b, <1>c, <2>1
<1>1. CASE WritePlist \/ Bootout \/ BootoutOver \/ Bootstrap
  <2>1. UNCHANGED vars
    BY <1>1 DEF WritePlist, Bootout, BootoutOver, Bootstrap
  <2>2. \/ admin = "iWrite" /\ admin' \in {"iBootout", "idle"}
        \/ admin = "iBootout" /\ admin' = "iWait"
        \/ admin = "uBootout" /\ admin' = "uWait"
        \/ admin = "iWait" /\ admin' = "iBootstrap"
        \/ admin = "uWait" /\ admin' = "uRemove"
        \/ admin = "iBootstrap" /\ admin' = "idle"
    BY <1>1 DEF WritePlist, Bootout, BootoutOver, Bootstrap
  <2>3. AdminLeft' < AdminLeft
    BY <1>n, <2>2 DEF AdminLeft
  <2>4. Less
    BY <1>0, <1>a, <2>1, <2>3 DEF CommandLeft
  <2>. QED
    BY <1>0, <2>4 DEF CommandLeft
<1>2. CASE RemovePlist
  <2>0. admin = "uRemove" /\ AdminLeft = 15 + 8 * NumServices
    BY <1>2 DEF RemovePlist, AdminLeft
  <2>1. CASE BeginRevert
    <3>1. pc[Admin] = "off" /\ pc'[Admin] = "list"
      BY <1>k, <1>t, <2>1 DEF BeginRevert, Launch, Goto, TypeOK
    <3>2. AdminLeft' = 0
      BY <2>1 DEF AdminLeft, BeginRevert
    <3>3. Left(Admin) = 0
      BY <3>1 DEF Left
    <3>4. Left(Admin)' <= 14 + 8 * NumServices
      BY <1>k, <1>t, <3>1, LeftAtListNext
    <3>5. Less
      BY <1>0, <1>n, <2>0, <3>2, <3>3, <3>4 DEF CommandLeft
    <3>. QED
      BY <1>0, <3>5 DEF CommandLeft
  <2>2. CASE admin' = "idle" /\ UNCHANGED vars
    <3>1. AdminLeft' = 0
      BY <2>2 DEF AdminLeft
    <3>2. Less
      BY <1>0, <1>a, <1>n, <2>0, <2>2, <3>1 DEF CommandLeft
    <3>. QED
      BY <1>0, <3>2 DEF CommandLeft
  <2>. QED
    BY <1>2, <2>1, <2>2 DEF RemovePlist
<1>3. CASE ProcStep(Admin)
  <2>1. Step(Admin) \/ ServeEnds(Admin)
    BY <1>3, <1>k DEF ProcStep
  <2>2. pc[Admin] # "off"
    BY <1>k, <1>t, <2>1, OwnStep DEF DaemonBase
  <2>3. Left(Admin)' < Left(Admin)
    BY <1>k, <1>t, <2>1, <2>2, OwnDescends DEF DaemonBase
  <2>4. AdminLeft = 0 /\ AdminLeft' = 0
    <3>1. admin = "uRevert"
      BY <2>2 DEF DaemonBase, DaemonPlace
    <3>2. admin' \in {"uRevert", "idle"}
      BY <1>3, <3>1 DEF ProcStep
    <3>. QED
      BY <3>1, <3>2 DEF AdminLeft
  <2>5. Less
    BY <1>0, <2>3, <2>4 DEF CommandLeft
  <2>. QED
    BY <1>0, <2>5 DEF CommandLeft
<1>4. ASSUME ~AdminStep, ~ProcStep(Admin) PROVE Same
  <2>1. CASE Shutdown \/ Boot \/ BeginInstall \/ BeginUninstall
    BY <2>1 DEF Shutdown, Boot, BeginInstall, BeginUninstall
  <2>2. CASE Start
    <3>1. Launch(Daemon, "session") /\ admin' = admin
      BY <2>2 DEF Start
    <3>. QED
      BY <1>c, <1>k, <1>t, <3>1, OthersKeep
  <2>3. CASE Terminate
    <3>1. (Signal(Daemon) \/ KilledInSetup) /\ admin' = admin
      BY <2>3 DEF Terminate, KilledInSetup
    <3>2. Others(Daemon)
      BY <1>k, <1>t, <3>1, OthersKeep, KilledIsOut
    <3>. QED
      BY <1>c, <3>1, <3>2
  <2>4. CASE ProcStep(Daemon)
    <3>1. (Step(Daemon) \/ ServeEnds(Daemon) \/ Kill(Daemon)) /\ admin' = admin
      BY <1>k, <2>4 DEF ProcStep
    <3>2. Others(Daemon)
      BY <1>k, <1>t, <3>1, OthersKeep
    <3>. QED
      BY <1>c, <3>1, <3>2
  <2>5. CASE StrayStep
    <3>1. (\E c \in strays : Lands(c)) /\ admin' = admin
      BY <2>5 DEF StrayStep, daemonVars
    <3>2. Left(Admin)' = Left(Admin)
      BY <1>k, <3>1, StrayLeaves
    <3>. QED
      BY <1>b, <3>1, <3>2
  <2>. QED
    BY <1>4, <2>1, <2>2, <2>3, <2>4, <2>5 DEF DaemonNext
<1>5. Same => CommandLeft' \in Nat /\ CommandLeft' <= CommandLeft
  BY <1>0 DEF CommandLeft
<1>. QED
  BY <1>1, <1>2, <1>3, <1>4, <1>5 DEF AdminStep

\* In every environment, for finitely many network services: each step of the command and of its
\* forced revert brings its end closer, and no step of launchd, of the daemon or of a call that
\* outlived its process puts it off.  With CommandIsNeverStuck, what UninstallEnds needs but an
\* induction over the number of steps (runInstallDaemon, runUninstallDaemon).
THEOREM CommandAlwaysDescends ==
    ASSUME IsFiniteSet(Services) PROVE DaemonSpec => [][CommandDescends]_allVars
<1>1. DaemonBase /\ DaemonBase' /\ LifeAll /\ LifeAll' /\ [DaemonNext]_allVars => [CommandDescends]_allVars
  BY CommandStep DEF CommandDescends
<1>. QED
  BY <1>1, DaemonBaseHolds, DaemonLifeHolds, PTL DEF DaemonSpec
============================================================================
