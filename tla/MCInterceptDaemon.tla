------------------------- MODULE MCInterceptDaemon --------------------------
(* An instance of InterceptDaemon: launchd's process and the administrator's,  *)
(* for a user who had a proxy, or none.                                        *)
EXTENDS InterceptDaemon

CONSTANTS s1, s2, Corp

UsersSettings == {NoProxy, SetSecureWebProxy(Corp)}

MCInit == DaemonInit /\ \A s \in Services : orig[s] \in UsersSettings

MCSpec == MCInit /\ [][DaemonNext]_allVars /\ DaemonFairness
=============================================================================
