------------------------------ MODULE SysProxy ------------------------------
(***************************************************************************)
(* One network service's secure-web (HTTPS) proxy setting, what the macOS  *)
(* `networksetup` tool does to it, and the capture that                    *)
(* internal/intercept/sysproxy_darwin.go keeps of it so that it can put    *)
(* the setting back.  A server stands for a server:port pair.              *)
(***************************************************************************)
CONSTANTS Servers,   \* every server:port a service may name
          NoServer,  \* the empty server field
          Ours       \* 127.0.0.1:62443, the decrypt proxy

ASSUME ServersAssumption == NoServer \in Servers /\ Ours \in Servers /\ NoServer # Ours

\* proxyState without its service name: what -getsecurewebproxy reports.
Setting == [on : BOOLEAN, srv : Servers]

\* The zero proxyState.
NoProxy == [on |-> FALSE, srv |-> NoServer]

\* networksetup -setsecurewebproxy <service> <server> <port>: names the server
\* and, says its man page, turns the proxy on.
SetSecureWebProxy(srv) == [on |-> TRUE, srv |-> srv]

\* networksetup -setsecurewebproxystate <service> on|off.
SetSecureWebProxyState(c, on) == [c EXCEPT !.on = on]

\* The service is redirected to the decrypt proxy.
Redirected(c) == c.on /\ c.srv = Ours

\* Mutant of HadProxy: a disabled proxy is taken for one in use.
HadProxyIfNamed(c) == c.srv # NoServer

\* restore's test that the user had a proxy.
HadProxy(c) == c.on /\ c.srv # NoServer

\* now is the setting was, put back.  Where the user had named no server the
\* server field may keep ours, disabled: restore clears it on a best-effort basis.
PutBack(now, was) == \/ now = was
                     \/ was.srv = NoServer /\ ~now.on
=============================================================================
