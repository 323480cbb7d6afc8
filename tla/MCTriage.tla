------------------------------ MODULE MCTriage ------------------------------
(* Instances of Triage: a launch item and an application, used in five ways. *)
EXTENDS Triage, TLC

CONSTANTS agent, app, c1, c2, submit

\* Consoles are interchangeable; no liveness is checked.
ConsoleSymmetry == Permutations(Consoles)

Software_(sign, place, plists, grants, client, proc, apple) ==
    [sign |-> sign, place |-> place, plists |-> plists, grants |-> grants, client |-> client,
     proc |-> proc, appleLabel |-> apple, present |-> TRUE]

\* Nothing is known about it.
Quiet == Software_("developer", "system", {}, {}, "path", "none", FALSE)

\* The launch item in every state a scan may find it in.
AnyAgent ==
    {w \in [sign : Signatures, place : {"user", "system", "hidden", "os"},
            plists : {{}, {"user"}, {"local"}, {"bak"}, {"inline"}, {"user", "bak"}, {"user", "local"}},
            appleLabel : BOOLEAN,
            grants : {{}, {"screen"}, {"input", "accessibility"}, {"input", "accessibility", "disk"}},
            client : {"path", "bundle"},
            proc : {"none", "connection", "listener"}, present : {TRUE}] :
        /\ w.appleLabel => w.plists # {} /\ w.sign \in {"unsigned", "apple"}
        /\ w.client = "bundle" => w.grants # {}
        /\ w.proc = "connection" => w.place = "user" /\ w.plists = {"user"}
        /\ w.place = "os" => w.sign = "apple" /\ w.plists \subseteq {"local"}}

Machines(agents, apps) == {[i \in {agent, app} |-> IF i = agent THEN g ELSE p] :
                              g \in agents, p \in apps}

UnsignedAgent(plists) == Software_("unsigned", "user", plists, {}, "path", "none", FALSE)
Spy(sign) == Software_(sign, "user", {}, {"screen", "input"}, "path", "none", FALSE)

Use(machines, events, vetted, snapshot, keys) ==
    [machines |-> machines, events |-> events, vetted |-> vetted, snapshot |-> snapshot,
     keys |-> keys]

Instances ==
    [scan  |-> Use(Machines(AnyAgent, {Quiet}), {"change", "gap", "skip", "lsof"}, {}, FALSE, {}),
     act   |-> Use(Machines({UnsignedAgent({"user"})}, {Spy("unsigned")}), {"lsof"}, {}, FALSE, {"act"}),
     vet   |-> Use(Machines({UnsignedAgent({"user"})}, {Spy("unsigned")}), {"lsof"}, {app}, TRUE, {"act"}),
     ack   |-> Use(Machines({UnsignedAgent({"user"})}, {Quiet}),
                   {"change", "lsof"}, {}, FALSE, {"ack"}),
     label |-> Use(Machines({UnsignedAgent({"user"})}, {Spy("unsigned")}), {"lsof"}, {}, FALSE, {"label"})]

MCUses == [n \in DOMAIN Instances |-> Instances[n]]
=============================================================================
