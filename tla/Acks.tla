-------------------------------- MODULE Acks --------------------------------
(***************************************************************************)
(* The acknowledgement store (internal/ack) as consoles use it: `a` records*)
(* that a finding was reviewed and left alone, with a digest of what was   *)
(* reviewed; a later console shows it as reviewed, or as changed since.    *)
(* Every console works on the copy of the file it loaded when it opened.   *)
(***************************************************************************)
CONSTANTS Consoles,
          AckFaults    \* a subset of {"load", "save"}: ack.json cannot be read, or written

ASSUME AcksAssumption == AckFaults \subseteq {"load", "save"}

(***************************************************************************)
(* A record, and a finding that is shown, is a key and a digest.           *)
(***************************************************************************)
VARIABLES ackFile,     \* ack.json
          recs,        \* Store.recs of each console
          seen,        \* the findings each console shows
          acked,       \* Model.Acked
          ackChanged,  \* Model.AckChanged
          reviewed     \* history: every finding `a` was pressed on, as it was then

ackVars == <<ackFile, recs, seen, acked, ackChanged, reviewed>>

Keys(records) == {r.key : r \in records}

\* At most one record for a key.
OnePerKey(records) == \A r, q \in records : r.key = q.key => r = q

AcksTypeOK == /\ OnePerKey(ackFile)
              /\ \A c \in Consoles : /\ OnePerKey(recs[c]) /\ OnePerKey(seen[c])
                                     /\ ackChanged[c] \subseteq acked[c]
                                     /\ acked[c] \subseteq Keys(seen[c])

AcksInit == /\ ackFile = {} /\ reviewed = {}
            /\ recs = [c \in Consoles |-> {}] /\ seen = [c \in Consoles |-> {}]
            /\ acked = [c \in Consoles |-> {}] /\ ackChanged = [c \in Consoles |-> {}]

\* Mutant of ChangedSince: a finding counts as the one that was reviewed.
NeverChanged(records, findings) == {}

\* acksFor: the reviewed findings whose digest is not the recorded one.
ChangedSince(records, findings) ==
    {f.key : f \in {g \in findings : g.key \in Keys(records) /\ g \notin records}}

\* Load and acksFor; what cannot be read is no record at all.
LoadAcks(c, findings) ==
    \E records \in {ackFile} \cup (IF "load" \in AckFaults THEN {{}} ELSE {}) :
        /\ recs' = [recs EXCEPT ![c] = records]
        /\ seen' = [seen EXCEPT ![c] = findings]
        /\ acked' = [acked EXCEPT ![c] = Keys(findings) \cap Keys(records)]
        /\ ackChanged' = [ackChanged EXCEPT ![c] = ChangedSince(records, findings)]
        /\ UNCHANGED <<ackFile, reviewed>>

\* The file is replaced as a whole, or not; the console is changed only with it, its
\* copy of the records in either case.
SaveAcks(c, records, nowAcked, nowChanged) ==
    /\ recs' = [recs EXCEPT ![c] = records]
    /\ \/ /\ ackFile' = records
          /\ acked' = [acked EXCEPT ![c] = nowAcked]
          /\ ackChanged' = [ackChanged EXCEPT ![c] = nowChanged]
       \/ "save" \in AckFaults /\ UNCHANGED <<ackFile, acked, ackChanged>>
    /\ UNCHANGED seen

\* Key a on a finding that is not reviewed.
Ack(c, f) ==
    /\ f \in seen[c] /\ f.key \notin acked[c]
    /\ reviewed' = reviewed \cup {f}
    /\ SaveAcks(c, {r \in recs[c] : r.key # f.key} \cup {f},
                acked[c] \cup {f.key}, ackChanged[c] \ {f.key})

\* And on one that is.  A record that is gone already needs no save.
Unack(c, f) ==
    /\ f \in seen[c] /\ f.key \in acked[c]
    /\ UNCHANGED reviewed
    /\ LET cleared == acked[c] \ {f.key}
           unchanged == ackChanged[c] \ {f.key}
       IN  IF f.key \in Keys(recs[c])
           THEN SaveAcks(c, {r \in recs[c] : r.key # f.key}, cleared, unchanged)
           ELSE /\ acked' = [acked EXCEPT ![c] = cleared]
                /\ ackChanged' = [ackChanged EXCEPT ![c] = unchanged]
                /\ UNCHANGED <<ackFile, recs, seen>>

\* The console is left, or killed; the file is what outlives it.
DropAcks(c) == /\ recs' = [recs EXCEPT ![c] = {}] /\ seen' = [seen EXCEPT ![c] = {}]
               /\ acked' = [acked EXCEPT ![c] = {}] /\ ackChanged' = [ackChanged EXCEPT ![c] = {}]
               /\ UNCHANGED <<ackFile, reviewed>>

\* "Instead of silently masking newly-surfaced concern": a finding that is shown as
\* reviewed and not as changed is one the user pressed `a` on as it is now, whichever
\* loads and saves failed and whatever consoles wrote over each other.
NeverMasks ==
    \A c \in Consoles : \A f \in seen[c] :
        f.key \in acked[c] \ ackChanged[c] => f \in reviewed
=============================================================================
