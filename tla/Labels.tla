------------------------------- MODULE Labels -------------------------------
(***************************************************************************)
(* The feedback store (internal/feedback) and submitFeedback: findings are *)
(* labelled in a console, the labels kept in a file by the shape of the    *)
(* finding, and what is pending is submitted when the console is left or   *)
(* by `counterspy feedback submit`, if the user agrees.  Every operation   *)
(* loads the file and saves it whole; the writers do not lock it.          *)
(***************************************************************************)
EXTENDS Naturals

CONSTANTS Writers,      \* consoles and submit commands
          MaxLabels,    \* bound: the labels ever given
          LabelFaults   \* a subset of LabelFaultKinds

(***************************************************************************)
(* save: the store cannot be written                                       *)
(* send: the transmitter fails, whatever had arrived by then               *)
(* die:  a writer is killed                                                *)
(***************************************************************************)
LabelFaultKinds == {"save", "send", "die"}

ASSUME LabelsAssumption == MaxLabels \in Nat /\ LabelFaults \subseteq LabelFaultKinds

VARIABLES stored,    \* feedback-store.json: per shape a record, known by its nonce, and a mark
          share,     \* the consent in feedback.json
          labelPc,   \* what each writer is doing
          config,    \* the consent it read when it started
          copy,      \* the entries it has loaded
          batch,     \* the records it is submitting, or the one it is adding
          nonces     \* the labels given so far

VARIABLES received,    \* history: what has arrived at the endpoint
          agreed,      \* history: what the user was shown and agreed to, or always agrees to
          latest,      \* history: the last label given to a shape that was reported as kept
          overlapped   \* history: two writers have been at work at once

labelVars == <<stored, share, labelPc, config, copy, batch, nonces,
               received, agreed, latest, overlapped>>
labelPast == <<received, agreed, latest, overlapped>>

LabelsTypeOK ==
    /\ share \in {"off", "ask", "always"} /\ config \in [Writers -> {"off", "ask", "always"}]
    /\ labelPc \in [Writers -> {"out", "open", "add", "ask", "send", "mark", "save"}]
    /\ nonces \in 0 .. MaxLabels
    /\ received \subseteq 1 .. nonces /\ agreed \subseteq 1 .. nonces
    /\ \A e, d \in stored : e.shape = d.shape => e = d
    /\ overlapped \in BOOLEAN

LabelsInit == /\ stored = {} /\ nonces = 0 /\ share \in {"off", "ask", "always"}
              /\ labelPc = [w \in Writers |-> "out"] /\ config = [w \in Writers |-> "off"]
              /\ copy = [w \in Writers |-> {}] /\ batch = [w \in Writers |-> {}]
              /\ received = {} /\ agreed = {} /\ latest = {} /\ overlapped = FALSE

Entry(shape, nonce, sent) == [shape |-> shape, nonce |-> nonce, sent |-> sent]
Label(shape, nonce) == [shape |-> shape, nonce |-> nonce]
Replace(entries, e) == {d \in entries : d.shape # e.shape} \cup {e}
Nonces(records) == {r.nonce : r \in records}

\* Pending: what is not marked as sent.
Pending(entries) == {Label(e.shape, e.nonce) : e \in {d \in entries : ~d.sent}}

Goto(w, where) == labelPc' = [labelPc EXCEPT ![w] = where]

\* The writer ends, and what it held is gone.
End(w) == /\ Goto(w, "out") /\ config' = [config EXCEPT ![w] = "off"]
          /\ copy' = [copy EXCEPT ![w] = {}] /\ batch' = [batch EXCEPT ![w] = {}]

\* The user edits feedback.json.
ChangeShare == /\ share' \in {"off", "ask", "always"} \ {share}
               /\ UNCHANGED <<stored, labelPc, config, copy, batch, nonces, labelPast>>

\* A writer reads the consent it will act on.
Enter(w, where, consent) ==
    /\ labelPc[w] = "out" /\ Goto(w, where)
    /\ config' = [config EXCEPT ![w] = consent]
    /\ overlapped' = (overlapped \/ \E v \in Writers : labelPc[v] # "out")

OpenLabels(w) == /\ Enter(w, "open", share)
                 /\ UNCHANGED <<stored, share, copy, batch, nonces, received, agreed, latest>>

\* Keys g and b: Capture, and Add as far as its load.
GiveLabel(w, shape) ==
    /\ labelPc[w] = "open" /\ nonces < MaxLabels
    /\ nonces' = nonces + 1 /\ Goto(w, "add")
    /\ copy' = [copy EXCEPT ![w] = stored]
    /\ batch' = [batch EXCEPT ![w] = {Label(shape, nonces')}]
    /\ UNCHANGED <<stored, share, config, labelPast>>

\* Mutant of Added: what was sent once stays marked as sent.
AddedStillSent(entries, r) ==
    Replace(entries, Entry(r.shape, r.nonce, \E e \in entries : e.shape = r.shape /\ e.sent))

\* The record replaces that of its shape, and is to be sent again.
Added(entries, r) == Replace(entries, Entry(r.shape, r.nonce, FALSE))

KeepLabel(w) ==
    /\ labelPc[w] = "add" /\ Goto(w, "open")
    /\ \E r \in batch[w] : \/ /\ stored' = Added(copy[w], r)
                              /\ latest' = Replace(latest, r)
                           \/ "save" \in LabelFaults /\ UNCHANGED <<stored, latest>>
    /\ copy' = [copy EXCEPT ![w] = {}] /\ batch' = [batch EXCEPT ![w] = {}]
    /\ UNCHANGED <<share, config, nonces, received, agreed, overlapped>>

\* submitFeedback as far as the prompt.
BeginSubmit(w, ask) ==
    LET pending == Pending(stored) IN
    \/ pending = {} /\ End(w) /\ UNCHANGED agreed
    \/ /\ pending # {} /\ Goto(w, IF ask THEN "ask" ELSE "send")
       /\ batch' = [batch EXCEPT ![w] = pending]
       /\ agreed' = IF ask THEN agreed ELSE agreed \cup Nonces(pending)
       /\ UNCHANGED <<config, copy>>

\* The console is left.
LeaveLabels(w) ==
    /\ labelPc[w] = "open"
    /\ \/ config[w] = "off" /\ End(w) /\ UNCHANGED agreed
       \/ config[w] # "off" /\ BeginSubmit(w, config[w] = "ask")
    /\ UNCHANGED <<stored, share, nonces, received, latest, overlapped>>

\* `counterspy feedback submit`, which always asks.
SubmitCommand(w) ==
    /\ share # "off" /\ labelPc[w] = "out"
    /\ overlapped' = (overlapped \/ \E v \in Writers : labelPc[v] # "out")
    /\ BeginSubmit(w, TRUE)
    /\ UNCHANGED <<stored, share, nonces, received, latest>>

Answer(w) == /\ labelPc[w] = "ask"
             /\ \/ /\ Goto(w, "send") /\ agreed' = agreed \cup Nonces(batch[w])
                   /\ UNCHANGED <<config, copy, batch>>
                \/ End(w) /\ UNCHANGED agreed
             /\ UNCHANGED <<stored, share, nonces, received, latest, overlapped>>

\* Mutant of Submitted: what is pending by now.
SubmittedNow(w) == Pending(stored)

\* The records that are sent: those that were shown.
Submitted(w) == batch[w]

Send(w) ==
    /\ labelPc[w] = "send"
    /\ \/ /\ received' = received \cup Nonces(Submitted(w)) /\ Goto(w, "mark")
          /\ UNCHANGED <<config, copy, batch>>
       \/ /\ "send" \in LabelFaults /\ End(w)
          /\ \E arrived \in SUBSET Nonces(Submitted(w)) : received' = received \cup arrived
    /\ UNCHANGED <<stored, share, nonces, agreed, latest, overlapped>>

\* MarkSent, by shape.
LoadToMark(w) == /\ labelPc[w] = "mark" /\ Goto(w, "save")
                 /\ copy' = [copy EXCEPT ![w] = stored]
                 /\ UNCHANGED <<stored, share, config, batch, nonces, labelPast>>

MarkSent(w) ==
    /\ labelPc[w] = "save" /\ End(w)
    /\ \/ stored' = {Entry(e.shape, e.nonce, e.sent \/ \E r \in batch[w] : r.shape = e.shape) :
                         e \in copy[w]}
       \/ "save" \in LabelFaults /\ UNCHANGED stored
    /\ UNCHANGED <<share, nonces, labelPast>>

Die(w) == /\ "die" \in LabelFaults /\ labelPc[w] # "out" /\ End(w)
          /\ UNCHANGED <<stored, share, nonces, labelPast>>

LabelStep(w) == KeepLabel(w) \/ Answer(w) \/ Send(w) \/ LoadToMark(w) \/ MarkSent(w) \/ Die(w)

-----------------------------------------------------------------------------
(* Properties. *)

\* "Show the exact records and require an explicit yes": nothing arrives that the user
\* was not shown and agreed to, or had not agreed to always send when the console
\* started, whatever is labelled elsewhere while the question is on the screen.
SentIsAgreed == received \subseteq agreed

\* The last label given to a finding is kept until that very label has arrived: through
\* relabelling, failed sends and marks, and killed writers, as long as the writers are
\* not at work at once.
LatestLabelIsKept ==
    ~overlapped => \A r \in latest : \E e \in stored :
                       /\ Label(e.shape, e.nonce) = r
                       /\ e.sent => e.nonce \in received
=============================================================================
