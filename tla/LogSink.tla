------------------------------- MODULE LogSink -------------------------------
(***************************************************************************)
(* The message log (publish.logSink): one line per message appended to     *)
(* `path`, which is rotated to path.1 .. path.Keep before it would exceed  *)
(* MaxSize.  Publish and Close hold the mutex, so their file operations    *)
(* only interleave with the death of the process; every one of them may be *)
(* refused, and all refusals but that of the reopening are ignored.  The   *)
(* log outlives the process: the next session prunes what is old, takes    *)
(* the size of what it finds and appends to it.                            *)
(***************************************************************************)
EXTENDS Naturals, SequencesExt

CONSTANTS Keep,       \* the rotated files kept
          MaxSize,    \* the size that rotates; 0 never rotates
          Sizes,      \* the sizes of a message's line, its newline included
          LogFaults   \* a subset of LogFaultKinds

(***************************************************************************)
(* refuse: a file cannot be removed, renamed or opened                     *)
(* write:  a write fails, after any number of bytes                        *)
(* crash:  the process is killed                                           *)
(***************************************************************************)
LogFaultKinds == {"refuse", "write", "crash"}

ASSUME LogAssumption == /\ Keep \in Nat \ {0} /\ MaxSize \in Nat
                        /\ Sizes \subseteq Nat \ {0, 1}
                        /\ LogFaults \subseteq LogFaultKinds

VARIABLES gens,      \* the content of path (0) and of path.1 .. path.Keep
          exists,    \* those of them that exist
          log,       \* no session, or logSink.f: open, closed, or nil for good
          size,      \* logSink.size
          logPc,     \* where the publish that holds the mutex is
          shifting,  \* the file it renames next
          line,      \* the line it is to write
          accepted,  \* history: the messages whose Publish succeeded, in order
          refused,   \* history: a rename or a pruning did not take place
          aged       \* history: the messages in files whose turn to go it was

logVars == <<gens, exists, log, size, logPc, shifting, line, accepted, refused, aged>>

\* The first n bytes of the line of a message.
Piece == [msg : Nat, size : Nat, n : Nat]

NoLine == [msg |-> 0, size |-> 0, n |-> 0]

Gens == 0 .. Keep

LogTypeOK ==
    /\ gens \in [Gens -> Seq(Piece)]
    /\ exists \subseteq Gens /\ \A g \in Gens \ exists : gens[g] = << >>
    /\ log \in {"off", "open", "closed", "dead"}
    /\ size \in Nat
    /\ logPc \in {"idle", "remove", "shift", "reopen", "write"}
    /\ shifting \in Gens
    /\ line \in Piece
    /\ accepted \in Seq(Nat) /\ refused \in BOOLEAN /\ aged \subseteq Nat

LogInit == /\ gens = [g \in Gens |-> << >>] /\ exists = {}
           /\ log = "off" /\ size = 0
           /\ logPc = "idle" /\ shifting = 0 /\ line = NoLine
           /\ accepted = << >> /\ refused = FALSE /\ aged = {}

Bytes(file) == FoldLeft(LAMBDA sum, p : sum + p.n, 0, file)

\* The messages that a file holds in full.
Whole(file) == {i \in DOMAIN file : file[i].n = file[i].size}
Messages(file) == {file[i].msg : i \in Whole(file)}

-----------------------------------------------------------------------------
(* NewLogSink. *)

\* A higher file was last written earlier: the aged ones are those from the cut on.
Aged(cut) == {g \in exists : g >= cut}

\* All of them go, unless one cannot be removed or the process dies on the way.
Pruned(cut) == IF LogFaults \cap {"refuse", "crash"} = {} THEN {Aged(cut)} ELSE SUBSET Aged(cut)

Prune(cut, gone) ==
    /\ log = "off" /\ gone \in Pruned(cut)
    /\ gens' = [g \in Gens |-> IF g \in gone THEN << >> ELSE gens[g]]
    /\ refused' = (refused \/ gone # Aged(cut))
    /\ aged' = aged \cup UNION {Messages(gens[g]) : g \in gone}
    /\ UNCHANGED <<logPc, shifting, line, accepted>>

\* Mutant of LogOpen: the size of what is there is not asked for.
LogOpenAsNew(cut, gone) ==
    /\ Prune(cut, gone) /\ exists' = (exists \ gone) \cup {0}
    /\ log' = "open" /\ size' = 0

LogOpen(cut, gone) ==
    /\ Prune(cut, gone) /\ exists' = (exists \ gone) \cup {0}
    /\ log' = "open" /\ size' = Bytes(gens[0])

\* The file cannot be opened, or the process dies before: there is no session.
LogOpenFails(cut, gone) ==
    /\ Prune(cut, gone) /\ exists' = exists \ gone
    /\ UNCHANGED <<log, size>>

-----------------------------------------------------------------------------
(* Publish. *)

\* The message takes the mutex.  Without a file it is refused; a closed file is not
\* told from an open one here.
LogPublish(m, s) ==
    /\ logPc = "idle" /\ log # "off"
    /\ \/ log = "dead" /\ UNCHANGED <<logPc, line>>
       \/ /\ log # "dead"
          /\ line' = [msg |-> m, size |-> s, n |-> 0]
          /\ logPc' = IF MaxSize > 0 /\ size + s > MaxSize THEN "remove" ELSE "write"
    /\ UNCHANGED <<gens, exists, log, size, shifting, accepted, refused, aged>>

\* rotate: the oldest file goes.
RemoveOldest ==
    /\ logPc = "remove" /\ logPc' = "shift"
    /\ log' = "dead"
    /\ \/ gens' = [gens EXCEPT ![Keep] = << >>] /\ exists' = exists \ {Keep}
       \/ "refuse" \in LogFaults /\ UNCHANGED <<gens, exists>>
    /\ shifting' = Keep - 1 /\ aged' = aged \cup Messages(gens[Keep])
    /\ UNCHANGED <<size, line, accepted, refused>>

\* os.Rename replaces what it finds.
Rename(from, to) ==
    /\ gens' = [gens EXCEPT ![to] = gens[from], ![from] = << >>]
    /\ exists' = (exists \ {from}) \cup {to}

\* Mutant of Shift: the newest file is renamed first.
ShiftNewestFirst ==
    /\ logPc = "shift"
    /\ LET from == Keep - 1 - shifting IN
          IF from \in exists THEN Rename(from, from + 1) ELSE UNCHANGED <<gens, exists>>
    /\ IF shifting = 0 THEN logPc' = "reopen" /\ UNCHANGED shifting
                       ELSE shifting' = shifting - 1 /\ UNCHANGED logPc
    /\ UNCHANGED <<log, size, line, accepted, refused, aged>>

\* The other files move up by one, the oldest first and path itself last.
Shift ==
    /\ logPc = "shift"
    /\ \/ shifting \in exists /\ Rename(shifting, shifting + 1) /\ UNCHANGED refused
       \/ shifting \notin exists /\ UNCHANGED <<gens, exists, refused>>
       \/ /\ shifting \in exists /\ "refuse" \in LogFaults
          /\ refused' = TRUE /\ UNCHANGED <<gens, exists>>
    /\ IF shifting = 0 THEN logPc' = "reopen" /\ UNCHANGED shifting
                       ELSE shifting' = shifting - 1 /\ UNCHANGED logPc
    /\ UNCHANGED <<log, size, line, accepted, aged>>

\* path is taken for empty, which it is not when it could not be renamed.  When it
\* cannot be opened the message is lost, and the log with it.
Reopen ==
    /\ logPc = "reopen"
    /\ \/ /\ log' = "open" /\ exists' = exists \cup {0}
          /\ size' = 0 /\ logPc' = "write" /\ UNCHANGED line
       \/ /\ "refuse" \in LogFaults
          /\ logPc' = "idle" /\ line' = NoLine /\ UNCHANGED <<log, exists, size>>
    /\ UNCHANGED <<gens, shifting, accepted, refused, aged>>

\* The bytes a write may leave in the file.
Written == {line.size} \cup IF "write" \in LogFaults THEN 0 .. line.size - 1 ELSE {}

WriteLine ==
    /\ logPc = "write" /\ logPc' = "idle" /\ line' = NoLine
    /\ \E n \in IF log = "open" THEN Written ELSE {0} :
          /\ gens' = IF n = 0 THEN gens
                     ELSE [gens EXCEPT ![0] = Append(@, [line EXCEPT !.n = n])]
          /\ size' = size + n
          /\ accepted' = IF n = line.size THEN Append(accepted, line.msg) ELSE accepted
    /\ UNCHANGED <<exists, log, shifting, refused, aged>>

\* Close closes the file and keeps it: a later message that needs a rotation opens
\* the log again.
LogClose == /\ logPc = "idle" /\ log # "off"
            /\ log' = IF log = "open" THEN "closed" ELSE log
            /\ UNCHANGED <<gens, exists, size, logPc, shifting, line, accepted, refused, aged>>

\* The process ends, and the files stay as they are.
LogExit == /\ log' = "off" /\ logPc' = "idle" /\ line' = NoLine /\ shifting' = 0
           /\ UNCHANGED <<gens, exists, size, accepted, refused, aged>>

LogStep == RemoveOldest \/ Shift \/ Reopen \/ WriteLine

-----------------------------------------------------------------------------
(* ReadLog: scanMessages over the current file. *)

\* A piece begins a line when the one before it was ended.
Begins(file, i) == i = 1 \/ file[i - 1].n = file[i - 1].size

\* A line is a message when it holds all of one, and of one only; the last line may
\* lack its end.
Readable(file, i) ==
    /\ Begins(file, i)
    /\ \/ file[i].n = file[i].size
       \/ i = Len(file) /\ file[i].n = file[i].size - 1

Malformed(file, i) == Begins(file, i) /\ ~Readable(file, i)

\* Mutant of Noticed: a malformed line is only skipped.
NeverNoticed(file, i) == FALSE

\* The first malformed line becomes an error event, the others are skipped.
Noticed(file, i) == Malformed(file, i) /\ \A j \in 1 .. i - 1 : ~Malformed(file, j)

ErrorEvent == 0

Shown(file) ==
    {file[i].msg : i \in {j \in DOMAIN file : Readable(file, j)}}
        \cup {ErrorEvent : i \in {j \in DOMAIN file : Noticed(file, j)}}

-----------------------------------------------------------------------------
(* Properties. *)

Kept == UNION {Messages(gens[g]) : g \in Gens}

\* Rotation, crashes in the middle of it and pruning forget the oldest messages first.
\* The files, oldest first, hold messages that were accepted, in their order and none
\* twice.  What is not in them was in a file that was the oldest of Keep + 1 or had aged,
\* and so was all that is older: none is missing in between.  A rename that is refused may
\* cost a whole file in the middle, but never the order.
Retained ==
    /\ Kept \subseteq ToSet(accepted)
    /\ \A g, h \in Gens :
           \A i \in Whole(gens[g]), j \in Whole(gens[h]), k, l \in DOMAIN accepted :
               /\ g > h \/ (g = h /\ i < j)
               /\ accepted[k] = gens[g][i].msg /\ accepted[l] = gens[h][j].msg
               => k < l
    /\ ~refused => \A k \in DOMAIN accepted :
                       accepted[k] \notin Kept => \A j \in 1 .. k : accepted[j] \in aged \ Kept

\* No file grows past MaxSize ("rotating at maxSize"), unless a single line is larger, over
\* restarts, partial writes and crashes, as long as no rename is refused.
LogIsBounded ==
    MaxSize > 0 /\ ~refused =>
        \A g \in Gens : Bytes(gens[g]) <= MaxSize \/ Len(gens[g]) = 1

\* Whoever reads the current file sees every message in it whose Publish succeeded,
\* or is told that something is missing: the line of a message that failed half-way
\* takes the next one with it, and that one was reported as written.
GapIsDisclosed ==
    \A i \in DOMAIN gens[0] :
        Contains(accepted, gens[0][i].msg) =>
            Shown(gens[0]) \cap {gens[0][i].msg, ErrorEvent} # {}
=============================================================================
