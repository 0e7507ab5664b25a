----------------------------- MODULE ChatImport -----------------------------
(***************************************************************************)
(* ChatImportService: processes import one chat export, a JSON file that   *)
(* its user goes on changing, and store it as windows of messages.  The    *)
(* store is SnapshotLedger, which SyncStore implements; the windows are    *)
(* those of TextSplitting.                                                 *)
(*                                                                         *)
(* A message has an id, the time it was sent and the id it replies to (0   *)
(* for none); its text, sender and attachments, and the export's platform, *)
(* conversation and title are left out.  The ids order messages of one     *)
(* time.                                                                   *)
(***************************************************************************)
EXTENDS TextSplitting, FiniteSets

CONSTANTS
    Procs,               \* processes and threads that import
    Exports,             \* what the file may contain: sequences of messages
    Ids,                 \* ids of messages
    Times,               \* times messages are sent
    WindowSize,          \* MAX_MESSAGES_PER_WINDOW
    WindowGap,           \* WINDOW_GAP
    MaxEdits,            \* bound on what the user does
    SourceIds, RunIds,   \* uuids
    None

Message == [id : Ids, at : Times, reply : Ids \cup {0}]

ASSUME ExportAssumption ==
    /\ Ids \subseteq Nat \ {0}
    /\ Times \subseteq Nat
    /\ \A e \in Exports : e \in Seq(Message)
    /\ None \notin Exports \cup SourceIds \cup RunIds

ASSUME LimitAssumption ==
    WindowSize \in Nat \ {0} /\ WindowGap \in Nat /\ MaxEdits \in Nat

VARIABLES
    file,                           \* what the export contains, None without a file
    stamp,                          \* its identity: device, inode, size and mtime
    edits,                          \* how often the user changed it
    pc, job,                        \* where each process is, and its local variables
    live, snapshot, phase, owner    \* the store

fileVars == <<file, stamp, edits>>
procVars == <<pc, job>>
storeVars == <<live, snapshot, phase, owner>>
vars == <<fileVars, procVars, storeVars>>

----------------------------------------------------------------------------
(* What is stored                                                          *)

Windows(messages) == SplitConversation(messages, WindowSize, WindowGap)

\* Mutant of RowsOf: the newest window is window 1.
RowsFromLast(windows) ==
    {[object |-> Len(windows) + 1 - i, path |-> i, window |-> windows[i]] : i \in DOMAIN windows}

\* The object and the path of a window are made of its index.
RowsOf(windows) ==
    {[object |-> i, path |-> i, window |-> windows[i]] : i \in DOMAIN windows}

Store == INSTANCE SnapshotLedger WITH Rows <- {}

----------------------------------------------------------------------------
(* The checks of chat_json.py                                              *)

IdsOf(messages) == {messages[i].id : i \in DOMAIN messages}

\* Mutant of Valid: the replies are not looked up.
ValidWithoutReplies(messages) == Cardinality(IdsOf(messages)) = Len(messages)

Valid(messages) ==
    /\ Cardinality(IdsOf(messages)) = Len(messages)
    /\ \A i \in DOMAIN messages : messages[i].reply \in IdsOf(messages) \cup {0}

Before(a, b) == a.at < b.at \/ (a.at = b.at /\ a.id < b.id)

\* sorted is stable: messages it cannot tell apart stay as they are.
Rank(messages, i) ==
    Cardinality({j \in DOMAIN messages :
        \/ Before(messages[j], messages[i])
        \/ ~Before(messages[i], messages[j]) /\ j <= i})

Sorted(messages) ==
    [k \in DOMAIN messages |->
        messages[CHOOSE i \in DOMAIN messages : Rank(messages, i) = k]]

----------------------------------------------------------------------------
Row == [object : Nat, path : Nat, window : Seq(Message)]

Stages == {"idle", "open", "reading", "compare", "parsed", "registered",
           "started", "split"}

\* size and stamp are what the first stat returned, first what the file
\* contained when it was opened, messages what was read of it; held and
\* unseen are history: what the file has contained since the import began,
\* and whether that changed without a new identity.
Job == [stamp : Nat, size : Nat, first : Exports \cup {None},
        messages : Seq(Message), source : SourceIds \cup {None},
        run : RunIds \cup {None}, rows : SUBSET Row,
        held : SUBSET Exports, unseen : BOOLEAN]

NoJob == [stamp |-> 0, size |-> 0, first |-> None, messages |-> <<>>,
          source |-> None, run |-> None, rows |-> {}, held |-> {},
          unseen |-> FALSE]

TypeOK ==
    /\ file \in Exports \cup {None}
    /\ stamp \in Nat
    /\ edits \in 0 .. MaxEdits
    /\ pc \in [Procs -> Stages]
    /\ job \in [Procs -> Job]
    /\ live \subseteq SourceIds
    /\ snapshot \in [SourceIds -> SUBSET Row]
    /\ phase \in [RunIds -> {"none", "open", "published", "failed"}]
    /\ owner \in [RunIds -> SourceIds \cup {None}]

Init ==
    /\ file \in Exports
    /\ stamp = 0
    /\ edits = 0
    /\ pc = [p \in Procs |-> "idle"]
    /\ job = [p \in Procs |-> NoJob]
    /\ Store!Init

GoTo(p, stage) == pc' = [pc EXCEPT ![p] = stage]

\* The import returns, raises or is killed.
Finish(p) ==
    /\ GoTo(p, "idle")
    /\ job' = [job EXCEPT ![p] = NoJob]

----------------------------------------------------------------------------
(* Reading the file                                                        *)

\* The path is authorised, then read_stable_json takes the first stat; only
\* what the stat returns is used later.
FirstStat(p) ==
    /\ pc[p] = "idle"
    /\ file # None
    /\ job' = [job EXCEPT ![p] = [NoJob EXCEPT !.stamp = stamp, !.size = Len(file),
                                               !.held = {file}]]
    /\ GoTo(p, "open")
    /\ UNCHANGED <<fileVars, storeVars>>

Open(p) ==
    /\ pc[p] = "open"
    /\ file # None
    /\ job' = [job EXCEPT ![p].first = file]
    /\ GoTo(p, "reading")
    /\ UNCHANGED <<fileVars, storeVars>>

\* What a reader gets that began in one content and ended in another: the
\* first alone, if the file was replaced under its name, or the beginning of
\* one and the end of the other, if it was written in place.
Mixtures(a, b) ==
    {a} \cup {SubSeq(a, 1, k) \o SubSeq(b, k + 1, Len(b)) : k \in 0 .. Len(a)}

Read(p) ==
    /\ pc[p] = "reading"
    /\ \E messages \in Mixtures(job[p].first,
                                IF file = None THEN job[p].first ELSE file) :
         job' = [job EXCEPT ![p].first = None, ![p].messages = messages]
    /\ GoTo(p, "compare")
    /\ UNCHANGED <<fileVars, storeVars>>

\* Mutant of Unchanged: there is no second stat.
UnchangedInSize(p) == Len(job[p].messages) = job[p].size

Unchanged(p) == stamp = job[p].stamp /\ Len(job[p].messages) = job[p].size

\* The second stat, and the checks of the contents.
Parse(p) ==
    /\ pc[p] = "compare"
    /\ file # None
    /\ Unchanged(p)
    /\ Valid(job[p].messages)
    /\ job' = [job EXCEPT ![p].stamp = 0, ![p].size = 0,
                          ![p].messages = Sorted(@)]
    /\ GoTo(p, "parsed")
    /\ UNCHANGED <<fileVars, storeVars>>

\* A path that is gone, a content that changed, is no JSON or is not valid:
\* the import raises before it has stored a window.  So does a source that is
\* paused or revoked before the run is started.
Reject(p) ==
    /\ pc[p] \in Stages \ {"idle", "started", "split"}
    /\ Finish(p)
    /\ UNCHANGED <<fileVars, storeVars>>

----------------------------------------------------------------------------
(* Storing it                                                              *)

\* The path's source if it has one, or a new one.
Register(p) ==
    /\ pc[p] = "parsed"
    /\ \E s \in SourceIds :
         /\ job' = [job EXCEPT ![p].source = s]
         /\ IF live # {}
              THEN s \in live /\ UNCHANGED storeVars
              ELSE (\A q \in Procs : job[q].source # s) /\ Store!Register(s)
    /\ GoTo(p, "registered")
    /\ UNCHANGED fileVars

StartRun(p) ==
    /\ pc[p] = "registered"
    /\ \E r \in RunIds :
         /\ \A q \in Procs : job[q].run # r
         /\ Store!Begin(r, job[p].source)
         /\ job' = [job EXCEPT ![p].run = r]
    /\ GoTo(p, "started")
    /\ UNCHANGED fileVars

\* _documents looks at the file once more, for the size and the mtime it
\* stores beside the windows.
Split(p) ==
    /\ pc[p] = "started"
    /\ file # None
    /\ job' = [job EXCEPT ![p].messages = <<>>,
                          ![p].rows = RowsOf(Windows(job[p].messages))]
    /\ GoTo(p, "split")
    /\ UNCHANGED <<fileVars, storeVars>>

\* Mutant of Publish: whether the run is still there is not looked up.
PublishAnyway(p) ==
    /\ pc[p] = "split"
    /\ snapshot' = [snapshot EXCEPT ![job[p].source] = job[p].rows]
    /\ phase' = [phase EXCEPT ![job[p].run] = "published"]
    /\ Finish(p)
    /\ UNCHANGED <<fileVars, live, owner>>

\* apply_scan: the windows take the place of what was stored.
Publish(p) ==
    /\ pc[p] = "split"
    /\ Store!Publish(job[p].run, job[p].rows)
    /\ Finish(p)
    /\ UNCHANGED fileVars

\* An exception after start_run: fail_run, if the run is still there.
FailRun(p) ==
    /\ pc[p] \in {"started", "split"}
    /\ \/ Store!Fail(job[p].run)
       \/ phase[job[p].run] = "none" /\ UNCHANGED storeVars
    /\ Finish(p)
    /\ UNCHANGED fileVars

\* The process dies.
Crash(p) ==
    /\ pc[p] \in {"started", "split"}
    /\ Finish(p)
    /\ UNCHANGED <<fileVars, storeVars>>

\* The user has the windows deleted, or the source revoked.
Withdraw(s) ==
    /\ Store!Clear(s) \/ Store!Revoke(s)
    /\ UNCHANGED <<fileVars, procVars>>

----------------------------------------------------------------------------
\* The user, or the program that exports, changes the file; what keeps the
\* size may, within the resolution of the clock, keep the mtime.
Edit ==
    /\ edits < MaxEdits
    /\ edits' = edits + 1
    /\ \E new \in (Exports \cup {None}) \ {file} :
         /\ file' = new
         /\ \E seen \in BOOLEAN :
              /\ seen \/ (None \notin {file, new} /\ Len(file) = Len(new))
              /\ stamp' = IF seen THEN edits + 1 ELSE stamp
              /\ job' = [p \in Procs |->
                           IF pc[p] = "idle" THEN NoJob
                           ELSE [job[p] EXCEPT !.held = @ \cup ({new} \ {None}),
                                               !.unseen = @ \/ ~seen]]
    /\ UNCHANGED <<pc, storeVars>>

Import(p) ==
    \/ FirstStat(p) \/ Open(p) \/ Read(p) \/ Parse(p) \/ Reject(p)
    \/ Register(p) \/ StartRun(p) \/ Split(p) \/ Publish(p)
    \/ FailRun(p) \/ Crash(p)

Next ==
    \/ \E p \in Procs : Import(p)
    \/ \E s \in SourceIds : Withdraw(s)
    \/ Edit

Spec == Init /\ [][Next]_vars

----------------------------------------------------------------------------
(* What an import promises                                                 *)

InOrder(s) ==
    [i \in 1 .. Cardinality(snapshot[s]) |->
        (CHOOSE row \in snapshot[s] : row.object = i).window]

Conversation(s) == Sorted(FlattenSeq(InOrder(s)))

\* What is stored are windows as long as they may be and no longer, numbered
\* from the oldest; together they are a conversation in order, in which every
\* message is there once and every reply finds what it replies to.
ConversationsAreSound ==
    \A s \in live :
        LET windows  == InOrder(s)
            messages == FlattenSeq(windows)
        IN  /\ {row.object : row \in snapshot[s]} = DOMAIN windows
            /\ WindowsAreTight(windows, WindowSize, WindowGap)
            /\ messages = Conversation(s)
            /\ \A m, n \in DOMAIN messages : messages[m].id = messages[n].id => m = n
            /\ \A m \in Range(messages) :
                 m.reply = 0 \/ \E n \in Range(messages) : n.id = m.reply

\* Imports run on while their source is revoked or its windows are deleted, and
\* publish or fail later: what is stored, and every run that is known, is of a
\* registered source all the same.
NothingIsLeft ==
    /\ \A r \in RunIds : phase[r] = "none" \/ owner[r] \in live
    /\ \A s \in SourceIds \ live : snapshot[s] = {}

\* An import stores what the file contained at one moment since it began, so
\* an older export replaces a newer one only if the two imports overlapped:
\* also a reader that began in one content and ended in another does not mix
\* them, unless the change left size and mtime as they were.
ImportsAreOneExport ==
    [][\A s \in SourceIds : snapshot'[s] \notin {snapshot[s], {}} =>
         \E p \in Procs :
            /\ pc[p] = "split" /\ owner[job[p].run] = s
            /\ \/ job[p].unseen
               \/ \E e \in job[p].held : Conversation(s)' = Sorted(e)]_vars

\* Window and the message that ended it are where they were.
Settled(row, old, new) ==
    LET last == CHOOSE k \in DOMAIN old : old[k] = Last(row.window)
    IN  /\ Len(old) > last
        /\ Len(new) > last
        /\ SubSeq(old, 1, last + 1) = SubSeq(new, 1, last + 1)

\* Windows are numbered, and the number makes the object: an import keeps
\* every window that lies, with the message that ended it, before the first
\* change of the conversation, so that appending to an export touches only
\* its last window.
EarlierWindowsAreKept ==
    [][\A s \in SourceIds : snapshot'[s] \notin {snapshot[s], {}} =>
         \A row \in snapshot[s] \ snapshot'[s] :
            ~Settled(row, Conversation(s), Conversation(s)')]_vars
=============================================================================
