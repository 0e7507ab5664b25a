------------------------------ MODULE NewFiles ------------------------------
(***************************************************************************)
(* The three operations that promise a new file: backup_database and       *)
(* restore_database (maintenance.py) and convert_export                    *)
(* (adapters/synthetic_chat.py), over paths that users and other processes *)
(* create and remove meanwhile.                                            *)
(*                                                                         *)
(* A path leads to an inode, as on POSIX systems: a process goes on with   *)
(* the file it opened when the path is gone or leads elsewhere.            *)
(***************************************************************************)
EXTENDS Naturals

CONSTANTS
    Procs,       \* processes, one for each operation ever run
    Paths,       \* the paths in play
    Live,        \* the path of the database in use
    Inodes,      \* files that ever exist (bounds creations)
    MaxCommits,  \* bound on the commits of the database in use
    None

ASSUME PathsAssumption == Live \in Paths /\ None \notin Inodes \cup Paths \cup Procs

ASSUME CommitsAssumption == MaxCommits \in Nat

VARIABLES
    at,         \* where each path leads
    disk,       \* the content of each inode
    pc, job,    \* where each process is, and its local variables
    maker,      \* history: the process that created an inode
    abandoned,  \* history: inodes whose maker died or failed to write them
    contested,  \* history: paths that filled up behind a process's check
    reports     \* history: what was reported to have succeeded

fileVars == <<at, disk, maker>>
procVars == <<pc, job>>
vars == <<fileVars, procVars, abandoned, contested, reports>>

(* "empty" is a database without tables, "torn" one whose copy was cut     *)
(* short, "damaged" one with a broken page; "export" and "neutral" are a   *)
(* chat export before and after its conversion, "partial" the beginning of *)
(* one; "other" is anything else.                                          *)
Kinds == {"unused", "empty", "torn", "damaged", "database", "export",
          "partial", "neutral", "other"}

Content == [kind : Kinds, commit : 0 .. MaxCommits]

Of(kind) == [kind |-> kind, commit |-> 0]

Ops == {"backup", "restore", "convert"}

Stages == {"new", "source", "target", "open", "copy", "verify", "write",
           "report", "ended"}

Job == [op : Ops \cup {None}, source : Paths \cup {None},
        target : Paths \cup {None}, from : Inodes \cup {None},
        into : Inodes \cup {None}, received : BOOLEAN]

NoJob == [op |-> None, source |-> None, target |-> None, from |-> None,
          into |-> None, received |-> FALSE]

\* A receipt; "received" says that there was one for the source.
Report == [op : Ops, from : Inodes \cup {None}, inode : Inodes,
           received : BOOLEAN, content : Content, contested : BOOLEAN]

TypeOK ==
    /\ at \in [Paths -> Inodes \cup {None}]
    /\ disk \in [Inodes -> Content]
    /\ pc \in [Procs -> Stages]
    /\ job \in [Procs -> Job]
    /\ maker \in [Inodes -> Procs \cup {None}]
    /\ abandoned \subseteq Inodes
    /\ contested \subseteq Paths
    /\ reports \subseteq Report

\* The database in use, and files that were there before, of any kind.
Init ==
    /\ at \in [Paths -> Inodes \cup {None}]
    /\ \A f, g \in Paths : at[f] = at[g] /\ at[f] # None => f = g
    /\ at[Live] # None
    /\ disk \in [Inodes -> {Of(k) : k \in {"unused", "damaged", "database",
                                           "export", "other"}}]
    /\ \A i \in Inodes :
         disk[i].kind = "unused" <=> \A f \in Paths : at[f] # i
    /\ disk[at[Live]] = Of("database")
    /\ pc = [p \in Procs |-> "new"]
    /\ job = [p \in Procs |-> NoJob]
    /\ maker = [i \in Inodes |-> None]
    /\ abandoned = {}
    /\ contested = {}
    /\ reports = {}

GoTo(p, stage) == pc' = [pc EXCEPT ![p] = stage]

\* The operation raises or returns, and its command ends.
Return(p) == GoTo(p, "ended") /\ job' = [job EXCEPT ![p] = NoJob]

Unused == {i \in Inodes : disk[i].kind = "unused"}

\* The processes that found nothing at f and have not finished with it.
Past(f) == {p \in Procs :
    job[p].target = f /\ pc[p] \in Stages \ {"new", "source", "target", "ended"}}

\* A file appears at f, made by p or by somebody else (None).
Create(p, f, i, kind) ==
    /\ at' = [at EXCEPT ![f] = i]
    /\ disk' = [disk EXCEPT ![i] = Of(kind)]
    /\ maker' = [maker EXCEPT ![i] = p]
    /\ contested' = IF Past(f) \subseteq {p} THEN contested
                                             ELSE contested \cup {f}

----------------------------------------------------------------------------
Begin(p, op, source, target) ==
    /\ pc[p] = "new"
    /\ at[source] # None
    /\ job' = [job EXCEPT ![p] = [op |-> op, source |-> source,
                 target |-> target, from |-> None, into |-> None,
                 received |-> FALSE]]
    /\ GoTo(p, "source")
    /\ UNCHANGED <<fileVars, abandoned, contested, reports>>

\* What quick_check accepts; an empty file is an empty database.
Sound(content) == content.kind \in {"empty", "database"}

\* The converters raise unless the JSON has the shape of a chat export.
Convertible(content) == content.kind = "export"

\* Restore checks the backup first and convert converts the export; backup
\* looks at its source only when it copies it.
Usable(op, content) ==
    \/ op = "backup"
    \/ op = "restore" /\ Sound(content)
    \/ op = "convert" /\ Convertible(content)

CheckSource(p) ==
    /\ pc[p] = "source"
    /\ LET i == at[job[p].source]
       IN  IF i # None /\ Usable(job[p].op, disk[i])
             THEN GoTo(p, "target") /\ UNCHANGED job
             ELSE Return(p)
    /\ UNCHANGED <<fileVars, abandoned, contested, reports>>

\* Mutant of IsNew: the destination is not looked at.
IsNewUnchecked(f) == TRUE

IsNew(f) == at[f] = None

CheckTarget(p) ==
    /\ pc[p] = "target"
    /\ IF IsNew(job[p].target) THEN GoTo(p, "open") /\ UNCHANGED job
                               ELSE Return(p)
    /\ UNCHANGED <<fileVars, abandoned, contested, reports>>

\* connect creates the target, or opens what is there by now.
Connect(p) ==
    LET from == at[job[p].source]
        target == job[p].target
        Opened(i) == [job EXCEPT ![p].from = from, ![p].into = i,
            ![p].received = \E r \in reports : r.inode = from]
    IN  /\ pc[p] = "open"
        /\ job[p].op # "convert"
        /\ \/ /\ from = None
              /\ Return(p)
              /\ UNCHANGED <<fileVars, contested>>
           \/ /\ from # None
              /\ at[target] # None
              /\ job' = Opened(at[target])
              /\ GoTo(p, "copy")
              /\ UNCHANGED <<fileVars, contested>>
           \/ /\ from # None
              /\ at[target] = None
              /\ \E i \in Unused :
                   /\ Create(p, target, i, "empty")
                   /\ job' = Opened(i)
              /\ GoTo(p, "copy")
        /\ UNCHANGED <<abandoned, reports>>

\* Mutant of MayOpen: mode "w" instead of "x".
MayOpenAnything(f) == TRUE

MayOpen(f) == at[f] = None

\* convert_export opens its destination with mode "x".
OpenExclusively(p) ==
    LET target == job[p].target
    IN  /\ pc[p] = "open"
        /\ job[p].op = "convert"
        /\ IF MayOpen(target)
             THEN \E i \in Unused :
                    /\ Create(p, target, i, "partial")
                    /\ job' = [job EXCEPT ![p].into = i]
                    /\ GoTo(p, "write")
             ELSE Return(p) /\ UNCHANGED <<fileVars, contested>>
        /\ UNCHANGED <<abandoned, reports>>

\* Mutant of RemovedTarget: the output of a failed copy stays.
RemovedTargetNever(f) == at

\* target.unlink removes whatever the path leads to.
RemovedTarget(f) == [at EXCEPT ![f] = None]

Fail(p) ==
    /\ at' = RemovedTarget(job[p].target)
    /\ Return(p)
    /\ UNCHANGED <<disk, maker, abandoned, contested, reports>>

\* Mutant of Copied: from the database in use instead of the source.
CopiedFromLive(p) == [disk EXCEPT ![job[p].into] = disk[at[Live]]]

Copied(p) == [disk EXCEPT ![job[p].into] = disk[job[p].from]]

\* backup and commit: the pages of one moment, damaged ones too.
Copy(p) ==
    /\ pc[p] = "copy"
    /\ disk[job[p].from].kind \in {"empty", "damaged", "database"}
    /\ disk[job[p].into].kind \in {"empty", "torn", "damaged", "database"}
    /\ disk' = Copied(p)
    /\ GoTo(p, "verify")
    /\ UNCHANGED <<at, maker, job, abandoned, contested, reports>>

\* The target cannot be opened: what came to it meanwhile goes, too.
ConnectFails(p) ==
    /\ pc[p] = "open"
    /\ job[p].op # "convert"
    /\ at[job[p].source] # None
    /\ Fail(p)

\* No database on either side, no space, an error while reading.
CopyFails(p) == pc[p] = "copy" /\ Fail(p)

\* Mutant of Verified: the copy is not checked.
VerifiedAlways(content) == TRUE

Verified(content) == Sound(content)

Verify(p) ==
    /\ pc[p] = "verify"
    /\ \/ /\ Verified(disk[job[p].into])
          /\ GoTo(p, "report")
          /\ UNCHANGED <<fileVars, job, abandoned, contested, reports>>
       \/ /\ ~ Verified(disk[job[p].into])
          /\ Fail(p)

\* stream.write; when it fails the file stays as it is.
Write(p) ==
    /\ pc[p] = "write"
    /\ \/ /\ disk' = [disk EXCEPT ![job[p].into] = Of("neutral")]
          /\ GoTo(p, "report")
          /\ UNCHANGED <<job, abandoned>>
       \/ /\ abandoned' = abandoned \cup {job[p].into}
          /\ Return(p)
          /\ UNCHANGED disk
    /\ UNCHANGED <<at, maker, contested, reports>>

\* A receipt for a copy names size and digest of what the path leads to now,
\* and there is none when it leads nowhere; that of a conversion is for what
\* was written, wherever it is.
Reported(p) ==
    IF job[p].op = "convert" THEN job[p].into ELSE at[job[p].target]

Succeed(p) ==
    LET i == Reported(p)
    IN  /\ pc[p] = "report"
        /\ reports' = IF i = None THEN reports ELSE reports \cup
             {[op |-> job[p].op, from |-> job[p].from, inode |-> i,
               received |-> job[p].received, content |-> disk[i],
               contested |-> job[p].target \in contested]}
        /\ Return(p)
        /\ UNCHANGED <<fileVars, abandoned, contested>>

\* The process dies; a copy under way may be torn.
Crash(p) ==
    /\ pc[p] \notin {"new", "ended"}
    /\ Return(p)
    /\ abandoned' = abandoned \cup ({job[p].into} \ {None})
    /\ \/ UNCHANGED disk
       \/ /\ pc[p] = "copy"
          /\ Sound(disk[job[p].into])
          /\ disk' = [disk EXCEPT ![job[p].into] = Of("torn")]
    /\ UNCHANGED <<at, maker, contested, reports>>

----------------------------------------------------------------------------
\* Somebody else saves a file, or removes one.
OthersCreate(f) ==
    /\ at[f] = None
    /\ \E i \in Unused : Create(None, f, i, "other")
    /\ UNCHANGED <<procVars, abandoned, reports>>

OthersRemove(f) ==
    /\ f # Live
    /\ at[f] # None
    /\ at' = [at EXCEPT ![f] = None]
    /\ UNCHANGED <<disk, maker, procVars, abandoned, contested, reports>>

\* The database in use goes on committing.
Commit ==
    /\ disk[at[Live]].commit < MaxCommits
    /\ disk' = [disk EXCEPT ![at[Live]].commit = @ + 1]
    /\ UNCHANGED <<at, maker, procVars, abandoned, contested, reports>>

Step(p) ==
    \/ CheckSource(p) \/ CheckTarget(p) \/ Connect(p) \/ ConnectFails(p)
    \/ OpenExclusively(p)
    \/ Copy(p) \/ CopyFails(p) \/ Verify(p) \/ Write(p) \/ Succeed(p)

Next ==
    \/ \E p \in Procs :
         \/ \E op \in Ops, source, target \in Paths :
              Begin(p, op, source, target)
         \/ Step(p)
         \/ Crash(p)
    \/ \E f \in Paths : OthersCreate(f) \/ OthersRemove(f)
    \/ Commit

Spec == Init /\ [][Next]_vars

----------------------------------------------------------------------------
(* What the operations promise                                             *)

\* What is reported is what was asked for, unless the path filled up behind
\* the check: a copy that passes quick_check, a complete conversion.
ReceiptsAreSound ==
    \A r \in reports : ~ r.contested =>
        IF r.op = "convert" THEN r.content.kind = "neutral"
                            ELSE Sound(r.content)

\* Restoring a backup that was reported gives back the database as it was
\* reported, however often it was copied on and whatever was committed since.
RestoresGiveBackTheBackup ==
    \A b, r \in reports :
        /\ b.op # "convert" /\ r.op # "convert"
        /\ r.from = b.inode /\ r.received
        /\ ~ b.contested /\ ~ r.contested
        => r.content = b.content

\* An output that was not verified and reported is removed, unless its
\* process died or could not finish writing it.
UnfinishedOutputsAreRemoved ==
    \A f \in Paths :
        at[f] # None /\ maker[at[f]] # None =>
          \/ at[f] \in abandoned
          \/ \E r \in reports : r.inode = at[f]
          \/ \E p \in Procs : job[p].into = at[f]

Acts(p) == pc'[p] # pc[p]

Kept(f) == at'[f] = at[f] /\ disk'[at[f]] = disk[at[f]]

\* No operation changes or removes a file that it did not create itself,
\* unless a backup or a restore meets one that came to its target after it had
\* looked there; a conversion looks and creates at once, and never does.
OthersFilesAreKept ==
    [][\A p \in Procs, f \in Paths :
          Acts(p) /\ at[f] # None /\ maker[at[f]] # p =>
            Kept(f) \/ (f \in contested /\ job[p].op # "convert")]_vars
=============================================================================
