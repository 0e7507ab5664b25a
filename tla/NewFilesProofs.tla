--------------------------- MODULE NewFilesProofs ---------------------------
(***************************************************************************)
(* NewFiles: receipts are sound, unfinished outputs are removed, the files *)
(* of others are kept and a restore gives back what was backed up, for any *)
(* number of processes, paths and files.                                   *)
(*                                                                         *)
(* The argument is about who made a file: as long as a path has not filled *)
(* up behind an operation's check, what it leads to is the file that the   *)
(* operation created there, and no other operation holds that file.        *)
(***************************************************************************)
EXTENDS NewFiles, TLAPS

\* The stages in which an operation relies on its check of the target, ...
Relying == {"open", "copy", "verify", "write", "report"}

\* ... and those in which it holds a file.
Holding == {"copy", "verify", "write", "report"}

\* What a process knows at each stage.
FitsItsStage(q) ==
    /\ pc[q] \notin {"new", "ended"} =>
         /\ job[q].op \in Ops
         /\ job[q].source \in Paths
         /\ job[q].target \in Paths
    /\ pc[q] \notin Holding => job[q].into = None
    /\ pc[q] \in {"copy", "verify"} =>
         job[q].op # "convert" /\ job[q].from \in Inodes
    /\ pc[q] = "write" => job[q].op = "convert" /\ maker[job[q].into] = q
    /\ pc[q] \in Relying => job[q].target # Live

\* The file it holds is in use, and at its target or nowhere.
HoldsItsTarget(q) ==
    pc[q] \in Holding =>
      /\ job[q].into \in Inodes
      /\ disk[job[q].into].kind # "unused"
      /\ \A f \in Paths : at[f] = job[q].into => f = job[q].target

\* Nobody came in between: the target is as the operation left it.
OwnsItsTarget(q) ==
    pc[q] \in Relying /\ job[q].target \notin contested =>
      IF pc[q] = "open" THEN at[job[q].target] = None
      ELSE /\ at[job[q].target] \in {None, job[q].into}
           /\ maker[job[q].into] = q

\* What passed the check, or was written, is still that.
Finished(op, kind) ==
    IF op = "convert" THEN kind = "neutral" ELSE kind \in {"empty", "database"}

HasFinished(q) ==
    pc[q] = "report" /\ job[q].target \notin contested =>
        Finished(job[q].op, disk[job[q].into].kind)

Fits(q) ==
    /\ FitsItsStage(q)
    /\ HoldsItsTarget(q)
    /\ OwnsItsTarget(q)
    /\ HasFinished(q)

\* A path leads to a file of its own, one that is in use.
PathsFit ==
    /\ at[Live] # None
    /\ \A f, g \in Paths : at[f] = at[g] /\ at[f] # None => f = g
    /\ \A f \in Paths : at[f] # None => disk[at[f]].kind # "unused"

\* Whoever holds the same file has the same target.
HoldersAgree ==
    \A p, q \in Procs :
        job[p].into # None /\ job[p].into = job[q].into =>
            job[p].target = job[q].target

Inv ==
    /\ TypeOK
    /\ PathsFit
    /\ HoldersAgree
    /\ \A q \in Procs : Fits(q)
    /\ ReceiptsAreSound
    /\ UnfinishedOutputsAreRemoved

----------------------------------------------------------------------------
(* What a step may do to the files                                         *)

\* At most one path changes, and never to a file that another path leads to.
PathsMayChange ==
    \A f \in Paths :
        \/ at'[f] = at[f]
        \/ at'[f] = None /\ f # Live
        \/ /\ at[f] = None
           /\ at'[f] \in Inodes /\ disk[at'[f]].kind = "unused"
           /\ disk'[at'[f]].kind # "unused"
           /\ \A g \in Paths \ {f} : at'[g] = at[g]
           /\ \A q \in Past(f) : f \in contested' \/ pc'[q] # pc[q]

FilesMayChange ==
    /\ disk' \in [Inodes -> Content]
    /\ \A i \in Inodes : disk[i].kind # "unused" =>
         disk'[i].kind # "unused" /\ maker'[i] = maker[i]
    /\ contested \subseteq contested'

\* What is at the target of another operation, which nobody contested, keeps
\* its kind.
OthersKeepKinds(p) ==
    \A q \in Procs \ {p} :
        pc[q] = "report" /\ job[q].target \notin contested =>
            disk'[job[q].into].kind = disk[job[q].into].kind

LEMMA PathsStayFit ==
    ASSUME Inv, PathsMayChange, FilesMayChange
    PROVE  PathsFit'
  <1>0. at \in [Paths -> Inodes \cup {None}] /\ Live \in Paths
        /\ None \notin Inodes
    BY PathsAssumption DEF Inv, TypeOK
  <1>1. at'[Live] # None
    BY <1>0 DEF Inv, PathsFit, PathsMayChange
  <1>2. ASSUME NEW f \in Paths, at'[f] # None
        PROVE  disk'[at'[f]].kind # "unused"
    BY <1>0, <1>2 DEF Inv, PathsFit, PathsMayChange, FilesMayChange
  <1>3. ASSUME NEW f \in Paths, NEW g \in Paths, at'[f] = at'[g],
               at'[f] # None
        PROVE  f = g
    <2>1. CASE at'[f] = at[f] /\ at'[g] = at[g]
      BY <1>3, <2>1 DEF Inv, PathsFit
    <2>2. CASE at'[f] # at[f]
      BY <1>0, <1>3, <2>2 DEF Inv, PathsFit, PathsMayChange
    <2>3. CASE at'[g] # at[g]
      BY <1>0, <1>3, <2>3 DEF Inv, PathsFit, PathsMayChange
    <2> QED BY <2>1, <2>2, <2>3
  <1> QED BY <1>1, <1>2, <1>3 DEF PathsFit

LEMMA OthersStayFit ==
    ASSUME Inv, PathsMayChange, FilesMayChange,
           NEW q \in Procs, pc'[q] = pc[q], job'[q] = job[q],
           pc[q] = "report" /\ job[q].target \notin contested =>
             disk'[job[q].into].kind = disk[job[q].into].kind
    PROVE  Fits(q)'
  <1>0. Fits(q)
    BY DEF Inv
  <1>1. pc[q] \in Holding => /\ job[q].into \in Inodes
                             /\ disk[job[q].into].kind # "unused"
                             /\ maker'[job[q].into] = maker[job[q].into]
                             /\ disk'[job[q].into].kind # "unused"
    BY <1>0 DEF Fits, HoldsItsTarget, FilesMayChange
  <1>2. FitsItsStage(q)'
    BY <1>0, <1>1 DEF Fits, FitsItsStage, Holding
  <1>3. HoldsItsTarget(q)'
    BY <1>0, <1>1, PathsAssumption
      DEF Fits, HoldsItsTarget, PathsMayChange
  <1>4. OwnsItsTarget(q)'
    <2> SUFFICES ASSUME pc[q] \in Relying, job[q].target \notin contested'
                 PROVE  IF pc[q] = "open" THEN at'[job[q].target] = None
                        ELSE /\ at'[job[q].target] \in {None, job[q].into}
                             /\ maker'[job[q].into] = q
      BY DEF OwnsItsTarget
    <2>1. job[q].target \in Paths /\ q \in Past(job[q].target)
      BY <1>0 DEF Fits, FitsItsStage, Past, Relying, Stages
    <2>2. at'[job[q].target] \in {at[job[q].target], None}
      BY <2>1 DEF PathsMayChange
    <2> QED BY <1>0, <1>1, <2>2 DEF Fits, OwnsItsTarget, FilesMayChange,
                                    Relying, Holding
  <1>5. HasFinished(q)'
    BY <1>0, <1>1 DEF Fits, HasFinished, FilesMayChange
  <1> QED BY <1>2, <1>3, <1>4, <1>5 DEF Fits

\* Two holders of one file are the same, unless its path is contested.
LEMMA HolderIsAlone ==
    ASSUME Inv, NEW p \in Procs, NEW q \in Procs,
           pc[q] \in Holding, job[q].target \notin contested,
           pc[p] \in Holding, job[p].into = job[q].into
    PROVE  p = q
  <1>1. job[q].into # None
    BY PathsAssumption DEF Inv, Fits, HoldsItsTarget
  <1>2. job[p].target = job[q].target
    BY <1>1 DEF Inv, HoldersAgree
  <1> QED BY <1>2 DEF Inv, Fits, OwnsItsTarget, Holding, Relying

\* A process that returns has nothing in hand.
LEMMA ReturnedFits ==
    ASSUME Inv, NEW p \in Procs, Return(p)
    PROVE  /\ pc' \in [Procs -> Stages] /\ job' \in [Procs -> Job]
           /\ Fits(p)' /\ HoldersAgree'
           /\ pc'[p] = "ended" /\ job'[p].into = None
           /\ \A q \in Procs \ {p} : pc'[q] = pc[q] /\ job'[q] = job[q]
  <1>1. /\ pc' = [pc EXCEPT ![p] = "ended"]
        /\ job' = [job EXCEPT ![p] = NoJob]
        /\ pc \in [Procs -> Stages] /\ job \in [Procs -> Job]
    BY DEF Return, GoTo, Inv, TypeOK
  <1>2. NoJob \in Job /\ NoJob.into = None
    BY DEF NoJob, Job
  <1>3. /\ pc' \in [Procs -> Stages] /\ job' \in [Procs -> Job]
        /\ pc'[p] = "ended" /\ job'[p] = NoJob
        /\ \A q \in Procs \ {p} : pc'[q] = pc[q] /\ job'[q] = job[q]
    BY <1>1, <1>2 DEF Stages
  <1>4. Fits(p)'
    BY <1>2, <1>3 DEF Fits, FitsItsStage, HoldsItsTarget, OwnsItsTarget,
                      HasFinished, Relying, Holding
  <1>5. HoldersAgree'
    BY <1>2, <1>3 DEF Inv, HoldersAgree
  <1> QED BY <1>2, <1>3, <1>4, <1>5

\* A process that goes on to a stage with the same local variables.
LEMMA MovedTypes ==
    ASSUME Inv, NEW p \in Procs, NEW stage \in Stages, GoTo(p, stage),
           UNCHANGED job
    PROVE  /\ pc' \in [Procs -> Stages] /\ job' \in [Procs -> Job]
           /\ pc'[p] = stage /\ HoldersAgree'
           /\ \A q \in Procs \ {p} : pc'[q] = pc[q] /\ job'[q] = job[q]
  BY DEF GoTo, Inv, TypeOK, HoldersAgree

\* A step that leaves the paths and the files alone.
LEMMA FilesStay ==
    ASSUME Inv, UNCHANGED <<fileVars, contested>>
    PROVE  PathsMayChange /\ FilesMayChange
           /\ at' \in [Paths -> Inodes \cup {None}]
           /\ maker' \in [Inodes -> Procs \cup {None}]
           /\ contested' \subseteq Paths
  BY DEF fileVars, PathsMayChange, FilesMayChange, Inv, TypeOK

\* The invariant, from what a step of p, a process or somebody else, does to
\* each part of the state.
LEMMA StepKeepsInv ==
    ASSUME Inv, NEW p, PathsMayChange, FilesMayChange,
           at' \in [Paths -> Inodes \cup {None}],
           maker' \in [Inodes -> Procs \cup {None}],
           contested' \subseteq Paths, abandoned' \subseteq Inodes,
           reports' \subseteq Report,
           pc' \in [Procs -> Stages], job' \in [Procs -> Job],
           \A q \in Procs \ {p} : pc'[q] = pc[q] /\ job'[q] = job[q],
           OthersKeepKinds(p), HoldersAgree', p \in Procs => Fits(p)',
           ReceiptsAreSound', UnfinishedOutputsAreRemoved'
    PROVE  Inv'
  <1>1. TypeOK'
    BY DEF TypeOK, FilesMayChange
  <1>2. PathsFit'
    BY PathsStayFit
  <1>3. ASSUME NEW q \in Procs PROVE Fits(q)'
    <2>1. CASE q = p
      BY <2>1
    <2>2. CASE q # p
      BY <2>2, OthersStayFit DEF OthersKeepKinds
    <2> QED BY <2>1, <2>2
  <1> QED BY <1>1, <1>2, <1>3 DEF Inv

\* What was a file before is still reported, held or abandoned.
LEMMA UnfinishedStay ==
    ASSUME Inv, NEW p, \A f \in Paths : at'[f] \in {at[f], None},
           maker' = maker, abandoned \subseteq abandoned',
           reports \subseteq reports',
           \A q \in Procs \ {p} : job'[q] = job[q],
           p \in Procs => \A f \in Paths :
             at'[f] # None /\ at'[f] = job[p].into =>
               \/ job'[p].into = job[p].into
               \/ job[p].into \in abandoned'
               \/ \E r \in reports' : r.inode = job[p].into
    PROVE  UnfinishedOutputsAreRemoved'
  <1> SUFFICES ASSUME NEW f \in Paths, at'[f] # None, maker'[at'[f]] # None
               PROVE  \/ at'[f] \in abandoned'
                      \/ \E r \in reports' : r.inode = at'[f]
                      \/ \E q \in Procs : job'[q].into = at'[f]
    BY DEF UnfinishedOutputsAreRemoved
  <1>1. at'[f] = at[f]
    OBVIOUS
  <1>2. \/ at[f] \in abandoned
        \/ \E r \in reports : r.inode = at[f]
        \/ \E q \in Procs : job[q].into = at[f]
    BY <1>1 DEF Inv, UnfinishedOutputsAreRemoved
  <1>3. ASSUME NEW q \in Procs, job[q].into = at[f]
        PROVE  \/ at'[f] \in abandoned'
               \/ \E r \in reports' : r.inode = at'[f]
               \/ \E r \in Procs : job'[r].into = at'[f]
    <2>1. CASE q = p
      BY <1>1, <1>3, <2>1
    <2>2. CASE q # p
      <3>1. job'[q].into = at'[f]
        BY <1>1, <1>3, <2>2
      <3> QED BY <3>1
    <2> QED BY <2>1, <2>2
  <1> QED BY <1>1, <1>2, <1>3

\* A file that appears.
LEMMA CreateFacts ==
    ASSUME Inv, NEW p \in Procs \cup {None}, NEW f \in Paths, at[f] = None,
           NEW i \in Unused, NEW kind \in Kinds \ {"unused"},
           Create(p, f, i, kind), p \in Procs => pc'[p] # pc[p]
    PROVE  /\ PathsMayChange /\ FilesMayChange /\ OthersKeepKinds(p)
           /\ at' \in [Paths -> Inodes \cup {None}]
           /\ maker' \in [Inodes -> Procs \cup {None}]
           /\ contested' \subseteq Paths
           /\ i \in Inodes /\ at'[f] = i /\ maker'[i] = p
           /\ disk'[i].kind = kind
           /\ \A g \in Paths \ {f} : at'[g] = at[g] /\ at[g] # i
           /\ \A j \in Inodes \ {i} : disk'[j] = disk[j]
           /\ \A q \in Procs : job[q].into # i
  <1>0. /\ at' = [at EXCEPT ![f] = i]
        /\ disk' = [disk EXCEPT ![i] = Of(kind)]
        /\ maker' = [maker EXCEPT ![i] = p]
        /\ contested' = IF Past(f) \subseteq {p} THEN contested
                                                ELSE contested \cup {f}
    BY DEF Create
  <1>1. i \in Inodes /\ disk[i].kind = "unused" /\ i # None
    BY PathsAssumption DEF Unused
  <1>2. Of(kind) \in Content /\ Of(kind).kind = kind
    BY CommitsAssumption DEF Of, Content
  <1>3. /\ at \in [Paths -> Inodes \cup {None}]
        /\ disk \in [Inodes -> Content]
        /\ maker \in [Inodes -> Procs \cup {None}]
        /\ contested \subseteq Paths
    BY DEF Inv, TypeOK
  <1>4. /\ at' \in [Paths -> Inodes \cup {None}] /\ at'[f] = i
        /\ \A g \in Paths \ {f} : at'[g] = at[g]
        /\ disk' \in [Inodes -> Content] /\ disk'[i] = Of(kind)
        /\ \A j \in Inodes \ {i} : disk'[j] = disk[j]
        /\ maker' \in [Inodes -> Procs \cup {None}] /\ maker'[i] = p
        /\ \A j \in Inodes \ {i} : maker'[j] = maker[j]
    BY <1>0, <1>1, <1>2, <1>3
  <1>5. contested \subseteq contested' /\ contested' \subseteq Paths
    BY <1>0, <1>3
  <1>6. \A g \in Paths \ {f} : at[g] # i
    BY <1>1 DEF Inv, PathsFit
  <1>7. \A q \in Procs : job[q].into # i
    BY <1>1 DEF Inv, Fits, FitsItsStage, HoldsItsTarget
  <1>8. \A q \in Past(f) : f \in contested' \/ pc'[q] # pc[q]
    BY <1>0, PathsAssumption DEF Past
  <1>9. PathsMayChange
    BY <1>1, <1>2, <1>4, <1>8 DEF PathsMayChange
  <1>10. FilesMayChange
    BY <1>1, <1>4, <1>5 DEF FilesMayChange
  <1>11. OthersKeepKinds(p)
    BY <1>4, <1>7
      DEF OthersKeepKinds, Inv, Fits, HoldsItsTarget, Holding
  <1> QED BY <1>1, <1>2, <1>4, <1>5, <1>6, <1>7, <1>9, <1>10, <1>11

\* The file that an operation created is in its hands.
LEMMA CreatedIsHeld ==
    ASSUME Inv, NEW p \in Procs, NEW f \in Paths, NEW i,
           at'[f] = i, \A g \in Paths \ {f} : at'[g] = at[g] /\ at[g] # i,
           maker' = [maker EXCEPT ![i] = p],
           job[p].into = None, job'[p].into = i,
           \A q \in Procs \ {p} : job'[q] = job[q],
           UNCHANGED <<abandoned, reports>>
    PROVE  UnfinishedOutputsAreRemoved'
  <1> SUFFICES ASSUME NEW g \in Paths, at'[g] # None, maker'[at'[g]] # None
               PROVE  \/ at'[g] \in abandoned
                      \/ \E r \in reports : r.inode = at'[g]
                      \/ \E q \in Procs : job'[q].into = at'[g]
    BY DEF UnfinishedOutputsAreRemoved
  <1>1. CASE g = f
    BY <1>1
  <1>2. CASE g # f
    <2>1. at'[g] = at[g] /\ at[g] \in Inodes
      BY <1>2 DEF Inv, TypeOK
    <2>2. maker'[at[g]] = maker[at[g]]
      BY <1>2, <2>1 DEF Inv, TypeOK
    <2>3. \/ at[g] \in abandoned
          \/ \E r \in reports : r.inode = at[g]
          \/ \E q \in Procs : job[q].into = at[g]
      BY <2>1, <2>2 DEF Inv, UnfinishedOutputsAreRemoved
    <2>4. ASSUME NEW q \in Procs, job[q].into = at[g]
          PROVE  \E r \in Procs : job'[r].into = at[g]
      BY <2>4, <2>1
    <2> QED BY <2>1, <2>3, <2>4
  <1> QED BY <1>1, <1>2

----------------------------------------------------------------------------
(* The actions                                                             *)

LEMMA ReceiptsStay ==
    ASSUME Inv, UNCHANGED reports
    PROVE  ReceiptsAreSound' /\ reports' \subseteq Report
  BY DEF Inv, TypeOK, ReceiptsAreSound

\* An operation that gives up before it created anything.
LEMMA GivingUpKeepsInv ==
    ASSUME Inv, NEW p \in Procs, Return(p), job[p].into = None,
           UNCHANGED <<fileVars, abandoned, contested, reports>>
    PROVE  Inv'
  <1>1. OthersKeepKinds(p)
    BY DEF OthersKeepKinds, fileVars
  <1>2. UnfinishedOutputsAreRemoved'
    BY ReturnedFits, UnfinishedStay DEF fileVars
  <1>3. abandoned' \subseteq Inodes
    BY DEF Inv, TypeOK
  <1> QED BY <1>1, <1>2, <1>3, FilesStay, ReturnedFits, ReceiptsStay,
             StepKeepsInv

\* An operation that looks at the files and goes on.
LEMMA GoingOnKeepsInv ==
    ASSUME Inv, NEW p \in Procs, NEW stage \in Stages, GoTo(p, stage),
           UNCHANGED <<fileVars, job, abandoned, contested, reports>>, Fits(p)'
    PROVE  Inv'
  <1>1. OthersKeepKinds(p)
    BY DEF OthersKeepKinds, fileVars
  <1>2. UnfinishedOutputsAreRemoved'
    BY UnfinishedStay DEF fileVars
  <1>3. abandoned' \subseteq Inodes
    BY DEF Inv, TypeOK
  <1> QED BY <1>1, <1>2, <1>3, FilesStay, MovedTypes, ReceiptsStay,
             StepKeepsInv

LEMMA BeginKeepsInv ==
    ASSUME Inv, NEW p \in Procs, NEW op \in Ops, NEW source \in Paths,
           NEW target \in Paths, Begin(p, op, source, target)
    PROVE  Inv'
  <1> DEFINE new == [op |-> op, source |-> source, target |-> target,
                     from |-> None, into |-> None, received |-> FALSE]
  <1>0. /\ pc[p] = "new" /\ job' = [job EXCEPT ![p] = new]
        /\ pc' = [pc EXCEPT ![p] = "source"]
        /\ UNCHANGED <<fileVars, abandoned, contested, reports>>
    BY DEF Begin, GoTo
  <1>1. new \in Job /\ new.into = None /\ new.op = op
        /\ new.source = source /\ new.target = target
    BY DEF Job
  <1> HIDE DEF new
  <1>2. /\ pc' \in [Procs -> Stages] /\ job' \in [Procs -> Job]
        /\ pc'[p] = "source" /\ job'[p] = new
        /\ \A q \in Procs \ {p} : pc'[q] = pc[q] /\ job'[q] = job[q]
    BY <1>0, <1>1 DEF Inv, TypeOK, Stages
  <1>3. Fits(p)'
    BY <1>1, <1>2 DEF Fits, FitsItsStage, HoldsItsTarget, OwnsItsTarget,
                      HasFinished, Relying, Holding
  <1>4. HoldersAgree'
    BY <1>1, <1>2 DEF Inv, HoldersAgree
  <1>5. job[p].into = None
    BY <1>0 DEF Inv, Fits, FitsItsStage, Holding
  <1>6. UnfinishedOutputsAreRemoved'
    BY <1>0, <1>2, <1>5, UnfinishedStay DEF fileVars
  <1>7. OthersKeepKinds(p) /\ abandoned' \subseteq Inodes
    BY <1>0 DEF OthersKeepKinds, fileVars, Inv, TypeOK
  <1> QED BY <1>0, <1>2, <1>3, <1>4, <1>6, <1>7, FilesStay, ReceiptsStay,
             StepKeepsInv

LEMMA CheckSourceKeepsInv ==
    ASSUME Inv, NEW p \in Procs, CheckSource(p)
    PROVE  Inv'
  <1>0. Fits(p) /\ pc[p] = "source" /\ job[p].into = None
        /\ UNCHANGED <<fileVars, abandoned, contested, reports>>
    BY DEF Inv, CheckSource, Fits, FitsItsStage, Holding
  <1>1. CASE Return(p)
    BY <1>0, <1>1, GivingUpKeepsInv
  <1>2. CASE GoTo(p, "target") /\ UNCHANGED job
    <2>1. pc'[p] = "target" /\ "target" \in Stages
      BY <1>2 DEF GoTo, Inv, TypeOK, Stages
    <2>2. Fits(p)'
      BY <1>0, <1>2, <2>1 DEF Fits, FitsItsStage, HoldsItsTarget,
                              OwnsItsTarget, HasFinished, Relying, Holding
    <2> QED BY <1>0, <1>2, <2>1, <2>2, GoingOnKeepsInv
  <1> QED BY <1>1, <1>2 DEF CheckSource

LEMMA CheckTargetKeepsInv ==
    ASSUME Inv, NEW p \in Procs, CheckTarget(p)
    PROVE  Inv'
  <1>0. Fits(p) /\ pc[p] = "target" /\ job[p].into = None
        /\ UNCHANGED <<fileVars, abandoned, contested, reports>>
    BY DEF Inv, CheckTarget, Fits, FitsItsStage, Holding
  <1>1. CASE Return(p)
    BY <1>0, <1>1, GivingUpKeepsInv
  <1>2. CASE GoTo(p, "open") /\ UNCHANGED job /\ IsNew(job[p].target)
    <2>1. pc'[p] = "open" /\ "open" \in Stages
      BY <1>2 DEF GoTo, Inv, TypeOK, Stages
    <2>2. at[job[p].target] = None /\ job[p].target # Live
      BY <1>2 DEF IsNew, Inv, PathsFit
    <2>3. Fits(p)'
      BY <1>0, <1>2, <2>1, <2>2
        DEF Fits, FitsItsStage, HoldsItsTarget, OwnsItsTarget, HasFinished,
            Relying, Holding, fileVars
    <2> QED BY <1>0, <1>2, <2>1, <2>3, GoingOnKeepsInv
  <1> QED BY <1>1, <1>2 DEF CheckTarget

\* What Connect knows when there is a source and the target is open.
LEMMA ConnectKeepsInv ==
    ASSUME Inv, NEW p \in Procs, Connect(p)
    PROVE  Inv'
  <1> DEFINE from == at[job[p].source]
             target == job[p].target
             had == \E r \in reports : r.inode = from
  <1>0. /\ Fits(p) /\ pc[p] = "open" /\ job[p].op \in Ops \ {"convert"}
        /\ job[p].source \in Paths /\ target \in Paths /\ target # Live
        /\ job[p].into = None /\ job[p] \in Job
        /\ UNCHANGED <<abandoned, reports>>
    BY DEF Inv, TypeOK, Connect, Fits, FitsItsStage, Holding, Relying
  <1>1. CASE from = None /\ Return(p) /\ UNCHANGED <<fileVars, contested>>
    BY <1>0, <1>1, GivingUpKeepsInv
  <1>2. ASSUME NEW i \in Inodes, from # None, GoTo(p, "copy"),
               job' = [job EXCEPT ![p].from = from, ![p].into = i,
                                  ![p].received = had]
        PROVE  /\ pc' \in [Procs -> Stages] /\ job' \in [Procs -> Job]
               /\ pc'[p] = "copy"
               /\ job'[p].op = job[p].op /\ job'[p].source = job[p].source
               /\ job'[p].target = target /\ job'[p].into = i
               /\ job'[p].from \in Inodes
               /\ \A q \in Procs \ {p} : pc'[q] = pc[q] /\ job'[q] = job[q]
    <2>1. from \in Inodes /\ had \in BOOLEAN
      <3>1. at \in [Paths -> Inodes \cup {None}]
        BY DEF Inv, TypeOK
      <3>2. from \in Inodes
        BY <1>0, <1>2, <3>1
      <3>3. had \in BOOLEAN
        OBVIOUS
      <3> QED BY <3>2, <3>3
    <2> HIDE DEF from, had
    <2>2. pc' \in [Procs -> Stages] /\ pc'[p] = "copy"
          /\ \A q \in Procs \ {p} : pc'[q] = pc[q]
      BY <1>2 DEF GoTo, Inv, TypeOK, Stages
    <2>3. job \in [Procs -> Job]
      BY DEF Inv, TypeOK
    <2>4. \A q \in Procs \ {p} : job'[q] = job[q]
      BY <1>2, <2>3
    <2>5. /\ job'[p].op = job[p].op /\ job'[p].source = job[p].source
          /\ job'[p].target = target
      BY <1>2, <2>3 DEF Job
    <2>6. job'[p].into = i /\ job'[p].from = from
      BY <1>2, <2>3 DEF Job
    <2>7. job' \in [Procs -> Job]
      <3> DEFINE opened == [job[p] EXCEPT !.from = from, !.into = i,
                                          !.received = had]
      <3>1. job[p] \in Job
        BY <2>3
      <3>2. opened \in Job
        BY <2>1, <3>1 DEF Job
      <3>3. job' = [job EXCEPT ![p] = opened]
        BY <1>2, <2>3
      <3> HIDE DEF opened
      <3> QED BY <2>3, <3>2, <3>3
    <2> QED BY <2>1, <2>2, <2>4, <2>5, <2>6, <2>7
  <1>3. ASSUME from # None, at[target] # None, UNCHANGED <<fileVars, contested>>,
               job' = [job EXCEPT ![p].from = from, ![p].into = at[target],
                                  ![p].received = had],
               GoTo(p, "copy")
        PROVE  Inv'
    <2>1. at[target] \in Inodes /\ disk[at[target]].kind # "unused"
          /\ \A f \in Paths : at[f] = at[target] => f = target
      BY <1>0, <1>3 DEF Inv, TypeOK, PathsFit
    <2>2. target \in contested
      BY <1>0, <1>3 DEF Fits, OwnsItsTarget, Relying
    <2>3. /\ pc' \in [Procs -> Stages] /\ job' \in [Procs -> Job]
          /\ pc'[p] = "copy"
          /\ job'[p].op = job[p].op /\ job'[p].source = job[p].source
          /\ job'[p].target = target /\ job'[p].into = at[target]
          /\ job'[p].from \in Inodes
          /\ \A q \in Procs \ {p} : pc'[q] = pc[q] /\ job'[q] = job[q]
      BY <1>2, <1>3, <2>1
    <2> HIDE DEF from, had, target
    <2>4. FitsItsStage(p)'
      BY <1>0, <2>3 DEF FitsItsStage, Holding, target
    <2>5. HoldsItsTarget(p)'
      BY <1>3, <2>1, <2>3 DEF HoldsItsTarget, fileVars
    <2>6. OwnsItsTarget(p)' /\ HasFinished(p)'
      BY <1>3, <2>2, <2>3 DEF OwnsItsTarget, HasFinished
    <2>7. HoldersAgree'
      <3>1. \A q \in Procs : job[q].into = at[target] => job[q].target = target
        <4> SUFFICES ASSUME NEW q \in Procs, job[q].into = at[target]
                     PROVE  job[q].target = target
          OBVIOUS
        <4>1. HoldsItsTarget(q) /\ pc[q] \in Holding
          BY <1>3 DEF Inv, Fits, FitsItsStage
        <4> QED BY <4>1, <1>0 DEF HoldsItsTarget, target
      <3> QED BY <2>3, <3>1 DEF Inv, HoldersAgree
    <2>8. OthersKeepKinds(p) /\ abandoned' \subseteq Inodes
      BY <1>0, <1>3 DEF OthersKeepKinds, fileVars, Inv, TypeOK
    <2>9. UnfinishedOutputsAreRemoved'
      <3>1. /\ \A f \in Paths : at'[f] # None /\ at'[f] = job[p].into =>
                \/ job'[p].into = job[p].into
                \/ job[p].into \in abandoned'
                \/ \E r \in reports' : r.inode = job[p].into
            /\ \A f \in Paths : at'[f] \in {at[f], None}
            /\ maker' = maker
        BY <1>0, <1>3 DEF fileVars
      <3> QED BY <1>0, <2>3, <3>1, UnfinishedStay
    <2> QED BY <1>0, <1>3, <2>3, <2>4, <2>5, <2>6, <2>7, <2>8, <2>9,
               FilesStay, ReceiptsStay, StepKeepsInv DEF Fits
  <1>4. ASSUME from # None, at[target] = None, NEW i \in Unused,
               Create(p, target, i, "empty"),
               job' = [job EXCEPT ![p].from = from, ![p].into = i,
                                  ![p].received = had],
               GoTo(p, "copy")
        PROVE  Inv'
    <2>1. /\ pc' \in [Procs -> Stages] /\ job' \in [Procs -> Job]
          /\ pc'[p] = "copy"
          /\ job'[p].op = job[p].op /\ job'[p].source = job[p].source
          /\ job'[p].target = target /\ job'[p].into = i
          /\ job'[p].from \in Inodes
          /\ \A q \in Procs \ {p} : pc'[q] = pc[q] /\ job'[q] = job[q]
      BY <1>2, <1>4 DEF Unused
    <2> HIDE DEF from, had, target
    <2>2. "empty" \in Kinds \ {"unused"} /\ pc'[p] # pc[p]
      BY <1>0, <2>1 DEF Kinds
    <2>3. /\ PathsMayChange /\ FilesMayChange /\ OthersKeepKinds(p)
          /\ at' \in [Paths -> Inodes \cup {None}]
          /\ maker' \in [Inodes -> Procs \cup {None}]
          /\ contested' \subseteq Paths
          /\ i \in Inodes /\ at'[target] = i /\ maker'[i] = p
          /\ disk'[i].kind = "empty"
          /\ \A g \in Paths \ {target} : at'[g] = at[g] /\ at[g] # i
          /\ \A q \in Procs : job[q].into # i
      BY <1>0, <1>4, <2>2, CreateFacts
    <2>4. FitsItsStage(p)' /\ HasFinished(p)'
      BY <1>0, <2>1 DEF FitsItsStage, Holding, HasFinished, target
    <2>5. HoldsItsTarget(p)'
      BY <2>1, <2>3, PathsAssumption DEF HoldsItsTarget
    <2>6. OwnsItsTarget(p)'
      BY <2>1, <2>3 DEF OwnsItsTarget
    <2>7. HoldersAgree'
      BY <2>1, <2>3 DEF Inv, HoldersAgree
    <2>8. UnfinishedOutputsAreRemoved'
      BY <1>0, <1>4, <2>1, <2>3, CreatedIsHeld DEF Create
    <2>9. abandoned' \subseteq Inodes
      BY <1>0 DEF Inv, TypeOK
    <2> QED BY <1>0, <2>1, <2>3, <2>4, <2>5, <2>6, <2>7, <2>8, <2>9,
               ReceiptsStay, StepKeepsInv DEF Fits
  <1> QED BY <1>1, <1>3, <1>4 DEF Connect

LEMMA OpenExclusivelyKeepsInv ==
    ASSUME Inv, NEW p \in Procs, OpenExclusively(p)
    PROVE  Inv'
  <1> DEFINE target == job[p].target
  <1>0. /\ Fits(p) /\ pc[p] = "open" /\ job[p].op = "convert"
        /\ job[p].source \in Paths /\ target \in Paths /\ target # Live
        /\ job[p].into = None /\ job[p] \in Job
        /\ UNCHANGED <<abandoned, reports>>
    <2>1. Fits(p) /\ job[p] \in Job
      BY DEF Inv, TypeOK
    <2>2. pc[p] = "open" /\ job[p].op = "convert"
          /\ UNCHANGED <<abandoned, reports>>
      BY DEF OpenExclusively
    <2> QED BY <2>1, <2>2 DEF Fits, FitsItsStage, Holding, Relying
  <1>1. CASE Return(p) /\ UNCHANGED <<fileVars, contested>>
    BY <1>0, <1>1, GivingUpKeepsInv
  <1>2. ASSUME at[target] = None, NEW i \in Unused,
               Create(p, target, i, "partial"),
               job' = [job EXCEPT ![p].into = i], GoTo(p, "write")
        PROVE  Inv'
    <2>1. /\ pc' \in [Procs -> Stages] /\ job' \in [Procs -> Job]
          /\ pc'[p] = "write"
          /\ job'[p].op = job[p].op /\ job'[p].source = job[p].source
          /\ job'[p].target = target /\ job'[p].into = i
          /\ \A q \in Procs \ {p} : pc'[q] = pc[q] /\ job'[q] = job[q]
      <3>1. pc' \in [Procs -> Stages] /\ pc'[p] = "write"
            /\ \A q \in Procs \ {p} : pc'[q] = pc[q]
        BY <1>2 DEF GoTo, Inv, TypeOK, Stages
      <3>2. job \in [Procs -> Job] /\ i \in Inodes
        BY DEF Inv, TypeOK, Unused
      <3> QED BY <1>2, <3>1, <3>2 DEF Job
    <2> HIDE DEF target
    <2>2. "partial" \in Kinds \ {"unused"} /\ pc'[p] # pc[p]
      BY <1>0, <2>1 DEF Kinds
    <2>3. /\ PathsMayChange /\ FilesMayChange /\ OthersKeepKinds(p)
          /\ at' \in [Paths -> Inodes \cup {None}]
          /\ maker' \in [Inodes -> Procs \cup {None}]
          /\ contested' \subseteq Paths
          /\ i \in Inodes /\ at'[target] = i /\ maker'[i] = p
          /\ disk'[i].kind = "partial"
          /\ \A g \in Paths \ {target} : at'[g] = at[g] /\ at[g] # i
          /\ \A q \in Procs : job[q].into # i
      BY <1>0, <1>2, <2>2, CreateFacts
    <2>4. FitsItsStage(p)' /\ HasFinished(p)'
      BY <1>0, <2>1, <2>3 DEF FitsItsStage, Holding, HasFinished, target, Ops
    <2>5. HoldsItsTarget(p)'
      BY <2>1, <2>3, PathsAssumption DEF HoldsItsTarget
    <2>6. OwnsItsTarget(p)'
      BY <2>1, <2>3 DEF OwnsItsTarget
    <2>7. HoldersAgree'
      BY <2>1, <2>3 DEF Inv, HoldersAgree
    <2>8. UnfinishedOutputsAreRemoved'
      <3>1. maker' = [maker EXCEPT ![i] = p]
        BY <1>2 DEF Create
      <3>2. /\ target \in Paths /\ at'[target] = i
            /\ \A g \in Paths \ {target} : at'[g] = at[g] /\ at[g] # i
        BY <1>0, <2>3
      <3>3. /\ job[p].into = None /\ job'[p].into = i
            /\ \A q \in Procs \ {p} : job'[q] = job[q]
            /\ UNCHANGED <<abandoned, reports>>
        BY <1>0, <2>1
      <3> QED BY <3>1, <3>2, <3>3, CreatedIsHeld
    <2>9. abandoned' \subseteq Inodes
      BY <1>0 DEF Inv, TypeOK
    <2> QED BY <1>0, <2>1, <2>3, <2>4, <2>5, <2>6, <2>7, <2>8, <2>9,
               ReceiptsStay, StepKeepsInv DEF Fits
  <1> QED BY <1>1, <1>2 DEF OpenExclusively, MayOpen

\* unlink: what the operation held is nowhere any more.
LEMMA FailKeepsInv ==
    ASSUME Inv, NEW p \in Procs, pc[p] \in Relying, Fail(p)
    PROVE  Inv'
  <1>0. /\ job[p].target \in Paths /\ job[p].target # Live
        /\ at' = [at EXCEPT ![job[p].target] = None] /\ Return(p)
        /\ UNCHANGED <<disk, maker, abandoned, contested, reports>>
        /\ \A f \in Paths : at[f] # None /\ at[f] = job[p].into =>
             f = job[p].target
    BY DEF Inv, Fits, FitsItsStage, HoldsItsTarget, Holding, Relying, Fail,
           RemovedTarget
  <1>1. /\ at \in [Paths -> Inodes \cup {None}]
        /\ disk \in [Inodes -> Content]
        /\ maker \in [Inodes -> Procs \cup {None}]
        /\ abandoned \subseteq Inodes /\ contested \subseteq Paths
    BY DEF Inv, TypeOK
  <1>2. /\ at' \in [Paths -> Inodes \cup {None}]
        /\ at'[job[p].target] = None
        /\ \A f \in Paths \ {job[p].target} : at'[f] = at[f]
    BY <1>0, <1>1
  <1>3. PathsMayChange
    BY <1>0, <1>2 DEF PathsMayChange
  <1>4. FilesMayChange /\ OthersKeepKinds(p)
    BY <1>0, <1>1 DEF FilesMayChange, OthersKeepKinds
  <1>5. UnfinishedOutputsAreRemoved'
    <2>1. \A f \in Paths : at'[f] \in {at[f], None}
      BY <1>2
    <2>2. \A f \in Paths : at'[f] # None => at'[f] # job[p].into
      BY <1>0, <1>2
    <2> QED BY <1>0, <2>1, <2>2, ReturnedFits, UnfinishedStay
  <1> QED BY <1>0, <1>1, <1>2, <1>3, <1>4, <1>5, ReturnedFits, ReceiptsStay,
             StepKeepsInv

\* Writing to the file that an operation holds is nobody else's concern.
LEMMA WriteFacts ==
    ASSUME Inv, NEW p \in Procs, pc[p] \in Holding, NEW c \in Content,
           c.kind # "unused", disk' = [disk EXCEPT ![job[p].into] = c],
           UNCHANGED <<at, maker, contested>>
    PROVE  /\ PathsMayChange /\ FilesMayChange /\ OthersKeepKinds(p)
           /\ at' \in [Paths -> Inodes \cup {None}]
           /\ maker' \in [Inodes -> Procs \cup {None}]
           /\ contested' \subseteq Paths
           /\ disk'[job[p].into] = c
  <1>1. /\ disk \in [Inodes -> Content] /\ job[p].into \in Inodes
        /\ at \in [Paths -> Inodes \cup {None}] /\ contested \subseteq Paths
        /\ maker \in [Inodes -> Procs \cup {None}]
    BY DEF Inv, TypeOK, Fits, HoldsItsTarget
  <1>2. /\ disk' \in [Inodes -> Content] /\ disk'[job[p].into] = c
        /\ \A i \in Inodes \ {job[p].into} : disk'[i] = disk[i]
    BY <1>1
  <1>3. PathsMayChange
    BY DEF PathsMayChange
  <1>4. FilesMayChange
    BY <1>2 DEF FilesMayChange
  <1>5. OthersKeepKinds(p)
    <2> SUFFICES ASSUME NEW q \in Procs \ {p}, pc[q] = "report",
                        job[q].target \notin contested
                 PROVE  disk'[job[q].into].kind = disk[job[q].into].kind
      BY DEF OthersKeepKinds
    <2>1. job[q].into # job[p].into
      BY HolderIsAlone DEF Holding
    <2>2. job[q].into \in Inodes
      BY DEF Inv, Fits, HoldsItsTarget, Holding
    <2> QED BY <1>2, <2>1, <2>2
  <1> QED BY <1>1, <1>2, <1>3, <1>4, <1>5

LEMMA CopyKeepsInv ==
    ASSUME Inv, NEW p \in Procs, Copy(p)
    PROVE  Inv'
  <1>0. /\ Fits(p) /\ pc[p] = "copy" /\ job[p].from \in Inodes
        /\ GoTo(p, "verify") /\ "verify" \in Stages
        /\ disk[job[p].from].kind \in {"empty", "damaged", "database"}
        /\ disk' = [disk EXCEPT ![job[p].into] = disk[job[p].from]]
        /\ UNCHANGED <<at, maker, job, abandoned, contested, reports>>
    BY DEF Inv, Copy, Copied, Fits, FitsItsStage, Stages
  <1>1. disk[job[p].from] \in Content /\ pc[p] \in Holding
    BY <1>0 DEF Inv, TypeOK, Holding
  <1>2. /\ PathsMayChange /\ FilesMayChange /\ OthersKeepKinds(p)
        /\ at' \in [Paths -> Inodes \cup {None}]
        /\ maker' \in [Inodes -> Procs \cup {None}]
        /\ contested' \subseteq Paths
        /\ disk'[job[p].into].kind # "unused"
    BY <1>0, <1>1, WriteFacts
  <1>3. pc'[p] = "verify"
    BY <1>0 DEF GoTo, Inv, TypeOK
  <1>4. FitsItsStage(p)' /\ HasFinished(p)'
    BY <1>0, <1>3 DEF Fits, FitsItsStage, HasFinished, Holding, Relying
  <1>5. HoldsItsTarget(p)' /\ OwnsItsTarget(p)'
    BY <1>0, <1>1, <1>2, <1>3
      DEF Fits, HoldsItsTarget, OwnsItsTarget, Holding, Relying
  <1>6. UnfinishedOutputsAreRemoved'
    BY <1>0, UnfinishedStay
  <1>7. abandoned' \subseteq Inodes
    BY <1>0 DEF Inv, TypeOK
  <1> QED BY <1>0, <1>2, <1>4, <1>5, <1>6, <1>7, MovedTypes, ReceiptsStay,
             StepKeepsInv DEF Fits

LEMMA VerifyKeepsInv ==
    ASSUME Inv, NEW p \in Procs, Verify(p)
    PROVE  Inv'
  <1>0. Fits(p) /\ pc[p] = "verify" /\ pc[p] \in Holding /\ pc[p] \in Relying
    BY DEF Inv, Verify, Holding, Relying
  <1>1. CASE Fail(p)
    BY <1>0, <1>1, FailKeepsInv
  <1>2. CASE /\ Verified(disk[job[p].into]) /\ GoTo(p, "report")
             /\ UNCHANGED <<fileVars, job, abandoned, contested, reports>>
    <2>1. pc'[p] = "report" /\ "report" \in Stages
      BY <1>2 DEF GoTo, Inv, TypeOK, Stages
    <2>2. disk[job[p].into].kind \in {"empty", "database"}
      BY <1>2 DEF Verified, Sound
    <2>3. FitsItsStage(p)' /\ HoldsItsTarget(p)' /\ OwnsItsTarget(p)'
      BY <1>0, <1>2, <2>1 DEF Fits, FitsItsStage, HoldsItsTarget,
                              OwnsItsTarget, Holding, Relying, fileVars
    <2>4. HasFinished(p)'
      BY <1>0, <1>2, <2>1, <2>2
        DEF Fits, FitsItsStage, HasFinished, Finished, fileVars
    <2> QED BY <1>2, <2>1, <2>3, <2>4, GoingOnKeepsInv DEF Fits
  <1> QED BY <1>1, <1>2 DEF Verify

LEMMA WriteKeepsInv ==
    ASSUME Inv, NEW p \in Procs, Write(p)
    PROVE  Inv'
  <1>0. /\ Fits(p) /\ pc[p] = "write" /\ pc[p] \in Holding
        /\ job[p].op = "convert" /\ job[p].into \in Inodes
        /\ maker[job[p].into] = p /\ job[p].target # Live
        /\ UNCHANGED <<at, maker, contested, reports>>
    BY DEF Inv, Write, Fits, FitsItsStage, HoldsItsTarget, Holding, Relying
  <1>1. CASE /\ disk' = [disk EXCEPT ![job[p].into] = Of("neutral")]
             /\ GoTo(p, "report") /\ UNCHANGED <<job, abandoned>>
    <2>1. Of("neutral") \in Content /\ Of("neutral").kind = "neutral"
      BY CommitsAssumption DEF Of, Content, Kinds
    <2>2. /\ PathsMayChange /\ FilesMayChange /\ OthersKeepKinds(p)
          /\ at' \in [Paths -> Inodes \cup {None}]
          /\ maker' \in [Inodes -> Procs \cup {None}]
          /\ contested' \subseteq Paths
          /\ disk'[job[p].into] = Of("neutral")
      BY <1>0, <1>1, <2>1, WriteFacts
    <2>3. pc'[p] = "report" /\ "report" \in Stages
      BY <1>1 DEF GoTo, Inv, TypeOK, Stages
    <2>4. FitsItsStage(p)'
      BY <1>0, <1>1, <2>3 DEF Fits, FitsItsStage, Holding, Relying
    <2>5. HoldsItsTarget(p)' /\ OwnsItsTarget(p)'
      BY <1>0, <1>1, <2>1, <2>2, <2>3
        DEF Fits, HoldsItsTarget, OwnsItsTarget, Holding, Relying
    <2>6. HasFinished(p)'
      BY <1>0, <1>1, <2>1, <2>2, <2>3 DEF HasFinished, Finished
    <2>7. UnfinishedOutputsAreRemoved'
      BY <1>0, <1>1, UnfinishedStay
    <2>8. abandoned' \subseteq Inodes
      BY <1>1 DEF Inv, TypeOK
    <2> QED BY <1>0, <1>1, <2>2, <2>3, <2>4, <2>5, <2>6, <2>7, <2>8,
               MovedTypes, ReceiptsStay, StepKeepsInv DEF Fits
  <1>2. CASE /\ abandoned' = abandoned \cup {job[p].into}
             /\ Return(p) /\ UNCHANGED disk
    <2>1. abandoned' \subseteq Inodes
      BY <1>0, <1>2 DEF Inv, TypeOK
    <2>2. OthersKeepKinds(p)
      BY <1>2 DEF OthersKeepKinds
    <2>3. UnfinishedOutputsAreRemoved'
      BY <1>0, <1>2, ReturnedFits, UnfinishedStay
    <2>4. UNCHANGED <<fileVars, contested>>
      BY <1>0, <1>2 DEF fileVars
    <2> QED BY <1>0, <1>2, <2>1, <2>2, <2>3, <2>4, FilesStay, ReturnedFits,
               ReceiptsStay, StepKeepsInv
  <1> QED BY <1>1, <1>2 DEF Write

\* The receipt is for the file that was verified or written, unless the path
\* filled up behind the check.
LEMMA SucceedKeepsInv ==
    ASSUME Inv, NEW p \in Procs, Succeed(p)
    PROVE  Inv'
  <1> DEFINE target == job[p].target
             i == Reported(p)
             new == [op |-> job[p].op, from |-> job[p].from,
                     inode |-> i, received |-> job[p].received,
                     content |-> disk[i],
                     contested |-> target \in contested]
  <1>0. /\ Fits(p) /\ pc[p] = "report" /\ target \in Paths
        /\ job[p].op \in Ops /\ job[p] \in Job
        /\ reports' = IF i = None THEN reports
                                  ELSE reports \cup {new}
        /\ Return(p) /\ UNCHANGED <<fileVars, abandoned, contested>>
    BY DEF Inv, TypeOK, Succeed, Fits, FitsItsStage
  <1>1. ASSUME i # None
        PROVE  new \in Report /\ new.inode = i
               /\ (~ new.contested =>
                     IF new.op = "convert" THEN new.content.kind = "neutral"
                                           ELSE Sound(new.content))
    <2>1. i \in Inodes /\ disk[i] \in Content
      BY <1>0, <1>1 DEF Inv, TypeOK, Reported, Fits, HoldsItsTarget, Holding
    <2>2. new \in Report
      BY <1>0, <2>1 DEF Report, Job
    <2>3. target \notin contested => /\ i = job[p].into
                                     /\ Finished(job[p].op, disk[i].kind)
      BY <1>0, <1>1 DEF Fits, OwnsItsTarget, HasFinished, Relying, Reported
    <2> QED BY <2>2, <2>3 DEF Finished, Sound
  <1>2. reports \subseteq reports'
        /\ (i # None => \E r \in reports' : r.inode = i)
    BY <1>0, <1>1
  <1>3. reports' \subseteq Report /\ ReceiptsAreSound'
    <2> HIDE DEF new
    <2>1. reports \subseteq Report /\ ReceiptsAreSound
      BY DEF Inv, TypeOK
    <2>2. CASE i = None
      BY <1>0, <2>1, <2>2 DEF ReceiptsAreSound
    <2>3. CASE i # None
      BY <1>0, <1>1, <2>1, <2>3 DEF ReceiptsAreSound
    <2> QED BY <2>2, <2>3
  <1>4. UnfinishedOutputsAreRemoved'
    <2>1. \A f \in Paths : at'[f] # None /\ at'[f] = job[p].into =>
            \E r \in reports' : r.inode = job[p].into
      BY <1>0, <1>2 DEF Fits, HoldsItsTarget, Holding, fileVars, Reported
    <2> QED BY <1>0, <1>2, <2>1, ReturnedFits, UnfinishedStay DEF fileVars
  <1>5. abandoned' \subseteq Inodes /\ OthersKeepKinds(p)
    BY <1>0 DEF Inv, TypeOK, OthersKeepKinds, fileVars
  <1> QED BY <1>0, <1>3, <1>4, <1>5, FilesStay, ReturnedFits, StepKeepsInv

LEMMA CrashKeepsInv ==
    ASSUME Inv, NEW p \in Procs, Crash(p)
    PROVE  Inv'
  <1>0. /\ Return(p) /\ UNCHANGED <<at, maker, contested, reports>>
        /\ abandoned' = abandoned \cup ({job[p].into} \ {None})
    BY DEF Crash
  <1>1. abandoned' \subseteq Inodes
    BY <1>0 DEF Inv, TypeOK, Job
  <1>2. UnfinishedOutputsAreRemoved'
    BY <1>0, ReturnedFits, UnfinishedStay
  <1>3. CASE UNCHANGED disk
    <2>1. OthersKeepKinds(p) /\ UNCHANGED <<fileVars, contested>>
      BY <1>0, <1>3 DEF OthersKeepKinds, fileVars
    <2> QED BY <1>0, <1>1, <1>2, <2>1, FilesStay, ReturnedFits, ReceiptsStay,
               StepKeepsInv
  <1>4. CASE pc[p] = "copy" /\ disk' = [disk EXCEPT ![job[p].into] = Of("torn")]
    <2>1. /\ Of("torn") \in Content /\ Of("torn").kind # "unused"
          /\ pc[p] \in Holding
      BY <1>4, CommitsAssumption DEF Of, Content, Kinds, Holding
    <2>2. /\ PathsMayChange /\ FilesMayChange /\ OthersKeepKinds(p)
          /\ at' \in [Paths -> Inodes \cup {None}]
          /\ maker' \in [Inodes -> Procs \cup {None}]
          /\ contested' \subseteq Paths
      BY <1>0, <1>4, <2>1, WriteFacts
    <2> QED BY <1>0, <1>1, <1>2, <2>2, ReturnedFits, ReceiptsStay,
               StepKeepsInv
  <1> QED BY <1>3, <1>4 DEF Crash

----------------------------------------------------------------------------
\* What others do, and commits of the database in use.
LEMMA OthersKeepInv ==
    ASSUME Inv, UNCHANGED <<procVars, abandoned, reports>>,
           PathsMayChange, FilesMayChange, OthersKeepKinds(None),
           at' \in [Paths -> Inodes \cup {None}],
           maker' \in [Inodes -> Procs \cup {None}],
           contested' \subseteq Paths, UnfinishedOutputsAreRemoved'
    PROVE  Inv'
  <1>1. /\ None \notin Procs
        /\ pc' \in [Procs -> Stages] /\ job' \in [Procs -> Job]
        /\ \A q \in Procs \ {None} : pc'[q] = pc[q] /\ job'[q] = job[q]
        /\ abandoned' \subseteq Inodes /\ HoldersAgree'
    BY PathsAssumption DEF procVars, Inv, TypeOK, HoldersAgree
  <1> QED BY <1>1, ReceiptsStay, StepKeepsInv

LEMMA OthersCreateKeepsInv ==
    ASSUME Inv, NEW f \in Paths, OthersCreate(f)
    PROVE  Inv'
  <1>0. at[f] = None /\ UNCHANGED <<procVars, abandoned, reports>>
        /\ None \notin Procs
    BY PathsAssumption DEF OthersCreate
  <1>1. PICK i \in Unused : Create(None, f, i, "other")
    BY DEF OthersCreate
  <1>2. "other" \in Kinds \ {"unused"}
    BY DEF Kinds
  <1>3. /\ PathsMayChange /\ FilesMayChange /\ OthersKeepKinds(None)
        /\ at' \in [Paths -> Inodes \cup {None}]
        /\ maker' \in [Inodes -> Procs \cup {None}]
        /\ contested' \subseteq Paths
        /\ at'[f] = i /\ maker'[i] = None
        /\ \A g \in Paths \ {f} : at'[g] = at[g] /\ at[g] # i
    BY <1>0, <1>1, <1>2, CreateFacts
  <1>4. maker' = [maker EXCEPT ![i] = None]
    BY <1>1 DEF Create
  <1>5. UnfinishedOutputsAreRemoved'
    <2> SUFFICES ASSUME NEW g \in Paths, at'[g] # None, maker'[at'[g]] # None
                 PROVE  \/ at'[g] \in abandoned'
                        \/ \E r \in reports' : r.inode = at'[g]
                        \/ \E q \in Procs : job'[q].into = at'[g]
      BY DEF UnfinishedOutputsAreRemoved
    <2>1. g # f /\ at'[g] = at[g] /\ at[g] \in Inodes
      BY <1>3 DEF Inv, TypeOK
    <2>2. maker'[at[g]] = maker[at[g]]
      BY <1>3, <1>4, <2>1 DEF Inv, TypeOK
    <2> QED BY <1>0, <2>1, <2>2 DEF Inv, UnfinishedOutputsAreRemoved, procVars
  <1> QED BY <1>0, <1>3, <1>5, OthersKeepInv

LEMMA OthersRemoveKeepsInv ==
    ASSUME Inv, NEW f \in Paths, OthersRemove(f)
    PROVE  Inv'
  <1>0. /\ f # Live /\ at' = [at EXCEPT ![f] = None]
        /\ UNCHANGED <<disk, maker, procVars, abandoned, contested, reports>>
        /\ at \in [Paths -> Inodes \cup {None}]
        /\ disk \in [Inodes -> Content]
        /\ maker \in [Inodes -> Procs \cup {None}] /\ contested \subseteq Paths
    BY DEF OthersRemove, Inv, TypeOK
  <1>1. /\ at' \in [Paths -> Inodes \cup {None}] /\ at'[f] = None
        /\ \A g \in Paths \ {f} : at'[g] = at[g]
    BY <1>0
  <1>2. PathsMayChange
    BY <1>0, <1>1 DEF PathsMayChange
  <1>3. FilesMayChange /\ OthersKeepKinds(None)
    BY <1>0 DEF FilesMayChange, OthersKeepKinds
  <1>4. UnfinishedOutputsAreRemoved'
    BY <1>0, <1>1 DEF Inv, UnfinishedOutputsAreRemoved, procVars
  <1> QED BY <1>0, <1>1, <1>2, <1>3, <1>4, OthersKeepInv

LEMMA CommitKeepsInv == ASSUME Inv, Commit PROVE Inv'
  <1> DEFINE i == at[Live]
             c == [disk[i] EXCEPT !.commit = @ + 1]
  <1>0. /\ disk[i].commit < MaxCommits /\ disk' = [disk EXCEPT ![i] = c]
        /\ UNCHANGED <<at, maker, procVars, abandoned, contested, reports>>
    BY DEF Commit
  <1>1. i \in Inodes /\ disk \in [Inodes -> Content]
    BY PathsAssumption DEF Inv, TypeOK, PathsFit
  <1>2. c \in Content /\ c.kind = disk[i].kind
    BY <1>0, <1>1, CommitsAssumption DEF Content
  <1> HIDE DEF c, i
  <1>3. disk' \in [Inodes -> Content]
        /\ \A j \in Inodes : disk'[j].kind = disk[j].kind
    BY <1>0, <1>1, <1>2
  <1>4. PathsMayChange /\ FilesMayChange
    BY <1>0, <1>3 DEF PathsMayChange, FilesMayChange
  <1>5. OthersKeepKinds(None)
    BY <1>3 DEF OthersKeepKinds, Inv, Fits, HoldsItsTarget, Holding
  <1>6. UnfinishedOutputsAreRemoved'
    BY <1>0 DEF Inv, UnfinishedOutputsAreRemoved, procVars
  <1>7. /\ at' \in [Paths -> Inodes \cup {None}]
        /\ maker' \in [Inodes -> Procs \cup {None}]
        /\ contested' \subseteq Paths
    BY <1>0 DEF Inv, TypeOK
  <1> QED BY <1>0, <1>4, <1>5, <1>6, <1>7, OthersKeepInv

LEMMA InitEstablishesInv == Init => Inv
  <1> SUFFICES ASSUME Init PROVE Inv OBVIOUS
  <1>1. /\ at \in [Paths -> Inodes \cup {None}]
        /\ pc = [p \in Procs |-> "new"] /\ job = [p \in Procs |-> NoJob]
        /\ maker = [i \in Inodes |-> None]
        /\ abandoned = {} /\ contested = {} /\ reports = {}
    BY DEF Init
  <1>2. disk \in [Inodes -> Content]
    <2>1. \A k \in Kinds : Of(k) \in Content
      BY CommitsAssumption DEF Of, Content
    <2>2. {Of(k) : k \in {"unused", "damaged", "database", "export", "other"}}
            \subseteq Content
      BY <2>1 DEF Kinds
    <2>3. disk \in [Inodes -> {Of(k) : k \in {"unused", "damaged", "database",
                                               "export", "other"}}]
      BY DEF Init
    <2> QED BY <2>2, <2>3
  <1>3. NoJob \in Job /\ NoJob.into = None
    BY DEF NoJob, Job
  <1>4. TypeOK
    BY <1>1, <1>2, <1>3 DEF TypeOK, Stages
  <1>5. PathsFit
    BY <1>1 DEF Init, PathsFit
  <1>6. HoldersAgree /\ \A q \in Procs : Fits(q)
    BY <1>1, <1>3 DEF HoldersAgree, Fits, FitsItsStage, HoldsItsTarget,
                      OwnsItsTarget, HasFinished, Holding, Relying
  <1>7. ReceiptsAreSound /\ UnfinishedOutputsAreRemoved
    BY <1>1 DEF ReceiptsAreSound, UnfinishedOutputsAreRemoved
  <1> QED BY <1>4, <1>5, <1>6, <1>7 DEF Inv

LEMMA NextKeepsInv == Inv /\ [Next]_vars => Inv'
  <1> SUFFICES ASSUME Inv, [Next]_vars PROVE Inv' OBVIOUS
  <1>1. ASSUME NEW p \in Procs, NEW op \in Ops, NEW source \in Paths,
               NEW target \in Paths, Begin(p, op, source, target)
        PROVE  Inv'
    BY <1>1, BeginKeepsInv
  <1>2. ASSUME NEW p \in Procs, Step(p) PROVE Inv'
    <2>1. CASE CheckSource(p) \/ CheckTarget(p) \/ Connect(p)
               \/ OpenExclusively(p)
      BY <2>1, CheckSourceKeepsInv, CheckTargetKeepsInv, ConnectKeepsInv,
         OpenExclusivelyKeepsInv
    <2>2. CASE ConnectFails(p) \/ CopyFails(p)
      BY <2>2, FailKeepsInv DEF ConnectFails, CopyFails, Relying
    <2>3. CASE Copy(p) \/ Verify(p) \/ Write(p) \/ Succeed(p)
      BY <2>3, CopyKeepsInv, VerifyKeepsInv, WriteKeepsInv, SucceedKeepsInv
    <2> QED BY <1>2, <2>1, <2>2, <2>3 DEF Step
  <1>3. ASSUME NEW p \in Procs, Crash(p) PROVE Inv'
    BY <1>3, CrashKeepsInv
  <1>4. ASSUME NEW f \in Paths, OthersCreate(f) \/ OthersRemove(f) PROVE Inv'
    BY <1>4, OthersCreateKeepsInv, OthersRemoveKeepsInv
  <1>5. CASE Commit
    BY <1>5, CommitKeepsInv
  <1>6. CASE UNCHANGED vars
    <2>1. UNCHANGED <<fileVars, contested>>
          /\ UNCHANGED <<procVars, abandoned, reports>>
      BY <1>6 DEF vars
    <2>2. OthersKeepKinds(None) /\ UnfinishedOutputsAreRemoved'
      BY <2>1 DEF OthersKeepKinds, fileVars, procVars, Inv,
                  UnfinishedOutputsAreRemoved
    <2> QED BY <2>1, <2>2, FilesStay, OthersKeepInv
  <1> QED BY <1>1, <1>2, <1>3, <1>4, <1>5, <1>6 DEF Next

\* What an operation holds is what it created, while its path is uncontested.
THEOREM InvariantHolds == Spec => []Inv
  BY InitEstablishesInv, NextKeepsInv, PTL DEF Spec

\* The files, the operations and the receipts are well-formed.
THEOREM TypeCorrect == Spec => []TypeOK
  <1>1. Inv => TypeOK BY DEF Inv
  <1> QED BY <1>1, InvariantHolds, PTL

\* A backup or a restore that reports success (maintenance.py, _copy_verified)
\* leaves a file that passes quick_check, a conversion a complete one, unless
\* the path filled up behind the check.
THEOREM SoundReceipts == Spec => []ReceiptsAreSound
  <1>1. Inv => ReceiptsAreSound BY DEF Inv
  <1> QED BY <1>1, InvariantHolds, PTL

\* A file that an operation created is removed again, unless the operation
\* reported it, is at work on it, died or could not finish writing it.
THEOREM UnfinishedOutputsGo == Spec => []UnfinishedOutputsAreRemoved
  <1>1. Inv => UnfinishedOutputsAreRemoved BY DEF Inv
  <1> QED BY <1>1, InvariantHolds, PTL

----------------------------------------------------------------------------
(* The files of others                                                     *)

KeptFrom(p, f) == Kept(f) \/ (f \in contested /\ job[p].op # "convert")

\* Whoever does not touch a path or a file keeps it.
LEMMA UntouchedIsKept ==
    ASSUME Inv, NEW p \in Procs, NEW f \in Paths, UNCHANGED <<at, disk>>
    PROVE  KeptFrom(p, f)
  BY DEF KeptFrom, Kept

\* A new file takes the place of none.
LEMMA CreationKeeps ==
    ASSUME Inv, NEW p \in Procs, NEW f \in Paths, at[f] # None,
           NEW target \in Paths, at[target] = None, NEW i \in Unused,
           NEW kind, Create(p, target, i, kind)
    PROVE  KeptFrom(p, f)
  <1>1. /\ at' = [at EXCEPT ![target] = i]
        /\ disk' = [disk EXCEPT ![i] = Of(kind)]
    BY DEF Create
  <1>2. f # target /\ at[f] # i
    BY DEF Inv, PathsFit, Unused
  <1>3. at'[f] = at[f] /\ disk'[at[f]] = disk[at[f]]
    BY <1>1, <1>2 DEF Inv, TypeOK
  <1> QED BY <1>3 DEF KeptFrom, Kept

\* What an operation removes or writes to is its own, or contested.
LEMMA HeldIsOwnOrContested ==
    ASSUME Inv, NEW p \in Procs, NEW f \in Paths, pc[p] \in Holding,
           at[f] # None, maker[at[f]] # p,
           f = job[p].target \/ at[f] = job[p].into
    PROVE  f \in contested /\ (at[f] = job[p].into => pc[p] # "write")
  <1>1. f = job[p].target
    BY DEF Inv, Fits, HoldsItsTarget
  <1>2. f \in contested
    BY <1>1 DEF Inv, Fits, OwnsItsTarget, Holding, Relying
  <1>3. ASSUME at[f] = job[p].into, pc[p] = "write" PROVE FALSE
    <2>1. maker[job[p].into] = p /\ job[p].into \in Inodes
      BY <1>3 DEF Inv, Fits, FitsItsStage, HoldsItsTarget
    <2> QED BY <1>3, <2>1
  <1> QED BY <1>2, <1>3

LEMMA FailKeeps ==
    ASSUME Inv, NEW p \in Procs, NEW f \in Paths,
           pc[p] \in {"open", "copy", "verify"}, job[p].op # "convert",
           Fail(p), at[f] # None, maker[at[f]] # p
    PROVE  KeptFrom(p, f)
  <1>1. at' = [at EXCEPT ![job[p].target] = None] /\ disk' = disk
    BY DEF Fail, RemovedTarget
  <1>2. CASE f = job[p].target
    <2>1. f \in contested
      BY <1>2, HeldIsOwnOrContested DEF Inv, Fits, OwnsItsTarget, Holding, Relying
    <2> QED BY <2>1 DEF KeptFrom
  <1>3. CASE f # job[p].target
    BY <1>1, <1>3 DEF KeptFrom, Kept, Inv, TypeOK
  <1> QED BY <1>2, <1>3

LEMMA WritingKeeps ==
    ASSUME Inv, NEW p \in Procs, NEW f \in Paths, pc[p] \in Holding, NEW c,
           disk' = [disk EXCEPT ![job[p].into] = c], at' = at,
           pc[p] = "copy" \/ pc[p] = "write",
           at[f] # None, maker[at[f]] # p
    PROVE  KeptFrom(p, f)
  <1>1. CASE at[f] = job[p].into
    <2>1. f \in contested /\ pc[p] = "copy"
      BY <1>1, HeldIsOwnOrContested
    <2> QED BY <2>1 DEF KeptFrom, Inv, Fits, FitsItsStage
  <1>2. CASE at[f] # job[p].into
    <2>1. at[f] \in Inodes /\ disk \in [Inodes -> Content]
      BY DEF Inv, TypeOK
    <2> QED BY <1>2, <2>1 DEF KeptFrom, Kept
  <1> QED BY <1>1, <1>2

LEMMA StepKeepsOthers ==
    ASSUME Inv, NEW p \in Procs, NEW f \in Paths, Step(p) \/ Crash(p),
           at[f] # None, maker[at[f]] # p
    PROVE  KeptFrom(p, f)
  <1>0. pc[p] = "open" => job[p].target \in Paths
    BY DEF Inv, Fits, FitsItsStage
  <1>1. CASE CheckSource(p) \/ CheckTarget(p) \/ Succeed(p)
    BY <1>1, UntouchedIsKept DEF CheckSource, CheckTarget, Succeed, fileVars
  <1>2. CASE Connect(p)
    <2>1. \/ UNCHANGED fileVars
          \/ /\ at[job[p].target] = None /\ job[p].target \in Paths
             /\ \E i \in Unused : Create(p, job[p].target, i, "empty")
      BY <1>0, <1>2 DEF Connect
    <2> QED BY <2>1, UntouchedIsKept, CreationKeeps DEF fileVars
  <1>3. CASE OpenExclusively(p)
    <2>1. \/ UNCHANGED fileVars
          \/ /\ at[job[p].target] = None /\ job[p].target \in Paths
             /\ \E i \in Unused : Create(p, job[p].target, i, "partial")
      BY <1>0, <1>3 DEF OpenExclusively, MayOpen
    <2> QED BY <2>1, UntouchedIsKept, CreationKeeps DEF fileVars
  <1>4. CASE ConnectFails(p) \/ CopyFails(p)
    BY <1>4, FailKeeps
      DEF ConnectFails, CopyFails, Inv, Fits, FitsItsStage
  <1>5. CASE Copy(p)
    BY <1>5, WritingKeeps DEF Copy, Copied, Holding
  <1>6. CASE Verify(p)
    <2>1. pc[p] = "verify" /\ (Fail(p) \/ UNCHANGED fileVars)
      BY <1>6 DEF Verify
    <2> QED BY <2>1, FailKeeps, UntouchedIsKept
            DEF fileVars, Inv, Fits, FitsItsStage
  <1>7. CASE Write(p)
    <2>1. /\ pc[p] = "write" /\ at' = at
          /\ \/ disk' = disk
             \/ disk' = [disk EXCEPT ![job[p].into] = Of("neutral")]
      BY <1>7 DEF Write
    <2> QED BY <2>1, WritingKeeps, UntouchedIsKept DEF Holding
  <1>8. CASE Crash(p)
    <2>1. /\ at' = at
          /\ \/ disk' = disk
             \/ /\ pc[p] = "copy"
                /\ disk' = [disk EXCEPT ![job[p].into] = Of("torn")]
      BY <1>8 DEF Crash
    <2> QED BY <2>1, WritingKeeps, UntouchedIsKept DEF Holding
  <1> QED BY <1>1, <1>2, <1>3, <1>4, <1>5, <1>6, <1>7, <1>8 DEF Step

\* Only the process that takes a step moves.
LEMMA OnlyOneActs ==
    ASSUME Inv, [Next]_vars, NEW p \in Procs, Acts(p)
    PROVE  \/ Step(p) \/ Crash(p)
           \/ \E op \in Ops, source, target \in Paths :
                Begin(p, op, source, target)
  <1>1. ASSUME NEW q \in Procs, NEW stage, GoTo(q, stage) PROVE q = p
    BY <1>1 DEF GoTo, Acts, Inv, TypeOK
  <1>2. ASSUME NEW q \in Procs, Step(q) \/ Crash(q) PROVE q = p
    BY <1>1, <1>2 DEF Step, Crash, CheckSource, CheckTarget, Connect,
                      ConnectFails, OpenExclusively, Copy, CopyFails, Verify, Write,
                      Succeed, Fail, Return
  <1>3. ASSUME NEW q \in Procs, NEW op \in Ops, NEW source \in Paths,
               NEW target \in Paths, Begin(q, op, source, target)
        PROVE  q = p
    BY <1>1, <1>3 DEF Begin
  <1>4. ~ UNCHANGED pc
    BY DEF Acts
  <1>5. ASSUME NEW f \in Paths, OthersCreate(f) \/ OthersRemove(f) \/ Commit
        PROVE  FALSE
    BY <1>4, <1>5 DEF OthersCreate, OthersRemove, Commit, procVars
  <1>6. ~ Commit /\ ~ UNCHANGED vars
    BY <1>4 DEF Commit, vars, procVars
  <1> QED BY <1>2, <1>3, <1>5, <1>6 DEF Next

\* No operation changes or removes a file that it did not create, unless a
\* backup or a restore meets one that came to its target after its check
\* (_new_target before sqlite3.connect); a conversion never does (mode "x").
THEOREM FilesOfOthersAreKept == Spec => OthersFilesAreKept
  <1>1. Inv /\ [Next]_vars =>
          [\A p \in Procs, f \in Paths :
             Acts(p) /\ at[f] # None /\ maker[at[f]] # p =>
               Kept(f) \/ (f \in contested /\ job[p].op # "convert")]_vars
    <2> SUFFICES ASSUME Inv, [Next]_vars, NEW p \in Procs, NEW f \in Paths,
                        Acts(p), at[f] # None, maker[at[f]] # p
                 PROVE  Kept(f) \/ (f \in contested /\ job[p].op # "convert")
      OBVIOUS
    <2>1. CASE Step(p) \/ Crash(p)
      BY <2>1, StepKeepsOthers DEF KeptFrom
    <2>2. ASSUME NEW op \in Ops, NEW source \in Paths, NEW target \in Paths,
                 Begin(p, op, source, target)
          PROVE  KeptFrom(p, f)
      BY <2>2, UntouchedIsKept DEF Begin, fileVars
    <2> QED BY <2>1, <2>2, OnlyOneActs DEF KeptFrom
  <1> QED BY <1>1, InvariantHolds, PTL DEF Spec, OthersFilesAreKept

----------------------------------------------------------------------------
(* What a backup gives back                                                *)

\* An operation whose target nobody contested is alone with its file, and
\* nothing was reported of it yet.
Alone(q) ==
    pc[q] \in Holding /\ job[q].target \notin contested =>
      /\ at[job[q].target] = job[q].into => Past(job[q].target) \subseteq {q}
      /\ \A r \in reports : r.inode # job[q].into

\* What was reported, uncontested, nobody touches any more.
Settled(r) ==
    ~ r.contested =>
      /\ maker[r.inode] \in Procs
      /\ disk[r.inode] = r.content
      /\ \A q \in Procs : job[q].into # r.inode
      /\ \A f \in Paths : at[f] = r.inode => Past(f) = {}

\* A copy of what was reported is equal to it.
CopiesIt(q) ==
    /\ pc[q] \in {"verify", "report"}
    /\ job[q].op # "convert"
    /\ job[q].received
    /\ job[q].target \notin contested
    => \A b \in reports :
         ~ b.contested /\ b.inode = job[q].from =>
             disk[job[q].into] = b.content

KnowsItsReceipt(q) ==
    job[q].received => \E r \in reports : r.inode = job[q].from

ReportsFit ==
    \A r \in reports :
      /\ disk[r.inode].kind # "unused"
      /\ Settled(r)
      /\ r.received => \E b \in reports : b.inode = r.from

RestoreInv ==
    /\ maker[at[Live]] = None
    /\ ReportsFit
    /\ \A q \in Procs : Alone(q) /\ CopiesIt(q) /\ KnowsItsReceipt(q)
    /\ RestoresGiveBackTheBackup

\* What a step of p that reports nothing may do.
HandsMayChange(p) ==
    \/ pc'[p] \notin Relying /\ job'[p].into = None
    \/ /\ pc[p] \in Relying
       /\ job'[p].target = job[p].target /\ job'[p].into = job[p].into
    \/ pc[p] = "target" /\ at[job'[p].target] = None /\ job'[p].into = None
    \/ /\ pc[p] = "open" /\ job'[p].target = job[p].target
       /\ job'[p].into = at'[job[p].target] /\ job[p].target \in Paths

ContentsMayChange(p) ==
    \A i \in Inodes :
        /\ disk[i].kind # "unused" /\ i # at[Live]
        /\ p \in Procs /\ pc[p] \in Holding => i # job[p].into
        => disk'[i] = disk[i]

Quiet(p) ==
    /\ reports' = reports
    /\ \A q \in Procs \ {p} : pc'[q] = pc[q] /\ job'[q] = job[q]
    /\ PathsMayChange /\ FilesMayChange /\ ContentsMayChange(p)
    /\ p \in Procs => HandsMayChange(p)

LEMMA PastIsRelying ==
    ASSUME Inv, NEW f \in Paths
    PROVE  Past(f) = {q \in Procs : job[q].target = f /\ pc[q] \in Relying}
  BY DEF Inv, TypeOK, Past, Relying, Stages

\* Nobody comes to a path that leads somewhere.
LEMMA NobodyComes ==
    ASSUME Inv, Inv', NEW p, Quiet(p), NEW f \in Paths, at[f] # None
    PROVE  Past(f)' \subseteq Past(f)
  <1>1. Past(f)' = {q \in Procs : job'[q].target = f /\ pc'[q] \in Relying}
    BY DEF Inv, TypeOK, Past, Relying, Stages
  <1>2. ASSUME NEW q \in Procs, job'[q].target = f, pc'[q] \in Relying
        PROVE  job[q].target = f /\ pc[q] \in Relying
    <2>1. CASE q # p
      BY <1>2, <2>1 DEF Quiet
    <2>2. CASE q = p
      BY <1>2, <2>2 DEF Quiet, HandsMayChange, Relying
    <2> QED BY <2>1, <2>2
  <1> QED BY <1>1, <1>2, PastIsRelying

LEMMA QuietKeepsReports ==
    ASSUME Inv, Inv', RestoreInv, NEW p, Quiet(p)
    PROVE  maker'[at'[Live]] = None /\ ReportsFit' /\ RestoresGiveBackTheBackup'
  <1>1. at'[Live] = at[Live] /\ at[Live] \in Inodes
        /\ disk[at[Live]].kind # "unused" /\ maker'[at[Live]] = maker[at[Live]]
    BY PathsAssumption DEF Inv, PathsFit, TypeOK, Quiet, PathsMayChange,
                           FilesMayChange
  <1>2. ASSUME NEW r \in reports, ~ r.contested
        PROVE  /\ maker'[r.inode] \in Procs
               /\ disk'[r.inode] = r.content
               /\ \A q \in Procs : job'[q].into # r.inode
               /\ \A f \in Paths : at'[f] = r.inode => Past(f)' = {}
    <2>1. r.inode \in Inodes /\ disk[r.inode].kind # "unused"
      BY DEF Inv, TypeOK, Report, RestoreInv, ReportsFit
    <2>2. /\ maker[r.inode] \in Procs /\ disk[r.inode] = r.content
          /\ \A q \in Procs : job[q].into # r.inode
          /\ \A f \in Paths : at[f] = r.inode => Past(f) = {}
      BY <1>2 DEF RestoreInv, ReportsFit, Settled
    <2>3. maker'[r.inode] \in Procs
      BY <2>1, <2>2 DEF Quiet, FilesMayChange
    <2>4. disk'[r.inode] = r.content
      <3>1. r.inode # at[Live]
        BY <2>2, PathsAssumption DEF RestoreInv
      <3> QED BY <2>1, <2>2, <3>1 DEF Quiet, ContentsMayChange
    <2>5. ASSUME NEW f \in Paths, at'[f] = r.inode
          PROVE  at[f] = r.inode /\ Past(f) = {} /\ Past(f)' = {}
      <3>1. at[f] = r.inode
        BY <2>1, <2>5, PathsAssumption DEF Quiet, PathsMayChange
      <3>2. Past(f)' \subseteq Past(f)
        BY <2>1, <3>1, PathsAssumption, NobodyComes
      <3> QED BY <2>2, <3>1, <3>2
    <2>6. ASSUME NEW q \in Procs PROVE job'[q].into # r.inode
      <3>1. CASE job'[q].into \in {job[q].into, None}
        BY <2>1, <2>2, <3>1, PathsAssumption
      <3>2. CASE /\ q = p /\ pc[p] = "open" /\ job[p].target \in Paths
                 /\ job'[p].into = at'[job[p].target]
        <4>1. p \in Past(job[p].target)
          BY <3>2, PastIsRelying DEF Relying
        <4> QED BY <2>5, <3>2, <4>1
      <3> QED BY <3>1, <3>2 DEF Quiet, HandsMayChange
    <2> QED BY <2>3, <2>4, <2>5, <2>6
  <1>3. ReportsFit'
    <2>1. \A r \in reports : disk'[r.inode].kind # "unused"
      BY DEF Inv, TypeOK, Report, RestoreInv, ReportsFit, Quiet, FilesMayChange
    <2>2. \A r \in reports : Settled(r)'
      BY <1>2 DEF Settled
    <2>3. \A r \in reports :
            r.received => \E b \in reports : b.inode = r.from
      BY DEF RestoreInv, ReportsFit
    <2> QED BY <2>1, <2>2, <2>3 DEF ReportsFit, Quiet
  <1>4. RestoresGiveBackTheBackup'
    BY DEF RestoreInv, RestoresGiveBackTheBackup, Quiet
  <1> QED BY <1>1, <1>3, <1>4 DEF RestoreInv

LEMMA QuietKeepsOthers ==
    ASSUME Inv, Inv', RestoreInv, NEW p, Quiet(p), NEW q \in Procs \ {p}
    PROVE  Alone(q)' /\ CopiesIt(q)' /\ KnowsItsReceipt(q)'
  <1>0. /\ pc'[q] = pc[q] /\ job'[q] = job[q] /\ reports' = reports
        /\ contested \subseteq contested'
    BY DEF Quiet, FilesMayChange
  <1>1. pc[q] \in Holding => /\ job[q].into \in Inodes
                             /\ disk[job[q].into].kind # "unused"
                             /\ job[q].target \in Paths
    BY DEF Inv, Fits, HoldsItsTarget, FitsItsStage, Holding
  <1>2. Alone(q)'
    <2> SUFFICES ASSUME NEW f \in Paths, f = job[q].target,
                        pc[q] \in Holding, f \notin contested,
                        at'[f] = job[q].into
                 PROVE  Past(f)' \subseteq {q}
      BY <1>0, <1>1 DEF RestoreInv, Alone
    <2>1. at[f] = job[q].into /\ job[q].into # None
      BY <1>1, PathsAssumption DEF Quiet, PathsMayChange
    <2>2. Past(f)' \subseteq Past(f)
      BY <1>1, <2>1, NobodyComes
    <2> QED BY <2>1, <2>2 DEF RestoreInv, Alone
  <1>3. CopiesIt(q)'
    <2> SUFFICES ASSUME pc[q] \in {"verify", "report"},
                        job[q].target \notin contested
                 PROVE  disk'[job[q].into] = disk[job[q].into]
      BY <1>0 DEF RestoreInv, CopiesIt
    <2>1. pc[q] \in Holding
      BY DEF Holding
    <2>2. job[q].into # at[Live]
      BY <2>1, PathsAssumption
        DEF RestoreInv, Inv, Fits, OwnsItsTarget, Holding, Relying
    <2>3. p \in Procs /\ pc[p] \in Holding => job[q].into # job[p].into
      BY <2>1, HolderIsAlone
    <2> QED BY <1>1, <2>1, <2>2, <2>3 DEF Quiet, ContentsMayChange
  <1>4. KnowsItsReceipt(q)'
    BY <1>0 DEF RestoreInv, KnowsItsReceipt
  <1> QED BY <1>2, <1>3, <1>4

LEMMA QuietKeepsRestoreInv ==
    ASSUME Inv, Inv', RestoreInv, NEW p, Quiet(p),
           p \in Procs => Alone(p)' /\ CopiesIt(p)' /\ KnowsItsReceipt(p)'
    PROVE  RestoreInv'
  BY QuietKeepsReports, QuietKeepsOthers DEF RestoreInv

\* Whoever has let go of everything owes nothing.
LEMMA IdleOwesNothing ==
    ASSUME NEW p \in Procs, pc'[p] \notin Holding, ~ job'[p].received
    PROVE  Alone(p)' /\ CopiesIt(p)' /\ KnowsItsReceipt(p)'
  BY DEF Alone, CopiesIt, KnowsItsReceipt, Holding

\* An operation goes on with the file it has.
LEMMA GoesOnAlone ==
    ASSUME Inv, Inv', RestoreInv, NEW p \in Procs, Quiet(p),
           pc[p] \in Holding, UNCHANGED <<at, job, contested>>
    PROVE  Alone(p)' /\ KnowsItsReceipt(p)'
  <1>1. job[p].target \in Paths /\ job[p].into \in Inodes
    BY DEF Inv, Fits, FitsItsStage, HoldsItsTarget, Holding
  <1>2. Alone(p)'
    <2> SUFFICES ASSUME NEW f \in Paths, f = job[p].target, f \notin contested,
                        at[f] = job[p].into
                 PROVE  Past(f)' \subseteq {p}
      BY <1>1 DEF RestoreInv, Alone, Quiet
    <2>1. Past(f)' \subseteq Past(f)
      BY <1>1, PathsAssumption, NobodyComes
    <2> QED BY <2>1 DEF RestoreInv, Alone
  <1>3. KnowsItsReceipt(p)'
    BY DEF RestoreInv, KnowsItsReceipt, Quiet
  <1> QED BY <1>2, <1>3

\* An operation ends, and what it wrote last was its own file.
LEMMA EndKeepsRestoreInv ==
    ASSUME Inv, Inv', RestoreInv, NEW p \in Procs, Return(p),
           reports' = reports, PathsMayChange, FilesMayChange,
           ContentsMayChange(p)
    PROVE  RestoreInv'
  <1>1. /\ pc' = [pc EXCEPT ![p] = "ended"]
        /\ job' = [job EXCEPT ![p] = NoJob]
        /\ pc \in [Procs -> Stages] /\ job \in [Procs -> Job]
    BY DEF Return, GoTo, Inv, TypeOK
  <1>2. /\ pc'[p] = "ended" /\ job'[p] = NoJob
        /\ \A q \in Procs \ {p} : pc'[q] = pc[q] /\ job'[q] = job[q]
        /\ NoJob.into = None /\ ~ NoJob.received
    BY <1>1 DEF NoJob
  <1>3. Quiet(p)
    BY <1>2 DEF Quiet, HandsMayChange, Relying
  <1> QED BY <1>2, <1>3, IdleOwesNothing, QuietKeepsRestoreInv DEF Holding

LEMMA UntouchedContents ==
    ASSUME NEW p, UNCHANGED disk
    PROVE  ContentsMayChange(p)
  BY DEF ContentsMayChange

LEMMA OwnContents ==
    ASSUME Inv, NEW p \in Procs, pc[p] \in Holding, NEW c,
           disk' = [disk EXCEPT ![job[p].into] = c]
    PROVE  ContentsMayChange(p)
  BY DEF ContentsMayChange, Inv, TypeOK

LEMMA FailKeepsRestoreInv ==
    ASSUME Inv, Inv', RestoreInv, NEW p \in Procs, pc[p] \in Relying, Fail(p)
    PROVE  RestoreInv'
  <1>1. /\ job[p].target \in Paths /\ job[p].target # Live
        /\ at' = [at EXCEPT ![job[p].target] = None] /\ Return(p)
        /\ UNCHANGED <<disk, maker, contested, reports>>
    BY DEF Inv, Fits, FitsItsStage, Holding, Relying, Fail, RemovedTarget
  <1>2. PathsMayChange
    BY <1>1 DEF PathsMayChange, Inv, TypeOK
  <1>3. FilesMayChange
    BY <1>1 DEF FilesMayChange, Inv, TypeOK
  <1> QED BY <1>1, <1>2, <1>3, UntouchedContents, EndKeepsRestoreInv

LEMMA GivingUpKeepsRestoreInv ==
    ASSUME Inv, Inv', RestoreInv, NEW p \in Procs, Return(p),
           UNCHANGED <<fileVars, contested, reports>>
    PROVE  RestoreInv'
  <1>1. UNCHANGED disk
    BY DEF fileVars
  <1> QED BY <1>1, FilesStay, UntouchedContents, EndKeepsRestoreInv

\* An operation that has nothing yet goes on.
LEMMA GoingOnKeepsRestoreInv ==
    ASSUME Inv, Inv', RestoreInv, NEW p \in Procs,
           UNCHANGED <<fileVars, job, contested, reports>>,
           \/ pc[p] = "source" /\ GoTo(p, "target")
           \/ pc[p] = "target" /\ GoTo(p, "open") /\ at[job[p].target] = None
    PROVE  RestoreInv'
  <1>1. /\ pc'[p] \in {"target", "open"} /\ job[p].into = None
        /\ \A q \in Procs \ {p} : pc'[q] = pc[q] /\ job'[q] = job[q]
        /\ UNCHANGED disk
    BY DEF GoTo, Inv, TypeOK, fileVars, Fits, FitsItsStage, Holding
  <1>2. HandsMayChange(p)
    BY <1>1 DEF HandsMayChange, GoTo, Inv, TypeOK, Relying
  <1>3. Quiet(p)
    BY <1>1, <1>2, FilesStay, UntouchedContents DEF Quiet
  <1>4. Alone(p)' /\ CopiesIt(p)' /\ KnowsItsReceipt(p)'
    BY <1>1 DEF Alone, CopiesIt, KnowsItsReceipt, Holding, RestoreInv
  <1> QED BY <1>3, <1>4, QuietKeepsRestoreInv

LEMMA BeginKeepsRestoreInv ==
    ASSUME Inv, Inv', RestoreInv, NEW p \in Procs, NEW op \in Ops,
           NEW source \in Paths, NEW target \in Paths,
           Begin(p, op, source, target)
    PROVE  RestoreInv'
  <1> DEFINE new == [op |-> op, source |-> source, target |-> target,
                     from |-> None, into |-> None, received |-> FALSE]
  <1>1. /\ job' = [job EXCEPT ![p] = new] /\ pc' = [pc EXCEPT ![p] = "source"]
        /\ UNCHANGED <<fileVars, contested, reports>> /\ UNCHANGED disk
    BY DEF Begin, GoTo, fileVars
  <1>2. /\ job'[p].into = None /\ ~ job'[p].received /\ pc'[p] = "source"
        /\ \A q \in Procs \ {p} : pc'[q] = pc[q] /\ job'[q] = job[q]
    BY <1>1 DEF Inv, TypeOK
  <1>3. Quiet(p)
    BY <1>1, <1>2, FilesStay, UntouchedContents
      DEF Quiet, HandsMayChange, Relying
  <1> QED BY <1>2, <1>3, IdleOwesNothing, QuietKeepsRestoreInv DEF Holding

\* Whoever creates a file is alone with it, or its path is contested.
LEMMA CreatorIsAlone ==
    ASSUME Inv, Inv', RestoreInv, NEW p \in Procs, NEW f \in Paths,
           at[f] = None, NEW i \in Unused, NEW kind, Create(p, f, i, kind),
           Quiet(p), job'[p].target = f, job'[p].into = i
    PROVE  Alone(p)'
  <1>1. \A r \in reports' : r.inode # i
    BY DEF RestoreInv, ReportsFit, Unused, Quiet
  <1>2. ASSUME f \notin contested' PROVE Past(f)' \subseteq {p}
    <2>1. Past(f) \subseteq {p}
      BY <1>2 DEF Create
    <2>2. \A q \in Past(f)' : q # p => q \in Past(f)
      BY DEF Past, Quiet
    <2> QED BY <2>1, <2>2
  <1> QED BY <1>1, <1>2 DEF Alone, Past

LEMMA ConnectKeepsRestoreInv ==
    ASSUME Inv, Inv', RestoreInv, NEW p \in Procs, Connect(p)
    PROVE  RestoreInv'
  <1> DEFINE from == at[job[p].source]
             target == job[p].target
             had == \E r \in reports : r.inode = from
  <1>0. pc[p] = "open" /\ target \in Paths /\ Fits(p) /\ reports' = reports
    BY DEF Inv, Connect, Fits, FitsItsStage
  <1>1. CASE Return(p) /\ UNCHANGED <<fileVars, contested>>
    BY <1>0, <1>1, GivingUpKeepsRestoreInv
  <1>2. ASSUME NEW i, GoTo(p, "copy"),
               job' = [job EXCEPT ![p].from = from, ![p].into = i,
                                  ![p].received = had]
        PROVE  /\ pc'[p] = "copy" /\ job'[p].target = target
               /\ job'[p].into = i /\ job'[p].from = from
               /\ job'[p].received = had
               /\ \A q \in Procs \ {p} : pc'[q] = pc[q] /\ job'[q] = job[q]
    <2> HIDE DEF from, had
    <2>1. job \in [Procs -> Job] /\ pc \in [Procs -> Stages]
      BY DEF Inv, TypeOK
    <2> QED BY <1>2, <2>1 DEF GoTo, Job
  <1>3. ASSUME NEW i, pc'[p] = "copy", job'[p].from = from,
               job'[p].received = had
        PROVE  CopiesIt(p)' /\ KnowsItsReceipt(p)'
    BY <1>0, <1>3 DEF CopiesIt, KnowsItsReceipt
  <1>4. CASE /\ at[target] # None
             /\ job' = [job EXCEPT ![p].from = from, ![p].into = at[target],
                                   ![p].received = had]
             /\ GoTo(p, "copy") /\ UNCHANGED <<fileVars, contested>>
    <2>1. /\ pc'[p] = "copy" /\ job'[p].target = target
          /\ job'[p].into = at[target] /\ job'[p].from = from
          /\ job'[p].received = had
          /\ \A q \in Procs \ {p} : pc'[q] = pc[q] /\ job'[q] = job[q]
      BY <1>2, <1>4
    <2>2. target \in contested
      BY <1>0, <1>4 DEF Fits, OwnsItsTarget, Relying
    <2>3. Quiet(p)
      BY <1>0, <1>4, <2>1, FilesStay, UntouchedContents
        DEF Quiet, HandsMayChange, fileVars
    <2>4. Alone(p)'
      BY <1>4, <2>1, <2>2 DEF Alone
    <2> QED BY <1>3, <2>1, <2>3, <2>4, QuietKeepsRestoreInv
  <1>5. ASSUME at[target] = None, NEW i \in Unused,
               Create(p, target, i, "empty"), GoTo(p, "copy"),
               job' = [job EXCEPT ![p].from = from, ![p].into = i,
                                  ![p].received = had]
        PROVE  RestoreInv'
    <2>1. /\ pc'[p] = "copy" /\ job'[p].target = target
          /\ job'[p].into = i /\ job'[p].from = from
          /\ job'[p].received = had
          /\ \A q \in Procs \ {p} : pc'[q] = pc[q] /\ job'[q] = job[q]
      BY <1>2, <1>5
    <2>2. "empty" \in Kinds \ {"unused"} /\ pc'[p] # pc[p]
      BY <1>0, <2>1 DEF Kinds
    <2> HIDE DEF target, from, had
    <2>3. /\ PathsMayChange /\ FilesMayChange /\ at'[target] = i
          /\ \A j \in Inodes \ {i} : disk'[j] = disk[j]
      BY <1>0, <1>5, <2>2, CreateFacts
    <2>4. ContentsMayChange(p)
      BY <2>3 DEF ContentsMayChange, Unused
    <2>5. HandsMayChange(p)
      BY <1>0, <2>1, <2>3 DEF HandsMayChange, target
    <2>6. Quiet(p)
      BY <1>0, <2>1, <2>3, <2>4, <2>5 DEF Quiet
    <2>7. Alone(p)'
      BY <1>0, <1>5, <2>1, <2>6, CreatorIsAlone
    <2> QED BY <1>3, <2>1, <2>6, <2>7, QuietKeepsRestoreInv
  <1> QED BY <1>1, <1>4, <1>5 DEF Connect

LEMMA OpenExclusivelyKeepsRestoreInv ==
    ASSUME Inv, Inv', RestoreInv, NEW p \in Procs, OpenExclusively(p)
    PROVE  RestoreInv'
  <1> DEFINE target == job[p].target
  <1>0. pc[p] = "open" /\ target \in Paths /\ reports' = reports
    BY DEF Inv, OpenExclusively, Fits, FitsItsStage
  <1>1. CASE Return(p) /\ UNCHANGED <<fileVars, contested>>
    BY <1>0, <1>1, GivingUpKeepsRestoreInv
  <1>2. ASSUME at[target] = None, NEW i \in Unused,
               Create(p, target, i, "partial"), GoTo(p, "write"),
               job' = [job EXCEPT ![p].into = i]
        PROVE  RestoreInv'
    <2>1. /\ pc'[p] = "write" /\ job'[p].target = target
          /\ job'[p].into = i /\ job'[p].from = job[p].from
          /\ job'[p].received = job[p].received
          /\ \A q \in Procs \ {p} : pc'[q] = pc[q] /\ job'[q] = job[q]
      <3>1. job \in [Procs -> Job] /\ pc \in [Procs -> Stages]
        BY DEF Inv, TypeOK
      <3> QED BY <1>2, <3>1 DEF GoTo, Job
    <2>2. "partial" \in Kinds \ {"unused"} /\ pc'[p] # pc[p]
      BY <1>0, <2>1 DEF Kinds
    <2> HIDE DEF target
    <2>3. /\ PathsMayChange /\ FilesMayChange /\ at'[target] = i
          /\ \A j \in Inodes \ {i} : disk'[j] = disk[j]
      BY <1>0, <1>2, <2>2, CreateFacts
    <2>4. ContentsMayChange(p)
      BY <2>3 DEF ContentsMayChange, Unused
    <2>5. HandsMayChange(p)
      BY <1>0, <2>1, <2>3 DEF HandsMayChange, target
    <2>6. Quiet(p)
      BY <1>0, <2>1, <2>3, <2>4, <2>5 DEF Quiet
    <2>7. Alone(p)'
      BY <1>0, <1>2, <2>1, <2>6, CreatorIsAlone
    <2>8. CopiesIt(p)' /\ KnowsItsReceipt(p)'
      BY <1>0, <2>1 DEF CopiesIt, KnowsItsReceipt, RestoreInv
    <2> QED BY <2>6, <2>7, <2>8, QuietKeepsRestoreInv
  <1> QED BY <1>1, <1>2 DEF OpenExclusively, MayOpen

LEMMA MovesInItsFile ==
    ASSUME Inv, NEW p \in Procs, pc[p] \in Holding, UNCHANGED <<job, reports>>,
           NEW stage, GoTo(p, stage),
           PathsMayChange, FilesMayChange, ContentsMayChange(p)
    PROVE  Quiet(p) /\ pc'[p] = stage
  BY DEF Quiet, HandsMayChange, GoTo, Inv, TypeOK, Holding, Relying

LEMMA CopyKeepsRestoreInv ==
    ASSUME Inv, Inv', RestoreInv, NEW p \in Procs, Copy(p)
    PROVE  RestoreInv'
  <1>0. /\ pc[p] = "copy" /\ pc[p] \in Holding /\ GoTo(p, "verify")
        /\ job[p].from \in Inodes /\ job[p].into \in Inodes
        /\ disk[job[p].from] \in Content
        /\ disk[job[p].from].kind # "unused"
        /\ disk' = [disk EXCEPT ![job[p].into] = disk[job[p].from]]
        /\ UNCHANGED <<at, maker, job, contested, reports>>
        /\ disk \in [Inodes -> Content]
    <2>1. pc[p] = "copy" /\ pc[p] \in Holding
      BY DEF Copy, Holding
    <2>2. job[p].from \in Inodes /\ job[p].into \in Inodes
      BY <2>1 DEF Inv, Fits, FitsItsStage, HoldsItsTarget
    <2> QED BY <2>1, <2>2 DEF Copy, Copied, Inv, TypeOK
  <1>1. PathsMayChange /\ FilesMayChange /\ ContentsMayChange(p)
    BY <1>0, WriteFacts, OwnContents
  <1>2. Quiet(p) /\ pc'[p] = "verify"
    BY <1>0, <1>1, MovesInItsFile
  <1>3. CopiesIt(p)'
    <2>1. disk'[job[p].into] = disk[job[p].from]
      BY <1>0
    <2>2. \A b \in reports : ~ b.contested => disk[b.inode] = b.content
      BY DEF RestoreInv, ReportsFit, Settled
    <2> QED BY <1>0, <2>1, <2>2 DEF CopiesIt
  <1> QED BY <1>0, <1>2, <1>3, GoesOnAlone, QuietKeepsRestoreInv

LEMMA VerifyKeepsRestoreInv ==
    ASSUME Inv, Inv', RestoreInv, NEW p \in Procs, Verify(p)
    PROVE  RestoreInv'
  <1>0. pc[p] = "verify" /\ pc[p] \in Holding /\ pc[p] \in Relying
    BY DEF Verify, Holding, Relying
  <1>1. CASE Fail(p)
    BY <1>0, <1>1, FailKeepsRestoreInv
  <1>2. CASE GoTo(p, "report") /\ UNCHANGED <<fileVars, job, contested, reports>>
    <2>1. UNCHANGED <<at, disk, job, contested, reports>>
      BY <1>2 DEF fileVars
    <2>2. Quiet(p) /\ pc'[p] = "report"
      BY <1>0, <1>2, <2>1, FilesStay, UntouchedContents, MovesInItsFile
    <2>3. CopiesIt(p)'
      BY <1>0, <2>1 DEF CopiesIt, RestoreInv
    <2> QED BY <1>0, <2>1, <2>2, <2>3, GoesOnAlone, QuietKeepsRestoreInv
  <1> QED BY <1>1, <1>2 DEF Verify

LEMMA WriteKeepsRestoreInv ==
    ASSUME Inv, Inv', RestoreInv, NEW p \in Procs, Write(p)
    PROVE  RestoreInv'
  <1>0. /\ pc[p] = "write" /\ pc[p] \in Holding /\ job[p].op = "convert"
        /\ UNCHANGED <<at, maker, contested, reports>>
    BY DEF Write, Holding, Inv, Fits, FitsItsStage
  <1>1. CASE /\ disk' = [disk EXCEPT ![job[p].into] = Of("neutral")]
             /\ GoTo(p, "report") /\ UNCHANGED job
    <2>1. Of("neutral") \in Content /\ Of("neutral").kind # "unused"
      BY CommitsAssumption DEF Of, Content, Kinds
    <2>2. PathsMayChange /\ FilesMayChange /\ ContentsMayChange(p)
      BY <1>0, <1>1, <2>1, WriteFacts, OwnContents
    <2>3. Quiet(p)
      BY <1>0, <1>1, <2>2, MovesInItsFile
    <2>4. CopiesIt(p)'
      BY <1>0, <1>1 DEF CopiesIt
    <2> QED BY <1>0, <1>1, <2>3, <2>4, GoesOnAlone, QuietKeepsRestoreInv
  <1>2. CASE Return(p) /\ UNCHANGED disk
    BY <1>0, <1>2, GivingUpKeepsRestoreInv DEF fileVars
  <1> QED BY <1>1, <1>2 DEF Write

LEMMA CrashKeepsRestoreInv ==
    ASSUME Inv, Inv', RestoreInv, NEW p \in Procs, Crash(p)
    PROVE  RestoreInv'
  <1>0. Return(p) /\ UNCHANGED <<at, maker, contested, reports>>
    BY DEF Crash
  <1>1. CASE UNCHANGED disk
    BY <1>0, <1>1, GivingUpKeepsRestoreInv DEF fileVars
  <1>2. CASE pc[p] = "copy" /\ disk' = [disk EXCEPT ![job[p].into] = Of("torn")]
    <2>1. /\ Of("torn") \in Content /\ Of("torn").kind # "unused"
          /\ pc[p] \in Holding
      BY <1>2, CommitsAssumption DEF Of, Content, Kinds, Holding
    <2>2. PathsMayChange /\ FilesMayChange /\ ContentsMayChange(p)
      BY <1>0, <1>2, <2>1, WriteFacts, OwnContents
    <2> QED BY <1>0, <2>2, EndKeepsRestoreInv
  <1> QED BY <1>1, <1>2 DEF Crash

\* A new receipt: of a file that nobody else has, at a path where nobody is,
\* equal to what it copied if there was a receipt for that.
LEMMA SucceedKeepsRestoreInv ==
    ASSUME Inv, Inv', RestoreInv, NEW p \in Procs, Succeed(p)
    PROVE  RestoreInv'
  <1> DEFINE target == job[p].target
             i == Reported(p)
             new == [op |-> job[p].op, from |-> job[p].from,
                     inode |-> i, received |-> job[p].received,
                     content |-> disk[i],
                     contested |-> target \in contested]
  <1>0. /\ pc[p] = "report" /\ pc[p] \in Holding /\ Return(p)
        /\ target \in Paths
        /\ UNCHANGED <<fileVars, contested>> /\ UNCHANGED <<at, disk, maker>>
        /\ reports' = IF i = None THEN reports
                                  ELSE reports \cup {new}
    BY DEF Succeed, Holding, fileVars, Inv, Fits, FitsItsStage
  <1>1. CASE i = None
    BY <1>0, <1>1, GivingUpKeepsRestoreInv
  <1>2. CASE i # None
    <2>0. /\ i \in Inodes /\ disk[i].kind # "unused"
          /\ i \in {job[p].into, at[target]}
          /\ \A f \in Paths : at[f] = i => f = target
      <3>1. CASE job[p].op = "convert"
        BY <1>0, <3>1 DEF Inv, Fits, HoldsItsTarget, Reported
      <3>2. CASE job[p].op # "convert"
        BY <1>0, <1>2, <3>2 DEF Inv, TypeOK, PathsFit, Reported
      <3> QED BY <3>1, <3>2
    <2> HIDE DEF target, i
    <2>1. /\ pc'[p] = "ended" /\ job'[p].into = None /\ ~ job'[p].received
          /\ \A q \in Procs \ {p} : pc'[q] = pc[q] /\ job'[q] = job[q]
      BY <1>0 DEF Return, GoTo, NoJob, Inv, TypeOK
    <2>2. ASSUME target \notin contested
          PROVE  /\ i = job[p].into /\ maker[i] = p
                 /\ at[target] = i => Past(target) \subseteq {p}
                 /\ \A r \in reports : r.inode # i
      <3>1. OwnsItsTarget(p) /\ Alone(p)
        BY DEF Inv, Fits, RestoreInv
      <3> QED BY <1>0, <1>2, <2>0, <2>2, <3>1
              DEF OwnsItsTarget, Alone, Relying, target
    <2>3. \A f \in Paths : Past(f)' \subseteq Past(f) \ {p}
      BY <2>1 DEF Past
    <2>4. PICK n :
            /\ n.inode = i /\ n.from = job[p].from
            /\ n.content = disk[i] /\ n.received = job[p].received
            /\ n.op = job[p].op /\ reports' = reports \cup {n}
            /\ (n.contested <=> target \in contested)
      <3>1. /\ new.inode = i /\ new.from = job[p].from
            /\ new.content = disk[i] /\ new.received = job[p].received
            /\ new.op = job[p].op /\ (new.contested <=> target \in contested)
            /\ reports' = reports \cup {new}
        BY <1>0, <1>2
      <3> HIDE DEF new
      <3> QED BY <3>1
    <2> HIDE DEF new
    <2>5. \A r \in reports : Settled(r)'
      <3> SUFFICES ASSUME NEW r \in reports, ~ r.contested PROVE Settled(r)'
        BY DEF Settled
      <3>1. /\ maker[r.inode] \in Procs /\ disk[r.inode] = r.content
            /\ \A q \in Procs : job[q].into # r.inode
            /\ \A f \in Paths : at[f] = r.inode => Past(f) = {}
            /\ r.inode # None
        BY PathsAssumption
          DEF RestoreInv, ReportsFit, Settled, Inv, TypeOK, Report
      <3>2. \A q \in Procs : job'[q].into # r.inode
        BY <2>1, <3>1
      <3> QED BY <1>0, <2>3, <3>1, <3>2 DEF Settled
    <2>6. Settled(n)'
      <3> SUFFICES ASSUME ~ n.contested PROVE Settled(n)'
        BY DEF Settled
      <3>1. maker'[n.inode] \in Procs /\ disk'[n.inode] = n.content
        BY <1>0, <2>2, <2>4
      <3>2. ASSUME NEW q \in Procs PROVE job'[q].into # n.inode
        <4>1. CASE q = p
          BY <1>2, <2>1, <2>4, <4>1
        <4>2. CASE q # p
          <5>1. job[q].into = job[p].into => pc[q] \in Holding
            BY <1>2, <2>2, <2>4 DEF Inv, Fits, FitsItsStage
          <5>2. job[q].into # job[p].into
            BY <1>0, <2>2, <2>4, <4>2, <5>1, HolderIsAlone DEF target
          <5> QED BY <2>1, <2>2, <2>4, <4>2, <5>2
        <4> QED BY <4>1, <4>2
      <3>3. ASSUME NEW f \in Paths, at'[f] = n.inode PROVE Past(f)' = {}
        <4>1. f = target /\ at[target] = i
          BY <1>0, <2>0, <2>4, <3>3
        <4> QED BY <1>0, <2>2, <2>3, <2>4, <4>1
      <3> QED BY <3>1, <3>2, <3>3 DEF Settled
    <2>7. ReportsFit'
      <3>1. disk[n.inode].kind # "unused"
        BY <2>0, <2>4
      <3>2. n.received => \E b \in reports : b.inode = n.from
        BY <2>4 DEF RestoreInv, KnowsItsReceipt
      <3>3. \A r \in reports : /\ disk[r.inode].kind # "unused"
                               /\ r.received => \E b \in reports : b.inode = r.from
        BY DEF RestoreInv, ReportsFit
      <3> QED BY <1>0, <2>4, <2>5, <2>6, <3>1, <3>2, <3>3 DEF ReportsFit
    <2>8. ASSUME NEW q \in Procs
          PROVE  Alone(q)' /\ CopiesIt(q)' /\ KnowsItsReceipt(q)'
      <3>1. CASE q = p
        BY <2>1, <3>1, IdleOwesNothing DEF Holding
      <3>2. CASE q # p
        <4>1. pc'[q] = pc[q] /\ job'[q] = job[q]
          BY <2>1, <3>2
        <4>2. ASSUME pc[q] \in Holding, job[q].target \notin contested
              PROVE  n.inode # job[q].into
          <5>1. job[q].into # job[p].into
            BY <1>0, <3>2, <4>2, HolderIsAlone
          <5>2. at[target] = job[q].into => target = job[q].target
            BY <1>0, <4>2 DEF Inv, Fits, HoldsItsTarget
          <5>3. p \in Past(target)
            BY <1>0, PastIsRelying DEF Relying, target
          <5>4. at[job[q].target] = job[q].into => Past(job[q].target) \subseteq {q}
            BY <4>2 DEF RestoreInv, Alone
          <5> QED BY <2>0, <2>4, <3>2, <5>1, <5>2, <5>3, <5>4
        <4>3. Alone(q)'
          <5> SUFFICES ASSUME NEW f \in Paths, f = job[q].target,
                              pc[q] \in Holding, f \notin contested
                       PROVE  /\ at[f] = job[q].into => Past(f)' \subseteq {q}
                              /\ \A r \in reports' : r.inode # job[q].into
            <6>1. pc[q] \in Holding => job[q].target \in Paths
              BY DEF Inv, Fits, FitsItsStage, Holding
            <6> QED BY <1>0, <4>1, <6>1 DEF Alone
          <5>1. Past(f)' \subseteq Past(f)
            BY <2>3
          <5> QED BY <2>4, <4>2, <5>1 DEF RestoreInv, Alone
        <4>4. CopiesIt(q)'
          <5> SUFFICES ASSUME pc[q] \in {"verify", "report"},
                              job[q].op # "convert", job[q].received,
                              job[q].target \notin contested,
                              NEW b \in reports \cup {n}, ~ b.contested,
                              b.inode = job[q].from
                       PROVE  disk[job[q].into] = b.content
            BY <1>0, <2>4, <4>1 DEF CopiesIt
          <5>1. CASE b \in reports
            BY <5>1 DEF RestoreInv, CopiesIt
          <5>2. CASE b = n
            <6>1. \E r \in reports : r.inode = n.inode
              BY <5>2 DEF RestoreInv, KnowsItsReceipt
            <6> QED BY <2>2, <2>4, <5>2, <6>1
          <5> QED BY <5>1, <5>2
        <4>5. KnowsItsReceipt(q)'
          BY <2>4, <4>1 DEF RestoreInv, KnowsItsReceipt
        <4> QED BY <4>3, <4>4, <4>5
      <3> QED BY <3>1, <3>2
    <2>9. RestoresGiveBackTheBackup'
      <3> SUFFICES ASSUME NEW b \in reports \cup {n}, NEW r \in reports \cup {n},
                          b.op # "convert", r.op # "convert",
                          r.from = b.inode, r.received,
                          ~ b.contested, ~ r.contested
                   PROVE  r.content = b.content
        BY <2>4 DEF RestoresGiveBackTheBackup
      <3>1. \E c \in reports : c.inode = r.from
        BY <2>4 DEF RestoreInv, ReportsFit, KnowsItsReceipt
      <3>2. CASE b = n
        BY <2>2, <2>4, <3>1, <3>2
      <3>3. CASE b # n /\ r # n
        BY <3>3 DEF RestoreInv, RestoresGiveBackTheBackup
      <3>4. CASE b # n /\ r = n
        <4>1. disk[job[p].into] = b.content
          BY <1>0, <2>4, <3>4 DEF RestoreInv, CopiesIt, target
        <4> QED BY <2>2, <2>4, <3>4, <4>1
      <3> QED BY <3>2, <3>3, <3>4
    <2> QED BY <1>0, <2>7, <2>8, <2>9 DEF RestoreInv
  <1> QED BY <1>1, <1>2

\* Others, who report nothing and write to nothing but the database in use.
LEMMA OthersAreQuiet ==
    ASSUME Inv, Inv', RestoreInv, UNCHANGED <<procVars, reports>>,
           PathsMayChange, FilesMayChange, ContentsMayChange(None)
    PROVE  RestoreInv'
  <1>1. Quiet(None)
    BY PathsAssumption DEF Quiet, procVars
  <1> QED BY <1>1, PathsAssumption, QuietKeepsRestoreInv

LEMMA OthersKeepRestoreInv ==
    ASSUME Inv, Inv', RestoreInv, NEW f \in Paths,
           OthersCreate(f) \/ OthersRemove(f)
    PROVE  RestoreInv'
  <1>1. CASE OthersCreate(f)
    <2>1. at[f] = None /\ UNCHANGED <<procVars, reports>> /\ None \notin Procs
      BY <1>1, PathsAssumption DEF OthersCreate
    <2>2. PICK i \in Unused : Create(None, f, i, "other")
      BY <1>1 DEF OthersCreate
    <2>3. "other" \in Kinds \ {"unused"}
      BY DEF Kinds
    <2>4. /\ PathsMayChange /\ FilesMayChange
          /\ \A j \in Inodes \ {i} : disk'[j] = disk[j]
      BY <2>1, <2>2, <2>3, CreateFacts
    <2>5. ContentsMayChange(None)
      BY <2>4 DEF ContentsMayChange, Unused
    <2> QED BY <2>1, <2>4, <2>5, OthersAreQuiet
  <1>2. CASE OthersRemove(f)
    <2>1. /\ f # Live /\ at' = [at EXCEPT ![f] = None]
          /\ UNCHANGED <<disk, maker, contested, reports>>
          /\ UNCHANGED <<procVars, reports>>
      BY <1>2 DEF OthersRemove
    <2>2. PathsMayChange
      BY <2>1 DEF PathsMayChange, Inv, TypeOK
    <2>3. FilesMayChange
      BY <2>1 DEF FilesMayChange, Inv, TypeOK
    <2> QED BY <2>1, <2>2, <2>3, UntouchedContents, OthersAreQuiet
  <1> QED BY <1>1, <1>2

LEMMA CommitKeepsRestoreInv ==
    ASSUME Inv, Inv', RestoreInv, Commit
    PROVE  RestoreInv'
  <1> DEFINE c == [disk[at[Live]] EXCEPT !.commit = @ + 1]
  <1>1. /\ disk' = [disk EXCEPT ![at[Live]] = c]
        /\ UNCHANGED <<at, maker, contested>> /\ UNCHANGED <<procVars, reports>>
    BY DEF Commit
  <1>2. /\ at[Live] \in Inodes /\ disk \in [Inodes -> Content]
        /\ disk' \in [Inodes -> Content]
    BY PathsAssumption DEF Inv, TypeOK, PathsFit
  <1>3. c.kind = disk[at[Live]].kind
    BY <1>2 DEF Content
  <1> HIDE DEF c
  <1>4. PathsMayChange
    BY <1>1 DEF PathsMayChange
  <1>5. FilesMayChange
    BY <1>1, <1>2, <1>3 DEF FilesMayChange
  <1>6. ContentsMayChange(None)
    BY <1>1, <1>2 DEF ContentsMayChange
  <1> QED BY <1>1, <1>4, <1>5, <1>6, OthersAreQuiet

LEMMA InitEstablishesRestoreInv == Init => RestoreInv
  <1> SUFFICES ASSUME Init PROVE RestoreInv OBVIOUS
  <1>1. /\ at[Live] \in Inodes /\ maker = [i \in Inodes |-> None]
        /\ pc = [p \in Procs |-> "new"] /\ job = [p \in Procs |-> NoJob]
        /\ reports = {}
    BY PathsAssumption DEF Init
  <1>2. ~ NoJob.received
    BY DEF NoJob
  <1> QED BY <1>1, <1>2 DEF RestoreInv, ReportsFit, Alone, CopiesIt,
             KnowsItsReceipt, Holding, RestoresGiveBackTheBackup

LEMMA NextKeepsRestoreInv == Inv /\ RestoreInv /\ [Next]_vars => RestoreInv'
  <1> SUFFICES ASSUME Inv, RestoreInv, [Next]_vars PROVE RestoreInv' OBVIOUS
  <1>0. Inv'
    BY NextKeepsInv
  <1>1. ASSUME NEW p \in Procs, NEW op \in Ops, NEW source \in Paths,
               NEW target \in Paths, Begin(p, op, source, target)
        PROVE  RestoreInv'
    BY <1>0, <1>1, BeginKeepsRestoreInv
  <1>2. ASSUME NEW p \in Procs, CheckSource(p) \/ CheckTarget(p)
        PROVE  RestoreInv'
    <2>1. /\ UNCHANGED <<fileVars, contested, reports>>
          /\ \/ Return(p)
             \/ /\ UNCHANGED job
                /\ \/ pc[p] = "source" /\ GoTo(p, "target")
                   \/ pc[p] = "target" /\ GoTo(p, "open")
                      /\ at[job[p].target] = None
      BY <1>2 DEF CheckSource, CheckTarget, IsNew
    <2> QED BY <1>0, <2>1, GivingUpKeepsRestoreInv, GoingOnKeepsRestoreInv
  <1>3. ASSUME NEW p \in Procs, Connect(p) \/ OpenExclusively(p)
        PROVE  RestoreInv'
    BY <1>0, <1>3, ConnectKeepsRestoreInv, OpenExclusivelyKeepsRestoreInv
  <1>4. ASSUME NEW p \in Procs, ConnectFails(p) \/ CopyFails(p)
        PROVE  RestoreInv'
    BY <1>0, <1>4, FailKeepsRestoreInv DEF ConnectFails, CopyFails, Relying
  <1>5. ASSUME NEW p \in Procs, Copy(p) \/ Verify(p) \/ Write(p)
        PROVE  RestoreInv'
    BY <1>0, <1>5, CopyKeepsRestoreInv, VerifyKeepsRestoreInv,
       WriteKeepsRestoreInv
  <1>6. ASSUME NEW p \in Procs, Succeed(p) \/ Crash(p) PROVE RestoreInv'
    BY <1>0, <1>6, SucceedKeepsRestoreInv, CrashKeepsRestoreInv
  <1>7. ASSUME NEW f \in Paths, OthersCreate(f) \/ OthersRemove(f)
        PROVE  RestoreInv'
    BY <1>0, <1>7, OthersKeepRestoreInv
  <1>8. CASE Commit
    BY <1>0, <1>8, CommitKeepsRestoreInv
  <1>9. CASE UNCHANGED vars
    <2>1. UNCHANGED <<fileVars, contested>> /\ UNCHANGED <<procVars, reports>>
          /\ UNCHANGED disk
      BY <1>9 DEF vars, fileVars
    <2> QED BY <1>0, <2>1, FilesStay, UntouchedContents, OthersAreQuiet
  <1> QED BY <1>1, <1>2, <1>3, <1>4, <1>5, <1>6, <1>7, <1>8, <1>9
          DEF Next, Step

\* Restoring a backup that was reported gives back the database as it was
\* reported, however often it was copied on and whatever was committed since.
THEOREM BackupsAreGivenBack == Spec => []RestoresGiveBackTheBackup
  <1>1. Spec => []RestoreInv
    BY InvariantHolds, InitEstablishesRestoreInv, NextKeepsRestoreInv, PTL
      DEF Spec
  <1>2. RestoreInv => RestoresGiveBackTheBackup BY DEF RestoreInv
  <1> QED BY <1>1, <1>2, PTL
=============================================================================
