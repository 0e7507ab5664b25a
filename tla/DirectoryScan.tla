--------------------------- MODULE DirectoryScan ---------------------------
(***************************************************************************)
(* LocalFileConnector.scan with parse_text and PathPolicy: one walk over a *)
(* directory that its user goes on changing.  SyncStore takes the result   *)
(* as one step, Scan; this module looks into that step.                    *)
(*                                                                         *)
(* A node is a path below the root, and what is at it may be moved away    *)
(* and back; whoever has opened a file goes on reading that file.  The     *)
(* walk keeps a stack of listings; the kinds in a listing are those of the *)
(* moment it was made, as DirEntry.is_dir and is_file answer from it.      *)
(***************************************************************************)
EXTENDS Naturals, Sequences

CONSTANTS
    Nodes,       \* paths below the root
    Root,        \* the registered directory
    Parent,      \* the directory of each node
    Way,         \* the nodes from the root to each node, with the node
    Depth,       \* how many names lead from the root to each node
    Eligible,    \* nodes with an allowed extension
    Files,       \* regular files, in the tree or elsewhere
    FirstSize,   \* of each of them
    Sizes,       \* that they may be given
    OtherSize,   \* what lstat says of the size of anything else
    MaxFileSize, \* max_file_size of the policy
    MaxDepth,    \* max_depth of the policy
    Movable,     \* places where the user replaces something
    MaxEdits,    \* bound on what the user does
    None

Places == Nodes \cup {Root}

\* What is at a place: a file or one of these, "other" for a device, a socket
\* or a pipe.
NoFiles == {"absent", "dir", "link", "other"}

Objects == Files \cup NoFiles

KindsOfNode == NoFiles \cup {"file"}

ASSUME TreeAssumption ==
    /\ Root \notin Nodes
    /\ Parent \in [Nodes -> Places]
    /\ Eligible \subseteq Nodes
    /\ None \notin Places \cup Objects

\* Paths are finite, so no node is below itself.
ASSUME DepthAssumption ==
    /\ Depth \in [Places -> Nat]
    /\ Depth[Root] = 0
    /\ \A n \in Nodes : Depth[n] = Depth[Parent[n]] + 1
    /\ Way[Root] = {Root}
    /\ \A n \in Nodes : Way[n] = Way[Parent[n]] \cup {n}

ASSUME FileAssumption ==
    /\ Files \cap KindsOfNode = {}
    /\ Sizes \subseteq Nat
    /\ FirstSize \in [Files -> Sizes]
    /\ OtherSize \in [NoFiles \ {"absent"} -> Nat]
    /\ Movable \subseteq Places

ASSUME BoundsAssumption == MaxDepth \in Nat /\ MaxFileSize \in Nat /\ MaxEdits \in Nat

VARIABLES
    at,       \* what is at each place
    size,     \* of each file
    version,  \* which content a file has
    stamp,    \* its mtime, with its size
    edits,    \* how often the user changed something
    pc,       \* where the walk is
    stack,    \* the directories being walked, each with what is left of it
    here,     \* the node in hand, with what was learnt of it
    found,    \* the files read so far
    steady,   \* history: nodes that kept their kind since the walk began, and
              \* files that did not become too large or cease to be
    unseen    \* history: files written to without a new size or mtime

treeVars == <<at, size, version, stamp, edits>>
walkVars == <<pc, stack, here, found>>
vars == <<treeVars, walkVars, steady, unseen>>

Stages == {"idle", "enter", "list", "walk", "authorize", "stat", "open",
           "blocked", "read", "compare", "done", "failed"}

Entry == [node : Nodes, kind : KindsOfNode]

\* What lstat tells: which file, or else what it is, as of when, how large.
Identity == [object : Objects, stamp : Nat, size : Nat]

\* The node in hand, which file was authorized there, the identity taken
\* first, which file was opened, its content at the first byte and the last,
\* how much was read, and as history whether the node or one above it was
\* replaced since authorize.
Here == [node : Places \cup {None}, authorized : Files \cup {None},
         before : Identity, opened : Files \cup {None},
         first : Nat, last : Nat, length : Nat, swapped : BOOLEAN]

Nowhere == [node |-> None, authorized |-> None,
            before |-> [object |-> "absent", stamp |-> 0, size |-> 0],
            opened |-> None, first |-> 0, last |-> 0, length |-> 0, swapped |-> FALSE]

Found == [node : Nodes, authorized : Files \cup {None}, known : Objects,
          opened : Files \cup {None}, first : Nat, last : Nat, swapped : BOOLEAN]

TypeOK ==
    /\ at \in [Places -> Objects]
    /\ size \in [Files -> Sizes]
    /\ version \in [Files -> Nat]
    /\ stamp \in [Files -> Nat]
    /\ edits \in 0 .. MaxEdits
    /\ pc \in Stages
    /\ stack \in Seq(SUBSET Entry)
    /\ here \in Here
    /\ found \subseteq Found
    /\ steady \subseteq Places
    /\ unseen \subseteq Files

Children(d) == {n \in Nodes : Parent[n] = d}

\* Paths lead through links as well.
Trees ==
    {tree \in [Places -> Objects] :
       \A n \in Nodes : tree[n] # "absent" => tree[Parent[n]] \in {"dir", "link"}}

Kind(n) == IF at[n] \in Files THEN "file" ELSE at[n]

\* The node and all below it.
Under(n) == {m \in Places : n \in Way[m]}

TooLarge(n) == at[n] \in Files /\ size[at[n]] > MaxFileSize

Init ==
    /\ at \in {tree \in Trees : tree[Root] = "dir"}
    /\ size = FirstSize
    /\ version = [f \in Files |-> 0]
    /\ stamp = [f \in Files |-> 0]
    /\ edits = 0
    /\ pc = "idle"
    /\ stack = <<>>
    /\ here = Nowhere
    /\ found = {}
    /\ steady = {}
    /\ unseen = {}

At(n) == here' = [Nowhere EXCEPT !.node = n]

\* The walk raises: PathPolicyError, TextParseError or OSError.
Fail ==
    /\ pc' = "failed"
    /\ stack' = <<>>
    /\ here' = Nowhere
    /\ found' = {}

----------------------------------------------------------------------------
\* The constructor authorises the root, then scan enters it.
Start ==
    /\ pc \in {"idle", "done", "failed"}
    /\ IF at[Root] = "dir"
         THEN pc' = "enter" /\ stack' = <<>> /\ At(Root) /\ found' = {}
         ELSE Fail
    /\ steady' = Places
    /\ unseen' = {}
    /\ UNCHANGED treeVars

TooDeep(depth) == depth > MaxDepth

\* _scan_directory up to its link check; the depth is that of the stack.
Enter ==
    /\ pc = "enter"
    /\ IF TooDeep(Len(stack)) \/ at[here.node] \in {"absent", "link"}
         THEN Fail
         ELSE pc' = "list" /\ UNCHANGED <<stack, here, found>>
    /\ UNCHANGED <<treeVars, steady, unseen>>

Listing(d) ==
    {[node |-> n, kind |-> Kind(n)] : n \in {c \in Children(d) :
                                               at[c] # "absent"}}

\* os.scandir follows a link that was put in place of the directory; what it
\* lists then does not pass authorize.
List ==
    /\ pc = "list"
    /\ \/ /\ at[here.node] \in {"dir", "link"}
          /\ stack' = Append(stack, Listing(here.node))
          /\ pc' = "walk" /\ here' = Nowhere /\ UNCHANGED found
       \/ at[here.node] # "dir" /\ Fail
    /\ UNCHANGED <<treeVars, steady, unseen>>

Top == stack[Len(stack)]

\* Mutant of Refused: links are skipped rather than refused.
RefusedOnlyAbsent(n) == at[n] = "absent"

\* lstat raises for what is gone, the policy for a link.
Refused(n) == at[n] \in {"absent", "link"}

Wanted(e) == e.kind = "file" /\ e.node \in Eligible

\* Mutant of Rest: the entry stays in the listing.
RestAll(e) == Top

Rest(e) == Top \ {e}

\* One entry of the listing on top, in any order.
Visit ==
    /\ pc = "walk"
    /\ stack # <<>>
    /\ \E e \in Top :
         IF Refused(e.node)
           THEN Fail
           ELSE /\ stack' = [stack EXCEPT ![Len(stack)] = Rest(e)]
                /\ IF e.kind = "dir" THEN pc' = "enter" /\ At(e.node)
                   ELSE IF Wanted(e) THEN pc' = "authorize" /\ At(e.node)
                   ELSE UNCHANGED <<pc, here>>
                /\ UNCHANGED found
    /\ UNCHANGED <<treeVars, steady, unseen>>

\* Mutant of Above: the walk returns where it should continue.
AboveReturns == [SubSeq(stack, 1, Len(stack) - 1) EXCEPT ![Len(stack) - 1] = {}]

Above == SubSeq(stack, 1, Len(stack) - 1)

\* The listing is used up: back to the directory above, or to the caller.
Leave ==
    /\ pc = "walk"
    /\ stack # <<>>
    /\ Top = {}
    /\ stack' = Above
    /\ pc' = IF Len(stack) = 1 THEN "done" ELSE "walk"
    /\ UNCHANGED <<treeVars, here, found, steady, unseen>>

\* PathPolicy.authorize: no link on the way, a regular file, not too large.
Authorized(n) ==
    /\ at[n] \in Files
    /\ ~TooLarge(n)
    /\ \A m \in Way[n] : at[m] # "link"

Authorize ==
    /\ pc = "authorize"
    /\ IF Authorized(here.node)
         THEN /\ here' = [here EXCEPT !.authorized = at[here.node], !.swapped = FALSE]
              /\ pc' = "stat"
              /\ UNCHANGED <<stack, found>>
         ELSE Fail
    /\ UNCHANGED <<treeVars, steady, unseen>>

\* Links, and pipes, are taken for the same when they are one after the other.
IdentityAt(n) ==
    IF at[n] \in Files
      THEN [object |-> at[n], stamp |-> stamp[at[n]], size |-> size[at[n]]]
      ELSE [object |-> at[n], stamp |-> 0, size |-> OtherSize[at[n]]]

\* parse_text takes the identity, of a link itself, ...
Stat ==
    /\ pc = "stat"
    /\ IF at[here.node] # "absent"
         THEN /\ here' = [here EXCEPT !.before = IdentityAt(here.node)]
              /\ pc' = "open"
              /\ UNCHANGED <<stack, found>>
         ELSE Fail
    /\ UNCHANGED <<treeVars, steady, unseen>>

Open(f) ==
    /\ here' = [here EXCEPT !.opened = f, !.first = version[f]]
    /\ pc' = "read"
    /\ UNCHANGED <<stack, found>>

\* ... opens what is there, over a link whatever that leads to, and reads
\* from the first byte ...
OpenAndRead ==
    /\ pc = "open"
    /\ \/ at[here.node] \in Files /\ Open(at[here.node])
       \/ at[here.node] = "link" /\ \E f \in Files : Open(f)
       \/ /\ at[here.node] \in {"link", "other"}
          /\ pc' = "blocked"
          /\ UNCHANGED <<stack, here, found>>
       \/ at[here.node] \notin Files /\ Fail
    /\ UNCHANGED <<treeVars, steady, unseen>>

\* Somebody writes to the pipe that is being opened.
Feed ==
    /\ pc = "blocked"
    /\ \E n \in Sizes : here' = [here EXCEPT !.length = n]
    /\ pc' = "compare"
    /\ UNCHANGED <<treeVars, stack, found, steady, unseen>>

\* ... to the last: as much as there is, or was before it was written to, ...
ReadRest ==
    /\ pc = "read"
    /\ \E n \in Sizes :
         /\ version[here.opened] = here.first => n = size[here.opened]
         /\ here' = [here EXCEPT !.last = version[here.opened], !.length = n]
    /\ pc' = "compare"
    /\ UNCHANGED <<treeVars, stack, found, steady, unseen>>

\* Mutant of Unchanged: the second stat is not compared.
UnchangedAlways(n) == at[n] # "absent" /\ here.length = here.before.size

Unchanged(n) ==
    /\ at[n] # "absent"
    /\ IdentityAt(n) = here.before
    /\ here.length = here.before.size

\* ... and takes the identity again.  The text may also not decode.
Compare ==
    /\ pc = "compare"
    /\ \/ /\ Unchanged(here.node)
          /\ found' = found \cup
               {[node |-> here.node, authorized |-> here.authorized,
                 known |-> here.before.object, opened |-> here.opened,
                 first |-> here.first, last |-> here.last, swapped |-> here.swapped]}
          /\ pc' = "walk"
          /\ here' = Nowhere
          /\ UNCHANGED stack
       \/ Fail
    /\ UNCHANGED <<treeVars, steady, unseen>>

----------------------------------------------------------------------------
\* The user moves away what is at n, and all below it with it, and anything
\* else there instead, also what was there before.
Replace(n) ==
    /\ edits < MaxEdits
    /\ \E new \in [Under(n) -> Objects] :
         at' = [m \in Places |-> IF m \in Under(n) THEN new[m] ELSE at[m]]
    /\ at' \in Trees
    /\ edits' = edits + 1
    /\ steady' = steady \ Under(n)
    /\ here' = [here EXCEPT !.swapped = @ \/ here.node \in Under(n)]
    /\ UNCHANGED <<size, version, stamp, pc, stack, found, unseen>>

\* The user writes to a file, which may keep its size and, within the
\* resolution of the clock, its mtime.
WriteFile(f) ==
    /\ edits < MaxEdits
    /\ UNCHANGED <<at, walkVars>>
    /\ version' = [version EXCEPT ![f] = @ + 1]
    /\ edits' = edits + 1
    /\ \/ /\ stamp' = [stamp EXCEPT ![f] = version[f] + 1]
          /\ \E n \in Sizes : size' = [size EXCEPT ![f] = n]
          /\ UNCHANGED unseen
       \/ unseen' = unseen \cup {f} /\ UNCHANGED <<stamp, size>>
    /\ steady' = {n \in steady : TooLarge(n)' = TooLarge(n)}

Walk ==
    \/ Enter \/ List \/ Visit \/ Leave
    \/ Authorize \/ Stat \/ OpenAndRead \/ ReadRest \/ Compare

Next ==
    \/ Start
    \/ Walk
    \/ Feed
    \/ \E n \in Movable : Replace(n)
    \/ \E f \in Files : WriteFile(f)

Spec == Init /\ [][Next]_vars

\* The thread that walks is scheduled.
FairSpec == Spec /\ WF_vars(Walk)

----------------------------------------------------------------------------
(* What a scan promises SyncStore                                          *)

\* A scan that succeeds has read every eligible file that was there all the
\* time, and holds one result of it, whatever happened around it; and there
\* was nothing to refuse, wherever in the tree: no link, no eligible file that
\* is too large and no directory that is too deep.
ScansAreComplete ==
    pc = "done" =>
        \A n \in Nodes \cap steady :
            /\ at[n] \in Files /\ n \in Eligible =>
                 \E f \in found : f.node = n /\ \A g \in found : g.node = n => g = f
            /\ at[n] # "link"
            /\ n \in Eligible => ~TooLarge(n)
            /\ at[n] = "dir" => Depth[n] <= MaxDepth

\* Of a file that parse_text had looked at before it opened it, it accepts the
\* content of one moment, not the beginning of one and the end of another,
\* unless a write left size and mtime as they were; and it reads the file that
\* authorize had seen there, over no link, unless its place was taken by
\* something else meanwhile.
ReadsAreWhole ==
    \A f \in found :
        /\ f.opened = f.known => f.first = f.last \/ f.opened \in unseen
        /\ f.swapped \/ (f.opened = f.known /\ f.known = f.authorized)

\* A walk ends, although the user may put back what it has just left, or waits
\* for a pipe, which it does only where one was put in place of a file after
\* authorize had seen it.
ScansEnd ==
    pc = "enter" ~> pc \in {"done", "failed"} \/ (pc = "blocked" /\ here.swapped)
=============================================================================
