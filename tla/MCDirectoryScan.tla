-------------------------- MODULE MCDirectoryScan --------------------------
(***************************************************************************)
(* An instance of DirectoryScan for TLC: a file beside a directory, and in *)
(* that a place for a file, where a directory would be too deep.  Of two   *)
(* files the second is too large; a link is as large as the first.         *)
(***************************************************************************)
EXTENDS DirectoryScan, TLC

CONSTANTS note, sub, page, text, book

ParentOf == note :> Root @@ sub :> Root @@ page :> sub

WayTo == Root :> {Root} @@ note :> {Root, note} @@ sub :> {Root, sub}
           @@ page :> {Root, sub, page}

DepthOf == Root :> 0 @@ note :> 1 @@ sub :> 1 @@ page :> 2

SizeOf == text :> 1 @@ book :> 2

SizeOfOther == "dir" :> 2 @@ "link" :> 1 @@ "other" :> 0
=============================================================================
