---------------------------- MODULE MCWorkspace -----------------------------
(***************************************************************************)
(* Small instances of Workspace for TLC: a path that is a file or a        *)
(* directory, and an ignored path below it.                                *)
(***************************************************************************)
EXTENDS Workspace, TLC

CONSTANTS d, x, a, b

MCAncestors == (d :> {}) @@ (x :> {d})

MCTree(atD, atX) == (d :> atD) @@ (x :> atX)

\* World 2 turns the file into a directory.
MCWorldTree == <<MCTree(a, Absent), MCTree(Absent, a)>>

MCWorldOne == <<MCTree(a, Absent)>>

\* Stack turns the file into a directory and writes the path below.
MCStackTrees == {MCTree(Absent, b)}

\* Another directory still holds World 1.
MCOtherTrees == {MCTree(a, Absent)}

\* Stack changes a file, then brings back what the World has.
MCBackAndForth == {MCTree(b, Absent), MCTree(a, Absent)}
=============================================================================
