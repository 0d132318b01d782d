----------------------- MODULE IncrementalFilesMirror -----------------------
(***************************************************************************)
(* IncrementalFiles seen as a DirectoryMirror.  The mapping reads the      *)
(* table: with one document per file (identity framer), at least one chunk *)
(* per document and delete_orphans set, the rows of a file are exactly the *)
(* rows of one version, and that version is what is published.  Rows that  *)
(* are no version's map to a value DirectoryMirror never publishes.        *)
(***************************************************************************)
EXTENDS IncrementalFiles

RowsOf(v) == [s \in Seqs |-> IF s < Frames[v][1].n THEN v ELSE 0]

VersionOf(rows, now) ==
    IF rows = EmptyDoc THEN 0
    ELSE IF \E v \in 1 .. now : rows = RowsOf(v)
         THEN CHOOSE v \in 1 .. now : rows = RowsOf(v)
         ELSE MaxVersion + 1

Published(p) == VersionOf(chunks[<<IdOf[p], Whole>>], clock)

Mirror == INSTANCE DirectoryMirror WITH
    file <- [p \in Paths |-> disk[p].ver],
    latest <- clock,
    shelf <- [p \in Paths |-> Published(p)]

\* The cell, run after run and through failures, is a DirectoryMirror: no
\* reader ever finds a file torn between two versions, moved back to an older
\* one, or withdrawn while current (pg.py:470-497, runner.py:101-200).
ImplementsMirror == Mirror!Spec
=============================================================================
