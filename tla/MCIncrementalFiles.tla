------------------------- MODULE MCIncrementalFiles -------------------------
(***************************************************************************)
(* Values of the constants of IncrementalFiles for TLC.                    *)
(***************************************************************************)
EXTENDS IncrementalFilesMirror

\* Raw ids of id_from "path": one per path.
MCRawIds == Paths
MCIdOf == [p \in Paths |-> p]

\* Suffixes of framed ids: "" (0), "#0" (1), "#1" (2).
MCKeys == 0 .. 2
MCWhole == 0

Doc(n) == <<[key |-> MCWhole, n |-> n]>>

\* IdentityFramer: one document per file, growing and shrinking by a chunk.
PlainFrames == [v \in 1 .. MaxVersion |-> Doc(IF v % 2 = 1 THEN 2 ELSE 1)]

\* HeadingBoundaryFramer: a file without headings keeps its id, a file with
\* headings becomes "#0", "#1"; the second file edit has both.
HeadedFrames ==
    [v \in 1 .. MaxVersion |->
        CASE v % 3 = 1 -> Doc(1)
          [] v % 3 = 2 -> <<[key |-> 1, n |-> 1], [key |-> 2, n |-> 1]>>
          [] OTHER     -> <<[key |-> 1, n |-> 1]>>]

\* Every file has headings.
SplitFrames ==
    [v \in 1 .. MaxVersion |-> <<[key |-> 1, n |-> 1], [key |-> 2, n |-> 1]>>]

\* Every content calls what the files define, its own symbols included.
AllCalls == [v \in 1 .. MaxVersion |-> Paths]

\* The second content has no chunks at all: an emptied file.
EmptiedFrames == [v \in 1 .. MaxVersion |-> Doc(IF v = 2 THEN 0 ELSE 1)]

MCNoLimit == {NoLimit}
MCLimitOne == {NoLimit, 1}
=============================================================================
