--------------------------- MODULE MCSharedTarget ---------------------------
(***************************************************************************)
(* Values of the constants of SharedTarget for TLC.                        *)
(***************************************************************************)
EXTENDS SharedTarget

\* Content 1 has one chunk, content 2 has two.
OneOrTwo == <<1, 2>>

\* a overwrites and b fills document 1 of tag A, c appends document 2 of B.
TagsByDoc == [c \in Cells |-> IF c = "c" THEN "B" ELSE "A"]
ModesOfEach == [c \in Cells |-> CASE c = "a" -> "overwrite"
                                  [] c = "b" -> "create_if_missing"
                                  [] OTHER -> "append"]
DocsByTag == [c \in Cells |-> IF c = "c" THEN {2} ELSE {1}]
\* All cells write document 1, c also document 2, which only c deletes.
DocOneByAll == [c \in Cells |-> IF c = "c" THEN {1, 2} ELSE {1}]
SecondDoc == [c \in Cells |-> IF c = "c" THEN {2} ELSE {}]
\* The id of document 1 has a '_' where that of document 2 has a letter.
OneMatchesTwo == {<<1, 2>>}

NoDoc == [c \in Cells |-> {}]
DocOne == [c \in Cells |-> {1}]
OneTag == [c \in Cells |-> "A"]
SameDim == [c \in Cells |-> 1]
OtherDim == [c \in Cells |-> IF c = "c" THEN 2 ELSE 1]
=============================================================================
