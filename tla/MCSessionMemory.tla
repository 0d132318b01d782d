--------------------------- MODULE MCSessionMemory ---------------------------
(***************************************************************************)
(* Values of the constants of SessionMemory for TLC.                       *)
(***************************************************************************)
EXTENDS SessionMemory

\* Odd events are of session 1, even ones of session 2.
TwoSessions == [e \in Events |-> IF e % 2 = 1 THEN 1 ELSE 2]
OneSession == [e \in Events |-> 1]

\* The client dates events 1 and 3, and those of session 2 not at all: staged
\* late they are old at once, staged early their time is still to come.
SomeDated == [e \in Events |-> IF e % 2 = 1 THEN e ELSE 0]
Undated == [e \in Events |-> 0]

AllState == [e \in Events |-> CHOOSE f \in Facts : TRUE]
NobodyStates == [e \in Events |-> NoFact]

\* S in order of seq, cut into pieces of n events.
Pieces(S, n) ==
    [i \in 1 .. (Cardinality(S) + n - 1) \div n |->
        {e \in S : Cardinality({x \in S : x < e}) \div n = i - 1}]

\* max_turns 1 and 2 of the episode framer, windows of 1 and 2 events.
CutAfterOne == [S \in SUBSET Events |-> Pieces(S, 1)]
CutAfterTwo == [S \in SUBSET Events |-> Pieces(S, 2)]
=============================================================================
