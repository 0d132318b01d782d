-------------------------- MODULE DirectoryMirror --------------------------
(***************************************************************************)
(* What an incrementally synced directory promises to a reader of the      *)
(* chunks table, without a word about runs, cursors, hashes or failures:   *)
(* each file is published as a whole, at one version; a file's published   *)
(* version only moves forward; only outdated content is withdrawn; and a   *)
(* file that stays as it is gets published (docs/incremental.md, Pattern   *)
(* G, and the guarantees its crash-safety paragraph gives).                *)
(***************************************************************************)
EXTENDS Naturals

CONSTANTS
    Paths,
    MaxVersion      \* bound: edits altogether

VARIABLES
    file,       \* file[p]: version on disk, 0 if there is no such file
    latest,     \* newest version given out
    shelf       \* shelf[p]: version of p that readers find, 0 for none

vars == <<file, latest, shelf>>

Init ==
    /\ file = [p \in Paths |-> 0]
    /\ latest = 0
    /\ shelf = [p \in Paths |-> 0]

Edit(p) ==
    /\ latest < MaxVersion
    /\ latest' = latest + 1
    /\ file' = [file EXCEPT ![p] = latest + 1]
    /\ UNCHANGED shelf

Delete(p) ==
    /\ file[p] # 0
    /\ file' = [file EXCEPT ![p] = 0]
    /\ UNCHANGED <<latest, shelf>>

\* A version newer than the published one, whole; not always the last one,
\* because the file may have moved on since it was read.
Publish(p) ==
    /\ \E v \in shelf[p] + 1 .. latest : shelf' = [shelf EXCEPT ![p] = v]
    /\ UNCHANGED <<file, latest>>

\* Content that is no longer the file's is withdrawn, never the file's own.
Withdraw(p) ==
    /\ shelf[p] # 0
    /\ shelf[p] # file[p]
    /\ shelf' = [shelf EXCEPT ![p] = 0]
    /\ UNCHANGED <<file, latest>>

Next == \E p \in Paths : Edit(p) \/ Delete(p) \/ Publish(p) \/ Withdraw(p)

\* Publishing what is on disk now.
PublishCurrent(p) == Publish(p) /\ shelf'[p] = file[p]

Spec ==
    /\ Init
    /\ [][Next]_vars
    /\ \A p \in Paths : WF_vars(PublishCurrent(p))
=============================================================================
