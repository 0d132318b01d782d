------------------------------ MODULE JobPool ------------------------------
(***************************************************************************)
(* orchestrate (orchestrator.py): cells run as child processes, at most    *)
(* Concurrency at a time, polled for completion until all are done or the  *)
(* overall timeout passes.  A child writes its output into a pipe that the *)
(* orchestrator holds and never reads.                                     *)
(***************************************************************************)
EXTENDS Integers, Sequences, FiniteSets, FiniteSetsExt, SequencesExt

CONSTANTS
    Cells,
    Concurrency,
    PipeRoom,       \* units of output a pipe holds
    Output,         \* [Cells -> Nat]: units a cell writes before it exits
    CheckpointTimes, TimeLimit, LastTime    \* in units of time

ASSUME JobAssumption ==
    /\ IsFiniteSet(Cells) /\ Concurrency \in Nat \ {0} /\ PipeRoom \in Nat
    /\ Output \in [Cells -> Nat] /\ CheckpointTimes \subseteq Nat
    /\ TimeLimit \in Nat /\ LastTime \in Nat /\ LastTime > TimeLimit

VARIABLES
    time,
    child,      \* child[c]: "none", "running", "killed" or its exit code
    piped,      \* output of c in its pipe
    pending,    \* cells to be started, in order
    running, done,  \* the orchestrator's lists; done: pairs of cell and rc
    reportsDue, \* checkpoints not reported yet
    phase       \* of the loop: "fill", "poll", "clock", "wait", "returned"

jobVars == <<time, child, piped, pending, running, done, reportsDue, phase>>
Codes == {0, 1}
CodeText(rc) == IF rc = 0 THEN "0" ELSE "1"

JobInit ==
    /\ time = 0
    /\ child = [c \in Cells |-> "none"] /\ piped = [c \in Cells |-> 0]
    /\ pending \in {s \in [1 .. Cardinality(Cells) -> Cells] : ToSet(s) = Cells}
    /\ running = {} /\ done = {} /\ reportsDue = CheckpointTimes
    /\ phase = "fill"

-----------------------------------------------------------------------------
(* The children.                                                           *)

Alive(c) == child[c] = "running"

\* A write to a full pipe blocks.
WriteOutput(c) ==
    /\ Alive(c) /\ piped[c] < Output[c] /\ piped[c] < PipeRoom
    /\ piped' = [piped EXCEPT ![c] = @ + 1]
    /\ UNCHANGED <<time, child, pending, running, done, reportsDue, phase>>

\* ingest ends with 0, or with 1 after an exception.
Exit(c, rc) ==
    /\ Alive(c) /\ piped[c] = Output[c]
    /\ child' = [child EXCEPT ![c] = CodeText(rc)]
    /\ UNCHANGED <<time, piped, pending, running, done, reportsDue, phase>>

Elapse ==
    /\ time < LastTime
    /\ time' = time + 1
    /\ UNCHANGED <<child, piped, pending, running, done, reportsDue, phase>>

-----------------------------------------------------------------------------
(* The loop.                                                               *)

HasRoom == pending # <<>> /\ Cardinality(running) < Concurrency

SpawnCell ==
    /\ phase = "fill" /\ HasRoom
    /\ child' = [child EXCEPT ![Head(pending)] = "running"]
    /\ running' = running \cup {Head(pending)}
    /\ pending' = Tail(pending)
    /\ UNCHANGED <<time, piped, done, reportsDue, phase>>

Filled ==
    /\ phase = "fill" /\ ~HasRoom
    /\ phase' = "poll"
    /\ UNCHANGED <<time, child, piped, pending, running, done, reportsDue>>

\* Faulty variant of Ended: a child that has gone for any reason is a success.
EndedWell == {<<c, 0>> : c \in {d \in running : ~Alive(d)}}

\* The children poll() finds gone, with their return codes.
Ended == {e \in running \X Codes : child[e[1]] = CodeText(e[2])}

Poll ==
    /\ phase = "poll"
    /\ done' = done \cup Ended
    /\ running' = {c \in running : Alive(c)}
    /\ phase' = "clock"
    /\ UNCHANGED <<time, child, piped, pending, reportsDue>>

\* Faulty variant of TimedOut: the time left counts from the last poll.
TimedOutSincePoll == 0 > TimeLimit

\* Checkpoint reports, then the timeout: what runs is terminated and counted as
\* failed whatever its exit code, what is pending is in no list.
TimedOut == time > TimeLimit
Clock ==
    /\ phase = "clock"
    /\ reportsDue' = {t \in reportsDue : t > time}
    /\ IF TimedOut
       THEN /\ child' = [c \in Cells |-> IF c \in running /\ Alive(c) THEN "killed"
                                         ELSE child[c]]
            /\ done' = done \cup {<<c, -1>> : c \in running}
            /\ running' = {}
            /\ phase' = "returned"
       ELSE /\ phase' = "wait"
            /\ UNCHANGED <<child, done, running>>
    /\ UNCHANGED <<time, piped, pending>>

\* while pending or running
Again ==
    /\ phase = "wait"
    /\ phase' = IF pending # <<>> \/ running # {} THEN "fill" ELSE "returned"
    /\ UNCHANGED <<time, child, piped, pending, running, done, reportsDue>>

Orchestrator == SpawnCell \/ Filled \/ Poll \/ Clock \/ Again
Child(c) == WriteOutput(c) \/ \E rc \in Codes : Exit(c, rc)
JobNext == Orchestrator \/ Elapse \/ \E c \in Cells : Child(c)

JobSpec == JobInit /\ [][JobNext]_jobVars
    /\ WF_jobVars(Orchestrator) /\ WF_jobVars(Elapse)
    /\ \A c \in Cells : WF_jobVars(Child(c))

-----------------------------------------------------------------------------
Succeeded == {c \in Cells : <<c, 0>> \in done}
Failed == {c \in Cells : \E rc \in {-1, 1} : <<c, rc>> \in done}

\* The result never calls a cell a success that was not, and counts each cell
\* once; without a timeout it leaves none out and none running.
ResultIsTrue ==
    /\ \A c \in Succeeded : child[c] = "0"
    /\ Succeeded \cap Failed = {} /\ Cardinality(running) <= Concurrency
    /\ phase = "returned" /\ (\A c \in Cells : <<c, -1>> \notin done) /\ pending = <<>> =>
          Succeeded \cup Failed = Cells

\* orchestrate comes back, even when a child waits for ever on its full pipe.
Returns == <>(phase = "returned")

\* Every cell gets its turn and an exit code of its own.
EveryCellRuns == <>(Succeeded \cup Failed = Cells)
=============================================================================
