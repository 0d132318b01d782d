--------------------------- MODULE JobPoolProofs ----------------------------
(***************************************************************************)
(* Proofs about JobPool, for any number of cells, any concurrency, any     *)
(* outputs and any limit of time.                                          *)
(***************************************************************************)
EXTENDS JobPool, FiniteSetTheorems, TLAPS

TypeOK ==
    /\ child \in [Cells -> {"none", "running", "killed", "0", "1"}]
    /\ pending \in Seq(Cells)
    /\ running \subseteq Cells
    /\ done \subseteq Cells \X {-1, 0, 1}
    /\ phase \in {"fill", "poll", "clock", "wait", "returned"}

Waiting == {pending[i] : i \in 1 .. Len(pending)}
Settled == {c \in Cells : \E rc \in {-1, 0, 1} : <<c, rc>> \in done}

\* Every cell is in one of the three places, and in it once.
Partition ==
    /\ \A i, j \in 1 .. Len(pending) : pending[i] = pending[j] => i = j
    /\ \A c \in Cells : c \in Waiting \/ c \in running \/ c \in Settled
    /\ \A c \in Cells : ~(c \in Waiting /\ c \in running)
    /\ \A c \in Cells : ~(c \in Settled /\ (c \in Waiting \/ c \in running))
    /\ \A c \in Cells : \A r, q \in {-1, 0, 1} :
          <<c, r>> \in done /\ <<c, q>> \in done => r = q

\* What the places say of the children.
Truthful ==
    /\ \A c \in running : child[c] \in {"running", "0", "1"}
    /\ \A c \in Cells : <<c, 0>> \in done => child[c] = "0"
    /\ \A c \in Settled : child[c] # "running"
    /\ \A c \in Waiting : child[c] = "none"

Bounded == IsFiniteSet(running) /\ Cardinality(running) <= Concurrency

JobInv ==
    /\ TypeOK
    /\ Partition
    /\ Truthful
    /\ Bounded
    /\ phase = "returned" => running = {}

-----------------------------------------------------------------------------
(* The queue.                                                              *)

LEMMA WaitingTyped == TypeOK => Waiting \subseteq Cells /\ Len(pending) \in Nat
  BY DEF TypeOK, Waiting

\* Taking the head of a queue without repetitions takes that cell out of it.
LEMMA HeadLeaves ==
    ASSUME TypeOK, Partition, pending # <<>>, pending' = Tail(pending)
    PROVE  /\ Head(pending) \in Waiting
           /\ pending' \in Seq(Cells)
           /\ Waiting' = Waiting \ {Head(pending)}
           /\ \A i, j \in 1 .. Len(pending') : pending'[i] = pending'[j] => i = j
<1> DEFINE n == Len(pending)
<1>1. /\ n \in Nat \ {0} /\ Head(pending) = pending[1] /\ 1 \in 1 .. n
      /\ pending' \in Seq(Cells) /\ Len(pending') = n - 1
      /\ \A i \in 1 .. n - 1 : pending'[i] = pending[i + 1]
  BY DEF TypeOK
<1>2. \A i \in 1 .. n - 1 : i + 1 \in 1 .. n
  BY <1>1
<1>3. \A i \in 1 .. n : i = 1 \/ (i - 1 \in 1 .. n - 1 /\ i - 1 + 1 = i)
  BY <1>1
<1>4. \A i, j \in 1 .. n : pending[i] = pending[j] => i = j
  BY DEF Partition
<1> HIDE DEF n
<1>5. \A i, j \in 1 .. n - 1 : pending'[i] = pending'[j] => i = j
  <2> SUFFICES ASSUME NEW i \in 1 .. n - 1, NEW j \in 1 .. n - 1, pending'[i] = pending'[j]
               PROVE  i = j
    OBVIOUS
  <2>1. i + 1 = j + 1
    BY <1>1, <1>2, <1>4
  <2> QED
    BY <2>1
<1>6. \A c : c \in Waiting' <=> c \in Waiting /\ c # Head(pending)
  <2> SUFFICES ASSUME NEW c PROVE c \in Waiting' <=> c \in Waiting /\ c # Head(pending)
    OBVIOUS
  <2>1. c \in Waiting <=> \E i \in 1 .. n : c = pending[i]
    BY DEF Waiting, n
  <2>2. c \in Waiting' <=> \E i \in 1 .. n - 1 : c = pending'[i]
    BY <1>1 DEF Waiting
  <2>3. ASSUME NEW i \in 1 .. n - 1, c = pending'[i]
        PROVE  c \in Waiting /\ c # Head(pending)
    <3>1. c = pending[i + 1] /\ i + 1 \in 1 .. n /\ i + 1 # 1
      BY <1>1, <1>2, <2>3
    <3> QED
      BY <1>1, <1>4, <2>1, <3>1
  <2>4. ASSUME NEW i \in 1 .. n, c = pending[i], c # Head(pending)
        PROVE  c \in Waiting'
    <3>1. i - 1 \in 1 .. n - 1 /\ i - 1 + 1 = i
      BY <1>1, <1>3, <2>4
    <3>2. pending'[i - 1] = pending[i]
      BY <1>1, <3>1
    <3> QED
      BY <2>2, <2>4, <3>1, <3>2
  <2> QED
    BY <2>1, <2>2, <2>3, <2>4
<1>7. Head(pending) \in Waiting
  BY <1>1 DEF Waiting, n
<1> QED
  BY <1>1, <1>5, <1>6, <1>7

\* The queue of the start holds each cell once: it has as many places as there
\* are cells, and every cell is in it.
LEMMA QueueOfAll ==
    ASSUME JobInit
    PROVE  /\ pending \in Seq(Cells) /\ Waiting = Cells
           /\ \A i, j \in 1 .. Len(pending) : pending[i] = pending[j] => i = j
<1> DEFINE n == Cardinality(Cells)
<1>1. IsFiniteSet(Cells) /\ n \in Nat
  BY JobAssumption, FS_CardinalityType
<1>2. pending \in [1 .. n -> Cells] /\ ToSet(pending) = Cells
  BY DEF JobInit
<1>3. IsFiniteSet(1 .. n) /\ Cardinality(1 .. n) = n
  BY <1>1, FS_Interval
<1> HIDE DEF n
<1>4. pending \in Seq(Cells) /\ Len(pending) = n
  BY <1>1, <1>2
<1>5. \A c \in Cells : \E i \in 1 .. n : pending[i] = c
  BY <1>2 DEF ToSet
<1>6. pending \in Surjection(1 .. n, Cells)
  BY <1>2, <1>5 DEF Surjection
<1>7. pending \in Injection(1 .. n, Cells)
  <2>1. Cardinality(Cells) = Cardinality(1 .. n)
    BY <1>3 DEF n
  <2> QED
    BY <1>3, <1>6, <2>1, FS_Surjection
<1>8. Waiting = Cells
  BY <1>2, <1>4, <1>5 DEF Waiting
<1>9. \A i, j \in 1 .. n : pending[i] = pending[j] => i = j
  BY <1>7 DEF Injection, IsInjective
<1> QED
  BY <1>4, <1>8, <1>9

-----------------------------------------------------------------------------
(* The steps.                                                              *)

LEMMA InitJobs == JobInit => JobInv
<1> SUFFICES ASSUME JobInit PROVE JobInv
  OBVIOUS
<1>1. /\ child = [c \in Cells |-> "none"] /\ running = {} /\ done = {} /\ phase = "fill"
  BY DEF JobInit
<1>2. TypeOK
  BY <1>1, QueueOfAll DEF TypeOK
<1>3. Partition
  BY <1>1, QueueOfAll DEF Partition, Settled
<1>4. Truthful
  BY <1>1, QueueOfAll DEF Truthful, Settled
<1>5. Bounded
  BY <1>1, FS_EmptySet, JobAssumption DEF Bounded
<1> QED
  BY <1>1, <1>2, <1>3, <1>4, <1>5 DEF JobInv

\* A child that runs may end, whoever waits for it.
LEMMA ExitKeeps ==
    ASSUME JobInv, NEW c \in Cells, NEW rc \in Codes, Exit(c, rc)
    PROVE  JobInv'
<1>1. /\ child[c] = "running" /\ child' = [child EXCEPT ![c] = CodeText(rc)]
      /\ UNCHANGED <<pending, running, done, phase>>
  BY DEF Exit, Alive
<1>2. CodeText(rc) \in {"0", "1"}
  BY DEF CodeText
<1>3. \A d \in Cells : child'[d] = IF d = c THEN CodeText(rc) ELSE child[d]
  BY <1>1 DEF JobInv, TypeOK
<1>4. TypeOK'
  BY <1>1, <1>2 DEF JobInv, TypeOK
<1>5. Waiting' = Waiting /\ Settled' = Settled
  BY <1>1 DEF Waiting, Settled
<1>6. Partition'
  BY <1>1, <1>5 DEF JobInv, Partition
<1>7. Waiting \subseteq Cells /\ running \subseteq Cells /\ Settled \subseteq Cells
  BY WaitingTyped DEF JobInv, TypeOK, Settled
<1>8. c \notin Waiting /\ c \notin Settled
  BY <1>1 DEF JobInv, Truthful
<1>9. <<c, 0>> \notin done
  BY <1>8 DEF Settled
<1>10. Truthful'
  BY <1>1, <1>2, <1>3, <1>5, <1>7, <1>8, <1>9 DEF JobInv, Truthful
<1> QED
  BY <1>1, <1>4, <1>6, <1>10 DEF JobInv, Bounded

LEMMA SpawnKeeps ==
    ASSUME JobInv, SpawnCell
    PROVE  JobInv'
<1> DEFINE h == Head(pending)
<1>1. /\ phase = "fill" /\ pending # <<>> /\ Cardinality(running) < Concurrency
      /\ child' = [child EXCEPT ![h] = "running"] /\ running' = running \cup {h}
      /\ pending' = Tail(pending) /\ UNCHANGED <<done, phase>>
  BY DEF SpawnCell, HasRoom
<1>2. /\ h \in Waiting /\ h \in Cells /\ Waiting \subseteq Cells
      /\ pending' \in Seq(Cells) /\ Waiting' = Waiting \ {h}
      /\ \A i, j \in 1 .. Len(pending') : pending'[i] = pending'[j] => i = j
  BY <1>1, HeadLeaves, WaitingTyped DEF JobInv
<1> HIDE DEF h
<1>3. TypeOK'
  BY <1>1, <1>2 DEF JobInv, TypeOK
<1>4. Settled' = Settled /\ Settled \subseteq Cells
  BY <1>1 DEF Settled
<1>5. h \notin running /\ h \notin Settled
  BY <1>2 DEF JobInv, Partition
<1>6. Partition'
  <2>1. \A c \in Cells : c \in Waiting' \/ c \in running' \/ c \in Settled'
    BY <1>1, <1>2, <1>4 DEF JobInv, Partition
  <2>2. \A c \in Cells : ~(c \in Waiting' /\ c \in running')
    BY <1>1, <1>2 DEF JobInv, Partition
  <2>3. \A c \in Cells : ~(c \in Settled' /\ (c \in Waiting' \/ c \in running'))
    BY <1>1, <1>2, <1>4, <1>5 DEF JobInv, Partition
  <2> QED
    BY <1>1, <1>2, <2>1, <2>2, <2>3 DEF JobInv, Partition
<1>7. \A d \in Cells : child'[d] = IF d = h THEN "running" ELSE child[d]
  BY <1>1 DEF JobInv, TypeOK
<1>8. Truthful'
  <2>1. <<h, 0>> \notin done
    BY <1>2, <1>5 DEF Settled
  <2>2. running \subseteq Cells
    BY DEF JobInv, TypeOK
  <2> QED
    BY <1>1, <1>2, <1>4, <1>5, <1>7, <2>1, <2>2 DEF JobInv, Truthful
<1>9. Bounded'
  <2>1. IsFiniteSet(running') /\ Cardinality(running') = Cardinality(running) + 1
    BY <1>1, <1>5, FS_AddElement DEF JobInv, Bounded
  <2>2. Cardinality(running) \in Nat
    BY FS_CardinalityType DEF JobInv, Bounded
  <2> QED
    BY <1>1, <2>1, <2>2, JobAssumption DEF Bounded
<1> QED
  BY <1>1, <1>3, <1>6, <1>8, <1>9 DEF JobInv

\* Whatever poll() finds gone moves from one list to the other.
LEMMA PollKeeps ==
    ASSUME JobInv, Poll
    PROVE  JobInv'
<1>1. /\ done' = done \cup Ended /\ running' = {c \in running : Alive(c)}
      /\ UNCHANGED <<child, pending>> /\ phase' = "clock"
  BY DEF Poll
<1>2. \A c, rc : <<c, rc>> \in Ended <=>
          c \in running /\ rc \in {0, 1} /\ child[c] = CodeText(rc)
  BY DEF Ended, Codes
<1>3. \A c \in running : child[c] \in {"running", "0", "1"} /\ c \in Cells
  BY DEF JobInv, Truthful, TypeOK
<1>4. \A c \in running : ~Alive(c) =>
          \E rc \in {0, 1} : <<c, rc>> \in Ended
  BY <1>2, <1>3 DEF Alive, CodeText
<1>5. \A c, rc : <<c, rc>> \in Ended => ~Alive(c) /\ child[c] \in {"0", "1"}
  BY <1>2 DEF Alive, CodeText
<1>6. TypeOK'
  <2>1. Ended \subseteq Cells \X {-1, 0, 1}
    BY <1>3 DEF Ended, Codes
  <2> QED
    BY <1>1, <2>1 DEF JobInv, TypeOK
<1>7. Waiting' = Waiting
  BY <1>1 DEF Waiting
<1>8. \A c \in Cells : c \in Settled' <=> c \in Settled \/ (c \in running /\ ~Alive(c))
  <2> SUFFICES ASSUME NEW c \in Cells
               PROVE  c \in Settled' <=> c \in Settled \/ (c \in running /\ ~Alive(c))
    OBVIOUS
  <2>1. c \in Settled' => c \in Settled \/ (c \in running /\ ~Alive(c))
    <3> SUFFICES ASSUME NEW rc \in {-1, 0, 1}, <<c, rc>> \in done', <<c, rc>> \notin done
                 PROVE  c \in running /\ ~Alive(c)
      BY DEF Settled
    <3>1. <<c, rc>> \in Ended
      BY <1>1
    <3> QED
      BY <1>2, <1>5, <3>1
  <2>2. c \in Settled => c \in Settled'
    BY <1>1 DEF Settled
  <2>3. c \in running /\ ~Alive(c) => c \in Settled'
    BY <1>1, <1>4 DEF Settled
  <2> QED
    BY <2>1, <2>2, <2>3
<1>9. Partition'
  <2>1. \A c \in Cells : \A r, q \in {-1, 0, 1} :
            <<c, r>> \in done' /\ <<c, q>> \in done' => r = q
    <3> SUFFICES ASSUME NEW c \in Cells, NEW r \in {-1, 0, 1}, NEW q \in {-1, 0, 1},
                        <<c, r>> \in done', <<c, q>> \in done'
                 PROVE  r = q
      OBVIOUS
    <3>1. CASE c \in running
      <4>1. c \notin Settled
        BY <3>1 DEF JobInv, Partition
      <4>2. <<c, r>> \in Ended /\ <<c, q>> \in Ended
        BY <1>1, <4>1 DEF Settled
      <4> QED
        BY <1>2, <4>2 DEF CodeText
    <3>2. CASE c \notin running
      <4>1. <<c, r>> \in done /\ <<c, q>> \in done
        BY <1>1, <1>2, <3>2
      <4> QED
        BY <4>1 DEF JobInv, Partition
    <3> QED
      BY <3>1, <3>2
  <2>2. \A c \in Cells : c \in Waiting' \/ c \in running' \/ c \in Settled'
    <3>1. \A c \in Cells : c \in Waiting \/ c \in running \/ c \in Settled
      BY DEF JobInv, Partition
    <3>2. \A c \in running : Alive(c) => c \in running'
      BY <1>1
    <3> QED
      BY <1>7, <1>8, <3>1, <3>2
  <2>3. \A c \in Cells : ~(c \in Waiting' /\ c \in running')
    BY <1>1, <1>7 DEF JobInv, Partition
  <2>4. \A c \in Cells : ~(c \in Settled' /\ (c \in Waiting' \/ c \in running'))
    BY <1>1, <1>7, <1>8 DEF JobInv, Partition
  <2> QED
    BY <1>1, <2>1, <2>2, <2>3, <2>4 DEF JobInv, Partition
<1>10. Truthful'
  <2>1. \A c \in Cells : <<c, 0>> \in done' => child'[c] = "0"
    BY <1>1, <1>2 DEF JobInv, Truthful, CodeText
  <2>2. \A c \in Settled' : child'[c] # "running"
    <3>1. Settled' \subseteq Cells
      BY DEF Settled
    <3> QED
      BY <1>1, <1>8, <3>1 DEF JobInv, Truthful, Alive
  <2> QED
    BY <1>1, <1>3, <1>7, <2>1, <2>2 DEF JobInv, Truthful
<1>11. Bounded'
  <2>1. IsFiniteSet(running') /\ Cardinality(running') <= Cardinality(running)
    BY <1>1, FS_Subset DEF JobInv, Bounded
  <2>2. Cardinality(running) \in Nat /\ Cardinality(running') \in Nat
    BY <2>1, FS_CardinalityType DEF JobInv, Bounded
  <2> QED
    BY <2>1, <2>2, JobAssumption DEF JobInv, Bounded
<1> QED
  BY <1>1, <1>6, <1>9, <1>10, <1>11 DEF JobInv

\* The timeout moves what was running to the failed, and kills what still is.
LEMMA TimeoutKeeps ==
    ASSUME JobInv, Clock, TimedOut
    PROVE  JobInv'
<1>1. /\ child' = [c \in Cells |-> IF c \in running /\ Alive(c) THEN "killed" ELSE child[c]]
      /\ done' = done \cup {<<c, -1>> : c \in running}
      /\ running' = {} /\ phase' = "returned" /\ pending' = pending
  BY DEF Clock
<1>2. running \subseteq Cells
  BY DEF JobInv, TypeOK
<1>3. \A c \in Cells, rc \in {-1, 0, 1} :
          <<c, rc>> \in done' <=> <<c, rc>> \in done \/ (c \in running /\ rc = -1)
  <2> SUFFICES ASSUME NEW c \in Cells, NEW rc \in {-1, 0, 1}
               PROVE  <<c, rc>> \in done' <=> <<c, rc>> \in done \/ (c \in running /\ rc = -1)
    OBVIOUS
  <2>1. <<c, rc>> \in {<<d, -1>> : d \in running} <=> c \in running /\ rc = -1
    OBVIOUS
  <2> QED
    BY <1>1, <2>1
<1>4. TypeOK'
  BY <1>1, <1>2 DEF JobInv, TypeOK
<1>5. Waiting' = Waiting /\ Waiting \subseteq Cells
  BY <1>1, WaitingTyped DEF Waiting, JobInv
<1>6. \A c \in Cells : c \in Settled' <=> c \in Settled \/ c \in running
  <2> SUFFICES ASSUME NEW c \in Cells
               PROVE  c \in Settled' <=> c \in Settled \/ c \in running
    OBVIOUS
  <2>1. c \in Settled' <=> \E rc \in {-1, 0, 1} : <<c, rc>> \in done'
    BY DEF Settled
  <2>2. c \in Settled <=> \E rc \in {-1, 0, 1} : <<c, rc>> \in done
    BY DEF Settled
  <2> QED
    BY <1>3, <2>1, <2>2
<1>7. Partition'
  <2>1. \A c \in Cells : \A r, q \in {-1, 0, 1} :
            <<c, r>> \in done' /\ <<c, q>> \in done' => r = q
    <3> SUFFICES ASSUME NEW c \in Cells, NEW r \in {-1, 0, 1}, NEW q \in {-1, 0, 1},
                        <<c, r>> \in done', <<c, q>> \in done'
                 PROVE  r = q
      OBVIOUS
    <3>1. CASE c \in running
      <4>1. c \notin Settled
        BY <3>1 DEF JobInv, Partition
      <4>2. <<c, r>> \notin done /\ <<c, q>> \notin done
        BY <4>1 DEF Settled
      <4>3. r = -1 /\ q = -1
        BY <1>3, <4>2
      <4> QED
        BY <4>3
    <3>2. CASE c \notin running
      <4>1. <<c, r>> \in done /\ <<c, q>> \in done
        BY <1>3, <3>2
      <4> QED
        BY <4>1 DEF JobInv, Partition
    <3> QED
      BY <3>1, <3>2
  <2> QED
    BY <1>1, <1>5, <1>6, <2>1 DEF JobInv, Partition
<1>8. Truthful'
  <2>1. \A c \in Cells : c \notin running => child'[c] = child[c]
    BY <1>1
  <2>2. \A c \in running : child'[c] # "running"
    BY <1>1, <1>2 DEF Alive
  <2>3. \A c \in Waiting : c \notin running
    BY <1>5 DEF JobInv, Partition
  <2>4. \A c \in Cells : <<c, 0>> \in done' => c \in Settled /\ <<c, 0>> \in done
    BY <1>3 DEF Settled
  <2>5. \A c \in Settled : c \in Cells /\ c \notin running
    BY DEF JobInv, Partition, Settled
  <2>6. Settled' \subseteq Cells
    BY DEF Settled
  <2> QED
    BY <1>1, <1>5, <1>6, <2>1, <2>2, <2>3, <2>4, <2>5, <2>6 DEF JobInv, Truthful
<1>9. Bounded'
  BY <1>1, FS_EmptySet, JobAssumption DEF Bounded
<1> QED
  BY <1>1, <1>4, <1>7, <1>8, <1>9 DEF JobInv

LEMMA JobStep == JobInv /\ [JobNext]_jobVars => JobInv'
<1> SUFFICES ASSUME JobInv, [JobNext]_jobVars
             PROVE  JobInv'
  OBVIOUS
<1>1. ASSUME UNCHANGED <<child, pending, running, done>>,
             phase' \in {"fill", "poll", "clock", "wait", "returned"},
             phase' = "returned" => running = {}
      PROVE  JobInv'
  BY <1>1 DEF JobInv, TypeOK, Partition, Truthful, Bounded, Waiting, Settled
<1>2. phase \in {"fill", "poll", "clock", "wait", "returned"} /\ (phase = "returned" => running = {})
  BY DEF JobInv, TypeOK
<1>3. ASSUME NEW c \in Cells, WriteOutput(c) PROVE JobInv'
  BY <1>1, <1>2, <1>3 DEF WriteOutput
<1>4. CASE Elapse
  BY <1>1, <1>2, <1>4 DEF Elapse
<1>5. CASE Filled
  BY <1>1, <1>5 DEF Filled
<1>6. CASE Again
  BY <1>1, <1>6 DEF Again
<1>7. CASE Clock /\ ~TimedOut
  BY <1>1, <1>7 DEF Clock
<1>8. CASE UNCHANGED jobVars
  BY <1>1, <1>2, <1>8 DEF jobVars
<1> QED
  BY <1>3, <1>4, <1>5, <1>6, <1>7, <1>8, ExitKeeps, SpawnKeeps, PollKeeps, TimeoutKeeps
  DEF JobNext, Orchestrator, Child

\* Whatever the children do, and whenever the timeout comes, the result calls
\* no cell a success that was not, counts each cell once, and without a timeout
\* leaves none out (orchestrator.py:orchestrate).
THEOREM ResultsAreTrue == JobSpec => []ResultIsTrue
<1>1. JobInv => ResultIsTrue
  <2> SUFFICES ASSUME JobInv PROVE ResultIsTrue
    OBVIOUS
  <2>1. \A c \in Succeeded : child[c] = "0"
    BY DEF Succeeded, JobInv, Truthful
  <2>2. Succeeded \cap Failed = {}
    BY DEF Succeeded, Failed, JobInv, Partition
  <2>3. Cardinality(running) <= Concurrency
    BY DEF JobInv, Bounded
  <2>4. ASSUME phase = "returned", pending = <<>> PROVE Succeeded \cup Failed = Cells
    <3>1. running = {} /\ Waiting = {}
      BY <2>4 DEF JobInv, Waiting
    <3>2. \A c \in Cells : c \in Settled
      BY <3>1 DEF JobInv, Partition
    <3> QED
      BY <3>2 DEF Settled, Succeeded, Failed
  <2> QED
    BY <2>1, <2>2, <2>3, <2>4 DEF ResultIsTrue
<1> QED
  BY <1>1, InitJobs, JobStep, PTL DEF JobSpec
=============================================================================
