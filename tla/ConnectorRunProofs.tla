------------------------- MODULE ConnectorRunProofs -------------------------
(***************************************************************************)
(* Proofs about ConnectorRun, for a source of any number of documents, any *)
(* sizes of pages and batches, and any number of edits and losses.         *)
(***************************************************************************)
EXTENDS ConnectorRun, TLAPS

-----------------------------------------------------------------------------
(* The inductive invariants.                                               *)

Contents == Nat \ {0}
Files == Nat \cup {Torn}
EndsEarly == Abort \/ TearBlob \/ TearMeta \/ AskingFails
Runs == [pc : {"halt", "load", "hand", "meta", "checkpoint"},
         pos : 0 .. DocCount, at : Nat, end : 0 .. DocCount]

TypeOK ==
    /\ content \in [Docs -> Contents] /\ asOf \in [Docs -> Contents]
    /\ keeps \in BOOLEAN
    /\ run \in Runs
    /\ docBatch \in Seq(Docs \X Contents)
    /\ checkpoint \in 0 .. DocCount
    /\ written \in [Docs -> Nat]
    /\ raw \in [Docs -> [blob : Files, meta : Files]] /\ cut \in [Docs -> Nat]

\* Where a run may be within its page and its batch.
Placed ==
    /\ run.pc # "halt" => checkpoint <= run.pos /\ run.pos <= run.end
    /\ run.pc = "hand" => run.at <= Len(docBatch)
    /\ run.pc = "meta" => run.at < Len(docBatch)
    /\ run.pc \in {"load", "checkpoint"} => run.at = 0
    /\ run.pc = "checkpoint" => docBatch = <<>> /\ run.pos = run.end

\* Nothing of d is left in the batch behind position k.
NoneBehind(d, k) == \A j \in k + 1 .. Len(docBatch) : docBatch[j][1] # d

\* The last that is still to be handed on of d is as new as the run, or the
\* target is and nothing is still to be handed on.
Coming(d) ==
    \/ \E k \in run.at + 1 .. Len(docBatch) :
          docBatch[k][1] = d /\ docBatch[k][2] >= asOf[d] /\ NoneBehind(d, k)
    \/ written[d] >= asOf[d] /\ NoneBehind(d, run.at)

\* Every document the run has passed was reported or is coming.
Passed ==
    run.pc # "halt" =>
        \A d \in Docs : checkpoint < d /\ d <= run.pos => d \in reported \/ Coming(d)

\* Every document behind the checkpoint was reported or written.
Behind == \A d \in Docs : d <= checkpoint => d \in reported \/ written[d] # 0

\* A run never knows more than the source.
Aged == \A d \in Docs : asOf[d] <= content[d]

BackedInv == TypeOK /\ Placed /\ Passed /\ Behind /\ Aged

\* Between put's two writes, the blob is the new one and meta.json is not.
Putting ==
    run.pc = "meta" =>
        /\ cut[HandedDoc] = HandedContent /\ raw[HandedDoc].blob = HandedContent
        /\ raw[HandedDoc].meta # HandedContent

\* A meta.json that was written to its end vouches for the blob beside it, or is
\* older than a put that has not come to its end.
MetaVouches ==
    \A d \in Docs :
        /\ raw[d].blob = 0 => raw[d].meta = 0
        /\ raw[d].meta \in Contents =>
              IF cut[d] = 0 THEN raw[d].blob = raw[d].meta ELSE raw[d].meta # cut[d]
        /\ raw[d].meta = Torn => cut[d] # 0

TruthInv == TypeOK /\ Placed /\ Putting /\ MetaVouches

-----------------------------------------------------------------------------
(* Typing.                                                                 *)

LEMMA EndOfPage ==
    ASSUME NEW from \in 0 .. DocCount, from < DocCount
    PROVE  Min({from + PageSize, DocCount}) \in from + 1 .. DocCount
<1> DEFINE S == {from + PageSize, DocCount}
<1>1. \E x \in S : \A y \in S : x <= y
  BY ConnectorAssumption
<1>2. Min(S) \in S /\ \A y \in S : Min(S) <= y
  <2>1. Min(S) = CHOOSE x \in S : \A y \in S : x <= y
    BY DEF Min
  <2> HIDE DEF S
  <2> QED
    BY <1>1, <2>1
<1>3. from + PageSize \in from + 1 .. from + PageSize
  BY ConnectorAssumption
<1> QED
  BY <1>2, <1>3, ConnectorAssumption

\* Where the runner is.
LEMMA RunTyped ==
    ASSUME TypeOK
    PROVE  /\ run.pc \in {"halt", "load", "hand", "meta", "checkpoint"}
           /\ run.pos \in 0 .. DocCount /\ run.at \in Nat
           /\ run.end \in 0 .. DocCount /\ Len(docBatch) \in Nat
           /\ checkpoint \in 0 .. DocCount
  BY DEF TypeOK, Runs

\* The document a consumer is handed, and its content.
LEMMA HandedTyped ==
    ASSUME TypeOK, run.at < Len(docBatch)
    PROVE  /\ run.at + 1 \in DOMAIN docBatch
           /\ HandedDoc \in Docs /\ HandedContent \in Contents
<1>1. run.at + 1 \in 1 .. Len(docBatch)
  BY RunTyped
<1>2. docBatch[run.at + 1] \in Docs \X Contents
  BY <1>1 DEF TypeOK
<1> QED
  BY <1>1, <1>2 DEF HandedDoc, HandedContent, TypeOK

LEMMA TypeInit == ConnInit => TypeOK /\ Placed
  BY ConnectorAssumption DEF ConnInit, TypeOK, Placed, Halt, Contents, Runs, Files

\* What a step of the runner does to its batch and to its place.
LEMMA TypeStep == TypeOK /\ Placed /\ [ConnNext]_connVars => TypeOK' /\ Placed'
<1> SUFFICES ASSUME TypeOK, Placed, [ConnNext]_connVars
             PROVE  TypeOK' /\ Placed'
  OBVIOUS
<1> USE ConnectorAssumption, RunTyped
<1>1. ASSUME NEW d \in Docs, EditDoc(d)
      PROVE  TypeOK' /\ Placed'
  <2>1. content' \in [Docs -> Contents]
    <3>1. content[d] + 1 \in Contents
      <4>1. content[d] \in Contents
        BY DEF TypeOK
      <4> QED
        BY <4>1 DEF Contents
    <3> QED
      BY <1>1, <3>1 DEF EditDoc, TypeOK
  <2> QED
    BY <1>1, <2>1 DEF EditDoc, TypeOK, Placed
<1>2. CASE Run
  <2>1. checkpoint \in 0 .. DocCount /\ checkpoint < DocCount
    BY <1>2 DEF Run, TypeOK
  <2>2. Min({checkpoint + PageSize, DocCount}) \in checkpoint + 1 .. DocCount
    BY <2>1, EndOfPage
  <2>3. /\ run'.pc = "load" /\ run'.pos = checkpoint /\ run'.at = 0
        /\ run'.end \in checkpoint + 1 .. DocCount
        /\ run' \in Runs
    BY <1>2, <2>1, <2>2 DEF Run, Runs
  <2>10. TypeOK'
    BY <1>2, <2>1, <2>3 DEF Run, TypeOK
  <2>11. Placed'
    BY <1>2, <2>1, <2>3 DEF Run, Placed
  <2> QED
    BY <2>10, <2>11
<1>3. CASE YieldDocument
  <2>1. run.pos + 1 \in Docs
    BY <1>3 DEF YieldDocument, Docs
  <2>2. content[run.pos + 1] \in Contents
    BY <2>1 DEF TypeOK
  <2>3. <<run.pos + 1, content[run.pos + 1]>> \in Docs \X Contents
    BY <2>1, <2>2
  <2>4. docBatch' \in Seq(Docs \X Contents)
    BY <1>3, <2>3 DEF YieldDocument, TypeOK
  <2>5. AfterYield(docBatch') \in {"hand", "load"}
    BY DEF AfterYield
  <2>6. /\ run'.pc \in {"hand", "load"} /\ run'.at = 0
        /\ run'.pos = run.pos + 1 /\ run'.end = run.end /\ run' \in Runs
    <3>1. run' = [pc |-> AfterYield(docBatch'), pos |-> run.pos + 1,
                  at |-> run.at, end |-> run.end]
      BY <1>3 DEF YieldDocument, TypeOK, Runs
    <3>2. run.pos + 1 \in 0 .. DocCount /\ run.at = 0
      BY <1>3 DEF YieldDocument, Placed
    <3> QED
      BY <2>5, <3>1, <3>2 DEF Runs
  <2>7. Len(docBatch') \in Nat
    BY <2>4
  <2>10. TypeOK'
    BY <1>3, <2>4, <2>6, <2>7 DEF YieldDocument, TypeOK
  <2>11. Placed'
    BY <1>3, <2>4, <2>6, <2>7 DEF YieldDocument, Placed
  <2> QED
    BY <2>10, <2>11
<1>4. CASE YieldFailure
  <2>1. AfterYield(docBatch) \in {"hand", "load"}
    BY DEF AfterYield
  <2>2. /\ run'.pc \in {"hand", "load"} /\ run'.at = 0
        /\ run'.pos = run.pos + 1 /\ run'.end = run.end /\ run' \in Runs
    <3>1. run' = [pc |-> AfterYield(docBatch), pos |-> run.pos + 1,
                  at |-> run.at, end |-> run.end]
      BY <1>4 DEF YieldFailure, TypeOK, Runs
    <3>2. run.pos + 1 \in 0 .. DocCount /\ run.at = 0
      BY <1>4 DEF YieldFailure, Placed
    <3> QED
      BY <2>1, <3>1, <3>2 DEF Runs
  <2>10. TypeOK'
    BY <1>4, <2>2 DEF YieldFailure, TypeOK
  <2>11. Placed'
    BY <1>4, <2>2 DEF YieldFailure, Placed
  <2> QED
    BY <2>10, <2>11
<1>5. CASE EndPage
  <2>1. /\ run'.pc = IF docBatch = <<>> THEN "checkpoint" ELSE "hand"
        /\ run'.at = 0 /\ run'.pos = run.pos /\ run'.end = run.end /\ run' \in Runs
    BY <1>5 DEF EndPage, AfterPage, TypeOK, Placed, Runs
  <2>10. TypeOK'
    BY <1>5, <2>1 DEF EndPage, TypeOK
  <2>11. Placed'
    BY <1>5, <2>1 DEF EndPage, Placed
  <2> QED
    BY <2>10, <2>11
<1>6. CASE PutBlob
  <2>1. HandedDoc \in Docs /\ HandedContent \in Contents
    BY <1>6, HandedTyped DEF PutBlob, Handing
  <2>2. /\ BlobPut(HandedDoc, HandedContent) \in [Docs -> [blob : Files, meta : Files]]
        /\ [cut EXCEPT ![HandedDoc] = HandedContent] \in [Docs -> Nat]
    BY <2>1 DEF BlobPut, TypeOK, Contents, Files
  <2>3. /\ run'.pc = "meta" /\ run'.at = run.at /\ run'.pos = run.pos
        /\ run'.end = run.end /\ run' \in Runs
    BY <1>6 DEF PutBlob, TypeOK, Runs
  <2>10. TypeOK'
    BY <1>6, <2>2, <2>3 DEF PutBlob, Handing, TypeOK
  <2>11. Placed'
    BY <1>6, <2>2, <2>3 DEF PutBlob, Handing, Placed
  <2> QED
    BY <2>10, <2>11
<1>7. CASE PutMeta
  <2>1. HandedDoc \in Docs /\ HandedContent \in Contents
    BY <1>7, HandedTyped DEF PutMeta, Placed
  <2>2. raw' \in [Docs -> [blob : Files, meta : Files]] /\ cut' \in [Docs -> Nat]
    BY <1>7, <2>1 DEF PutMeta, TypeOK, Contents, Files
  <2>3. /\ run'.pc = "hand" /\ run'.at = run.at /\ run'.pos = run.pos
        /\ run'.end = run.end /\ run' \in Runs
    BY <1>7 DEF PutMeta, TypeOK, Runs
  <2>10. TypeOK'
    BY <1>7, <2>2, <2>3 DEF PutMeta, TypeOK
  <2>11. Placed'
    BY <1>7, <2>2, <2>3 DEF PutMeta, Placed
  <2> QED
    BY <2>10, <2>11
<1>8. CASE WriteDoc
  <2>1. HandedDoc \in Docs /\ HandedContent \in Contents
    BY <1>8, HandedTyped DEF WriteDoc, Handing
  <2>2. written' \in [Docs -> Nat]
    BY <1>8, <2>1 DEF WriteDoc, TypeOK, Contents
  <2>3. /\ run'.pc = "hand" /\ run'.at = run.at + 1 /\ run'.pos = run.pos
        /\ run'.end = run.end /\ run' \in Runs
    <3>1. run' = [pc |-> "hand", pos |-> run.pos, at |-> run.at + 1, end |-> run.end]
      BY <1>8 DEF WriteDoc, Handing, TypeOK, Runs
    <3> QED
      BY <3>1 DEF Runs
  <2>10. TypeOK'
    BY <1>8, <2>2, <2>3 DEF WriteDoc, Handing, TypeOK
  <2>11. Placed'
    BY <1>8, <2>2, <2>3 DEF WriteDoc, Handing, Placed
  <2> QED
    BY <2>10, <2>11
<1>9. CASE ResumeRunner
  <2>1. /\ run'.pc = "load" /\ run'.at = 0 /\ run'.pos = run.pos
        /\ run'.end = run.end /\ run' \in Runs
    BY <1>9 DEF ResumeRunner, TypeOK, Runs
  <2>10. TypeOK'
    BY <1>9, <2>1 DEF ResumeRunner, TypeOK
  <2>11. Placed'
    BY <1>9, <2>1 DEF ResumeRunner, Placed
  <2> QED
    BY <2>10, <2>11
<1>10. CASE YieldCheckpoint
  BY <1>10 DEF YieldCheckpoint, Halt, TypeOK, Placed, Runs
<1>11. CASE EndsEarly
  <2>1. GiveUp
    BY <1>11 DEF EndsEarly, Abort, TearBlob, TearMeta, AskingFails
  <2>2. raw' \in [Docs -> [blob : Files, meta : Files]] /\ cut' \in [Docs -> Nat]
    <3>1. CASE Abort \/ AskingFails
      BY <3>1 DEF Abort, AskingFails, TypeOK
    <3>2. CASE TearBlob
      <4>1. HandedDoc \in Docs /\ HandedContent \in Contents
        BY <3>2, HandedTyped DEF TearBlob, Handing
      <4> QED
        BY <3>2, <4>1 DEF TearBlob, TypeOK, Contents, Files
    <3>3. CASE TearMeta
      BY <3>3 DEF TearMeta, TypeOK, Files
    <3> QED
      BY <1>11, <3>1, <3>2, <3>3 DEF EndsEarly
  <2>3. TypeOK'
    BY <2>1, <2>2 DEF GiveUp, Halt, TypeOK, Runs
  <2> QED
    BY <2>1, <2>3 DEF GiveUp, Halt, Placed
<1>12. CASE UNCHANGED connVars
  BY <1>12 DEF connVars, TypeOK, Placed
<1> QED
  BY <1>1, <1>2, <1>3, <1>4, <1>5, <1>6, <1>7, <1>8, <1>9, <1>10, <1>11, <1>12
  DEF ConnNext, EndsEarly

THEOREM Typing == ConnSpec => [](TypeOK /\ Placed)
  BY TypeInit, TypeStep, PTL DEF ConnSpec

\* What a run that ends early leaves alone.
LEMMA EndsEarlyLeaves ==
    ASSUME EndsEarly
    PROVE  /\ run' = Halt /\ UNCHANGED <<content, checkpoint, written, reported, asOf>>
  BY DEF EndsEarly, Abort, TearBlob, TearMeta, AskingFails, GiveUp

-----------------------------------------------------------------------------
(* The checkpoint.                                                         *)

\* A step that leaves the batch and the place in it alone.
LEMMA PassedKept ==
    ASSUME Passed, UNCHANGED <<docBatch, asOf, written, checkpoint, reported>>,
           run'.at = run.at, run'.pos = run.pos,
           run'.pc # "halt" => run.pc # "halt"
    PROVE  Passed'
  BY DEF Passed, Coming, NoneBehind

\* The runner appends the document it is at: those before it are still coming,
\* and so is this one.
LEMMA PassedYield ==
    ASSUME BackedInv, YieldDocument
    PROVE  Passed'
<1> USE DEF BackedInv
<1> DEFINE e == <<run.pos + 1, content[run.pos + 1]>>
           n == Len(docBatch)
<1>1. /\ run.pc = "load" /\ run.pos < run.end /\ run.at = 0 /\ run'.at = 0
      /\ run'.pos = run.pos + 1 /\ run.pos \in Nat /\ checkpoint' = checkpoint
      /\ UNCHANGED <<asOf, written, reported, content>>
  BY RunTyped DEF YieldDocument, Placed, TypeOK, Runs
<1>2. run.pos + 1 \in Docs /\ n \in Nat
  BY <1>1, RunTyped, ConnectorAssumption DEF Docs
<1>3. /\ docBatch' \in Seq(Docs \X Contents) /\ Len(docBatch') = n + 1
      /\ \A j \in 1 .. n : docBatch'[j] = docBatch[j]
      /\ docBatch'[n + 1] = e
  <2>1. e \in Docs \X Contents
    BY <1>2 DEF TypeOK
  <2>2. docBatch' = Append(docBatch, e)
    BY DEF YieldDocument
  <2> QED
    BY <2>1, <2>2 DEF TypeOK
<1>4. ASSUME NEW d \in Docs, d # run.pos + 1, Coming(d)
      PROVE  Coming(d)'
  <2>1. \A k \in 0 .. n : NoneBehind(d, k) => NoneBehind(d, k)'
    <3> SUFFICES ASSUME NEW k \in 0 .. n, NoneBehind(d, k), NEW j \in k + 1 .. n + 1
                 PROVE  docBatch'[j][1] # d
      BY <1>3 DEF NoneBehind
    <3>1. CASE j = n + 1
      BY <1>3, <1>4, <3>1
    <3>2. CASE j # n + 1
      BY <1>2, <1>3, <3>2 DEF NoneBehind
    <3> QED
      BY <3>1, <3>2
  <2>2. CASE \E k \in 1 .. n :
                 docBatch[k][1] = d /\ docBatch[k][2] >= asOf[d] /\ NoneBehind(d, k)
    <3>1. PICK k \in 1 .. n :
                 docBatch[k][1] = d /\ docBatch[k][2] >= asOf[d] /\ NoneBehind(d, k)
      BY <2>2
    <3>2. k \in run'.at + 1 .. Len(docBatch') /\ k \in 0 .. n
      BY <1>1, <1>2, <1>3
    <3>3. docBatch'[k][1] = d /\ docBatch'[k][2] >= asOf'[d] /\ NoneBehind(d, k)'
      BY <1>1, <1>3, <2>1, <3>1, <3>2
    <3> QED
      BY <3>2, <3>3 DEF Coming
  <2>3. CASE written[d] >= asOf[d] /\ NoneBehind(d, 0)
    BY <1>1, <1>2, <2>1, <2>3 DEF Coming
  <2> QED
    BY <1>1, <1>4, <2>2, <2>3 DEF Coming
<1>5. ASSUME NEW d \in Docs, d = run.pos + 1
      PROVE  Coming(d)'
  <2> PICK last : last = n + 1
    OBVIOUS
  <2>1. last \in run'.at + 1 .. Len(docBatch') /\ NoneBehind(d, last)'
    BY <1>1, <1>2, <1>3 DEF NoneBehind
  <2>2. docBatch'[last][1] = d /\ docBatch'[last][2] >= asOf'[d]
    <3>1. asOf[d] <= content[d] /\ asOf[d] \in Nat /\ content[d] \in Nat
      BY DEF Aged, TypeOK, Contents
    <3> QED
      BY <1>1, <1>3, <1>5, <3>1
  <2> QED
    BY <2>1, <2>2 DEF Coming
<1>6. \A d \in Docs : checkpoint < d /\ d <= run.pos /\ d \notin reported => Coming(d)
  BY <1>1 DEF Passed
<1> SUFFICES ASSUME NEW d \in Docs, checkpoint < d, d <= run.pos + 1, d \notin reported
             PROVE  Coming(d)'
  BY <1>1 DEF Passed
<1> QED
  BY <1>1, <1>4, <1>5, <1>6, ConnectorAssumption DEF Docs

\* The document handed on reaches the target; if an older reading of it was
\* left in the batch, the newer one is still behind it.
LEMMA PassedWrite ==
    ASSUME BackedInv, WriteDoc
    PROVE  Passed'
<1> USE DEF BackedInv
<1>1. /\ run.pc = "hand" /\ run.at < Len(docBatch) /\ run'.at = run.at + 1
      /\ run'.pos = run.pos /\ checkpoint' = checkpoint
      /\ written' = [written EXCEPT ![HandedDoc] = HandedContent]
      /\ UNCHANGED <<asOf, reported, docBatch>>
  BY DEF WriteDoc, Handing, TypeOK, Runs
<1>2. HandedDoc \in Docs /\ HandedContent \in Contents
  BY <1>1, HandedTyped
<1> SUFFICES ASSUME NEW d \in Docs, Coming(d)
             PROVE  Coming(d)'
  BY <1>1 DEF Passed
<1>3. run.at \in Nat /\ Len(docBatch) \in Nat
  BY RunTyped
<1>4. \A k : NoneBehind(d, k)' <=> NoneBehind(d, k)
  BY <1>1 DEF NoneBehind
<1>5. CASE \E k \in run.at + 1 .. Len(docBatch) :
               docBatch[k][1] = d /\ docBatch[k][2] >= asOf[d] /\ NoneBehind(d, k)
  <2>1. PICK k \in run.at + 1 .. Len(docBatch) :
               docBatch[k][1] = d /\ docBatch[k][2] >= asOf[d] /\ NoneBehind(d, k)
    BY <1>5
  <2>2. CASE k = run.at + 1
    <3>1. HandedDoc = d /\ HandedContent >= asOf[d]
      BY <2>1, <2>2 DEF HandedDoc, HandedContent
    <3>2. written'[d] >= asOf'[d]
      BY <1>1, <1>2, <3>1 DEF TypeOK
    <3> QED
      BY <1>1, <1>4, <2>1, <2>2, <3>2 DEF Coming
  <2>3. CASE k # run.at + 1
    <3>1. k \in run'.at + 1 .. Len(docBatch')
      BY <1>1, <1>3, <2>3
    <3> QED
      BY <1>1, <1>4, <2>1, <3>1 DEF Coming
  <2> QED
    BY <2>2, <2>3
<1>6. CASE written[d] >= asOf[d] /\ NoneBehind(d, run.at)
  <2>1. run.at + 1 \in run.at + 1 .. Len(docBatch)
    BY <1>1, <1>3
  <2>2. HandedDoc # d
    BY <1>6, <2>1 DEF NoneBehind, HandedDoc
  <2>3. written'[d] >= asOf'[d]
    BY <1>1, <1>6, <2>2 DEF TypeOK
  <2>4. NoneBehind(d, run.at + 1)
    BY <1>3, <1>6 DEF NoneBehind
  <2> QED
    BY <1>1, <1>4, <2>3, <2>4 DEF Coming
<1> QED
  BY <1>5, <1>6 DEF Coming

\* The batch has been handed on, so what was coming has come.
LEMMA PassedResume ==
    ASSUME BackedInv, ResumeRunner
    PROVE  Passed'
<1> USE DEF BackedInv
<1>1. /\ run.pc = "hand" /\ run.at = Len(docBatch) /\ run'.at = 0
      /\ run'.pos = run.pos /\ checkpoint' = checkpoint /\ docBatch' = <<>>
      /\ UNCHANGED <<asOf, reported, written>>
  BY DEF ResumeRunner, TypeOK, Runs
<1>2. run.at \in Nat
  BY RunTyped
<1> SUFFICES ASSUME NEW d \in Docs, Coming(d)
             PROVE  Coming(d)'
  BY <1>1 DEF Passed
<1>3. written[d] >= asOf[d]
  BY <1>1, <1>2 DEF Coming
<1>4. NoneBehind(d, 0)'
  BY <1>1 DEF NoneBehind
<1> QED
  BY <1>1, <1>3, <1>4 DEF Coming

\* At the end of a page whatever the run has passed was reported or written.
LEMMA PageIsBacked ==
    ASSUME BackedInv, run.pc = "checkpoint"
    PROVE  \A d \in Docs : checkpoint < d /\ d <= run.end =>
               d \in reported \/ written[d] >= asOf[d]
<1>1. run.at = 0 /\ docBatch = <<>> /\ run.pos = run.end
  BY DEF BackedInv, Placed
<1> QED
  BY <1>1 DEF BackedInv, Passed, Coming

LEMMA BackedInit == ConnInit => BackedInv
<1>1. ConnInit => Passed /\ Behind /\ Aged
  BY ConnectorAssumption DEF ConnInit, Halt, Passed, Behind, Aged, Docs
<1> QED
  BY <1>1, TypeInit DEF BackedInv

LEMMA BackedStep == BackedInv /\ [ConnNext]_connVars => BackedInv'
<1> SUFFICES ASSUME BackedInv, [ConnNext]_connVars
             PROVE  BackedInv'
  OBVIOUS
<1> USE DEF BackedInv
<1>1. TypeOK' /\ Placed'
  BY TypeStep
<1>2. Aged'
  <2>1. \A d \in Docs : asOf[d] \in Nat /\ content[d] \in Nat
    BY DEF TypeOK, Contents
  <2>2. ASSUME NEW d \in Docs, EditDoc(d) PROVE Aged'
    BY <2>1, <2>2 DEF EditDoc, TypeOK, Aged
  <2>3. CASE Run
    BY <2>1, <2>3 DEF Run, Aged
  <2>4. CASE UNCHANGED <<content, asOf>>
    BY <2>4 DEF Aged
  <2> QED
    BY <2>2, <2>3, <2>4, EndsEarlyLeaves
    DEF ConnNext, connVars, YieldDocument, YieldFailure, EndPage, PutBlob,
        PutMeta, WriteDoc, ResumeRunner, YieldCheckpoint, EndsEarly
<1>3. Behind'
  <2>1. CASE WriteDoc
    <3>1. HandedDoc \in Docs /\ HandedContent \in Contents
      BY <2>1, HandedTyped DEF WriteDoc, Handing
    <3> QED
      BY <2>1, <3>1 DEF WriteDoc, Behind, TypeOK, Contents
  <2>2. CASE YieldCheckpoint
    <3>1. run.pc = "checkpoint" /\ checkpoint' = run.end /\ UNCHANGED <<written, reported>>
      BY <2>2 DEF YieldCheckpoint
    <3>2. \A d \in Docs : written[d] >= asOf[d] => written[d] # 0
      BY DEF TypeOK, Contents
    <3>3. checkpoint \in Nat
      BY RunTyped
    <3> QED
      BY <3>1, <3>2, <3>3, PageIsBacked DEF Behind, Docs
  <2>3. CASE YieldFailure
    BY <2>3 DEF YieldFailure, Behind
  <2>4. CASE UNCHANGED <<checkpoint, reported, written>>
    BY <2>4 DEF Behind
  <2> QED
    BY <2>1, <2>2, <2>3, <2>4, EndsEarlyLeaves
    DEF ConnNext, connVars, EditDoc, Run, YieldDocument, EndPage, PutBlob,
        PutMeta, ResumeRunner, EndsEarly
<1>4. Passed'
  <2>1. ASSUME NEW d \in Docs, EditDoc(d) PROVE Passed'
    BY <2>1, PassedKept DEF EditDoc
  <2>2. CASE Run
    <3>1. run'.pos = checkpoint /\ checkpoint' = checkpoint /\ checkpoint \in Nat
      BY <2>2, RunTyped DEF Run
    <3> QED
      BY <3>1 DEF Passed, Docs
  <2>3. CASE YieldDocument
    BY <2>3, PassedYield
  <2>4. CASE YieldFailure
    <3>1. /\ run.pc = "load" /\ run'.at = run.at /\ run'.pos = run.pos + 1
          /\ reported' = reported \cup {run.pos + 1}
          /\ UNCHANGED <<docBatch, asOf, written, checkpoint>>
          /\ run.pos \in Nat
      BY <2>4, RunTyped DEF YieldFailure, TypeOK, Runs
    <3>2. \A d \in Docs : Coming(d) => Coming(d)'
      BY <3>1 DEF Coming, NoneBehind
    <3> QED
      BY <3>1, <3>2 DEF Passed, Docs
  <2>5. CASE EndPage
    BY <2>5, PassedKept DEF EndPage, TypeOK, Runs
  <2>6. CASE PutBlob
    BY <2>6, PassedKept DEF PutBlob, Handing, TypeOK, Runs
  <2>7. CASE PutMeta
    BY <2>7, PassedKept DEF PutMeta, TypeOK, Runs
  <2>8. CASE WriteDoc
    BY <2>8, PassedWrite
  <2>9. CASE ResumeRunner
    BY <2>9, PassedResume
  <2>10. CASE YieldCheckpoint \/ EndsEarly
    BY <2>10, EndsEarlyLeaves DEF YieldCheckpoint, Halt, Passed
  <2>11. CASE UNCHANGED connVars
    BY <2>11, PassedKept DEF connVars
  <2> QED
    BY <2>1, <2>2, <2>3, <2>4, <2>5, <2>6, <2>7, <2>8, <2>9, <2>10, <2>11
    DEF ConnNext, EndsEarly
<1> QED
  BY <1>1, <1>2, <1>3, <1>4

\* Whatever fails, whatever is edited and whatever an earlier run left in the
\* runner, a checkpoint covers no document that was lost (_base/runner.py).
THEOREM CheckpointsAreBacked == ConnSpec => []CheckpointIsBacked
<1>1. BackedInv => CheckpointIsBacked
  <2> SUFFICES ASSUME BackedInv PROVE CheckpointIsBacked
    OBVIOUS
  <2>1. checkpoint \in 0 .. DocCount /\ run.end \in 0 .. DocCount
    BY RunTyped DEF BackedInv
  <2>2. \A d \in 1 .. checkpoint : d \in Docs /\ d <= checkpoint
    BY <2>1, ConnectorAssumption DEF Docs
  <2>3. \A d \in checkpoint + 1 .. run.end : d \in Docs /\ checkpoint < d /\ d <= run.end
    BY <2>1, ConnectorAssumption DEF Docs
  <2> QED
    BY <2>2, <2>3, PageIsBacked DEF CheckpointIsBacked, BackedInv, Behind
<1> QED
  BY <1>1, BackedInit, BackedStep, PTL DEF ConnSpec

-----------------------------------------------------------------------------
(* The raw store.                                                          *)

LEMMA TruthInit == ConnInit => TruthInv
<1>1. ConnInit => Putting /\ MetaVouches
  BY DEF ConnInit, Halt, Putting, MetaVouches, Contents, Torn
<1> QED
  BY <1>1, TypeInit DEF TruthInv

\* A put that begins does so over another fingerprint, or none.
LEMMA PutBegins ==
    ASSUME TruthInv, Handing, Missing,
           cut' = [cut EXCEPT ![HandedDoc] = HandedContent],
           NEW file \in {HandedContent, Torn}, raw' = [raw EXCEPT ![HandedDoc].blob = file]
    PROVE  /\ MetaVouches'
           /\ cut'[HandedDoc] = HandedContent /\ raw'[HandedDoc].blob = file
           /\ raw'[HandedDoc].meta # HandedContent
<1>1. HandedDoc \in Docs /\ HandedContent \in Contents
  BY HandedTyped DEF TruthInv, Handing
<1>2. \A d \in Docs :
         IF d = HandedDoc
         THEN raw'[d].meta = raw[d].meta /\ raw'[d].blob = file /\ cut'[d] = HandedContent
         ELSE raw'[d] = raw[d] /\ cut'[d] = cut[d]
  BY <1>1 DEF TruthInv, TypeOK
<1>3. raw[HandedDoc].meta \notin {HandedContent, Torn}
  BY <1>1 DEF Missing, Exists, ExistsRaises, TruthInv, MetaVouches, Contents, Torn
<1>4. file # 0 /\ HandedContent # 0
  BY <1>1 DEF Contents, Torn
<1> QED
  BY <1>1, <1>2, <1>3, <1>4 DEF TruthInv, MetaVouches

LEMMA TruthStep == TruthInv /\ [ConnNext]_connVars => TruthInv'
<1> SUFFICES ASSUME TruthInv, [ConnNext]_connVars
             PROVE  Putting' /\ MetaVouches'
  BY TypeStep DEF TruthInv
<1> USE DEF TruthInv
<1>1. ASSUME UNCHANGED <<raw, cut>>, run'.pc # "meta" PROVE Putting' /\ MetaVouches'
  BY <1>1 DEF Putting, MetaVouches
<1>2. ASSUME UNCHANGED <<raw, cut, run, docBatch>> PROVE Putting' /\ MetaVouches'
  BY <1>2 DEF Putting, MetaVouches, HandedDoc, HandedContent
<1>3. ASSUME NEW d \in Docs, EditDoc(d) PROVE Putting' /\ MetaVouches'
  BY <1>2, <1>3 DEF EditDoc
<1>4. CASE Run
  BY <1>1, <1>4 DEF Run
<1>5. CASE YieldDocument \/ YieldFailure
  BY <1>1, <1>5 DEF YieldDocument, YieldFailure, AfterYield, TypeOK, Runs
<1>6. CASE EndPage
  BY <1>1, <1>6 DEF EndPage, AfterPage, TypeOK, Runs
<1>7. CASE PutBlob
  <2>1. UNCHANGED docBatch /\ run'.at = run.at
    BY <1>7 DEF PutBlob, TypeOK, Runs
  <2>2. HandedDoc' = HandedDoc /\ HandedContent' = HandedContent
    BY <2>1 DEF HandedDoc, HandedContent
  <2> QED
    BY <1>7, <2>2, PutBegins DEF PutBlob, BlobPut, Putting
<1>8. CASE PutMeta
  <2>1. HandedDoc \in Docs /\ HandedContent \in Contents
    BY <1>8, HandedTyped DEF PutMeta, Placed
  <2>2. \A d \in Docs :
           IF d = HandedDoc
           THEN raw'[d].meta = HandedContent /\ raw'[d].blob = HandedContent /\ cut'[d] = 0
           ELSE raw'[d] = raw[d] /\ cut'[d] = cut[d]
    BY <1>8, <2>1 DEF PutMeta, TypeOK
  <2>3. run'.pc = "hand"
    BY <1>8 DEF PutMeta, TypeOK, Runs
  <2> QED
    BY <2>1, <2>2, <2>3 DEF Putting, MetaVouches, Contents, Torn
<1>9. CASE WriteDoc
  BY <1>1, <1>9 DEF WriteDoc, Handing, TypeOK, Runs
<1>10. CASE ResumeRunner
  BY <1>1, <1>10 DEF ResumeRunner, TypeOK, Runs
<1>11. CASE YieldCheckpoint
  BY <1>1, <1>11 DEF YieldCheckpoint, Halt
<1>12. CASE Abort \/ AskingFails
  BY <1>1, <1>12 DEF Abort, AskingFails, GiveUp, Halt
<1>13. CASE TearBlob
  BY <1>13, PutBegins DEF TearBlob, GiveUp, Halt, Putting
<1>14. CASE TearMeta
  <2>1. HandedDoc \in Docs /\ HandedContent \in Contents
    BY <1>14, HandedTyped DEF TearMeta, Placed
  <2>2. cut[HandedDoc] # 0 /\ raw[HandedDoc].blob # 0
    BY <1>14, <2>1 DEF TearMeta, Putting, Contents
  <2>3. \A d \in Docs :
           IF d = HandedDoc
           THEN raw'[d].meta = Torn /\ raw'[d].blob = raw[d].blob /\ cut'[d] = cut[d]
           ELSE raw'[d] = raw[d] /\ cut'[d] = cut[d]
    BY <1>14, <2>1 DEF TearMeta, TypeOK
  <2>4. run'.pc = "halt"
    BY <1>14 DEF TearMeta, GiveUp, Halt
  <2> QED
    BY <2>2, <2>3, <2>4 DEF Putting, MetaVouches, Contents, Torn
<1>15. CASE UNCHANGED connVars
  BY <1>2, <1>15 DEF connVars
<1> QED
  BY <1>3, <1>4, <1>5, <1>6, <1>7, <1>8, <1>9, <1>10, <1>11, <1>12, <1>13, <1>14, <1>15
  DEF ConnNext

\* Whatever puts were cut short, and whichever runner hands whichever content on,
\* the store claims without holding it only an old content, and only while a put
\* that was to replace it has not come to its end (raw_store/local.py: put, exists).
THEOREM StoreClaimsWhatItHolds == ConnSpec => []StoreIsTruthful
<1>1. TruthInv => StoreIsTruthful
  BY DEF TruthInv, TypeOK, MetaVouches, StoreIsTruthful, Exists, ExistsRaises, Contents
<1> QED
  BY <1>1, TruthInit, TruthStep, PTL DEF ConnSpec
=============================================================================
