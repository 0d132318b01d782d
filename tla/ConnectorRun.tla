---------------------------- MODULE ConnectorRun ----------------------------
(***************************************************************************)
(* A consumer that drives a checkpointed connector through ConnectorRunner *)
(* (connectors _base/runner.py): it is handed batches of documents, single *)
(* failures and, at the end of a run, a checkpoint, which it persists.  Raw*)
(* content goes into a local RawStore (raw_store/local.py) on the way.     *)
(* Documents are numbered in the order of the source, a checkpoint is the  *)
(* number of documents behind it, contents are numbered by edits.          *)
(***************************************************************************)
EXTENDS Integers, Sequences, FiniteSets, FiniteSetsExt, SequencesExt

CONSTANTS
    DocCount,       \* documents in the source
    PageSize,       \* documents of one load_from_checkpoint
    BatchSize,
    MaxEdits,
    MaxLosses       \* bounds the failures handed on and the runs that end early

ASSUME ConnectorAssumption ==
    /\ DocCount \in Nat \ {0} /\ PageSize \in Nat \ {0} /\ BatchSize \in Nat \ {0}
    /\ MaxEdits \in Nat /\ MaxLosses \in Nat

Docs == 1 .. DocCount

VARIABLES
    content,    \* content[d]: the edit d is at
    keeps,      \* the consumer keeps its runner after a failed run
    run,        \* pc, the generator's position, documents handled of a batch
    docBatch,   \* the runner's doc_batch: documents with the content read
    checkpoint, \* persisted
    written,    \* written[d]: the content the target has, 0 if none
    reported,   \* documents handed on as failures
    raw,        \* raw[d]: the content of the blob and of meta.json, 0 if none
    cut,        \* for the properties: the content of d whose put has begun and
                \* has not come to its end, 0 if none
    asOf,       \* contents when the run began
    losses

connVars == <<content, keeps, run, docBatch, checkpoint, written, reported,
              raw, cut, asOf, losses>>

\* A file that was opened for writing and has not been written to its end.
Torn == -1

Halt == [pc |-> "halt", pos |-> 0, at |-> 0, end |-> 0]

ConnInit ==
    /\ content = [d \in Docs |-> 1]
    /\ keeps \in BOOLEAN
    /\ run = Halt /\ docBatch = <<>> /\ checkpoint = 0
    /\ written = [d \in Docs |-> 0] /\ reported = {}
    /\ raw = [d \in Docs |-> [blob |-> 0, meta |-> 0]] /\ cut = [d \in Docs |-> 0]
    /\ asOf = content /\ losses = 0

EditDoc(d) ==
    /\ \A e \in Docs : content[e] = 1 \/ e = d
    /\ content[d] <= MaxEdits
    /\ content' = [content EXCEPT ![d] = @ + 1]
    /\ UNCHANGED <<keeps, run, docBatch, checkpoint, written, reported, raw, cut, asOf, losses>>

-----------------------------------------------------------------------------
Run ==
    /\ run.pc = "halt" /\ checkpoint < DocCount
    /\ run' = [pc |-> "load", pos |-> checkpoint, at |-> 0,
               end |-> Min({checkpoint + PageSize, DocCount})]
    /\ asOf' = content
    /\ UNCHANGED <<content, keeps, docBatch, checkpoint, written, reported, raw, cut, losses>>

AfterYield(batch) == IF Len(batch) >= BatchSize THEN "hand" ELSE "load"

\* The connector yields a document.
YieldDocument ==
    /\ run.pc = "load" /\ run.pos < run.end
    /\ docBatch' = Append(docBatch, <<run.pos + 1, content[run.pos + 1]>>)
    /\ run' = [run EXCEPT !.pos = @ + 1, !.pc = AfterYield(docBatch')]
    /\ UNCHANGED <<content, keeps, checkpoint, written, reported, raw, cut, asOf, losses>>

\* It yields a failure, which is handed on before the batch is.
YieldFailure ==
    /\ run.pc = "load" /\ run.pos < run.end
    /\ losses < MaxLosses
    /\ losses' = losses + 1
    /\ reported' = reported \cup {run.pos + 1}
    /\ run' = [run EXCEPT !.pos = @ + 1, !.pc = AfterYield(docBatch)]
    /\ UNCHANGED <<content, keeps, docBatch, checkpoint, written, raw, cut, asOf>>

\* Faulty variant of AfterPage: what is left in the batch waits for the next run.
AfterPageDirectly(batch) == "checkpoint"

\* The generator has returned its checkpoint: the rest of the batch first.
AfterPage(batch) == IF batch = <<>> THEN "checkpoint" ELSE "hand"
EndPage ==
    /\ run.pc = "load" /\ run.pos = run.end
    /\ run' = [run EXCEPT !.pc = AfterPage(docBatch)]
    /\ UNCHANGED <<content, keeps, docBatch, checkpoint, written, reported, raw, cut, asOf, losses>>

-----------------------------------------------------------------------------
\* exists(doc_id, fingerprint), which raises on half a meta.json.
Exists(d, v) == raw[d].blob # 0 /\ raw[d].meta = v
ExistsRaises(d) == raw[d].blob # 0 /\ raw[d].meta = Torn

Handing == run.pc = "hand" /\ run.at < Len(docBatch)
HandedDoc == docBatch[run.at + 1][1]
HandedContent == docBatch[run.at + 1][2]
Missing == ~ExistsRaises(HandedDoc) /\ ~Exists(HandedDoc, HandedContent)

\* The run ends early; what becomes of the runner is the consumer's choice.
GiveUp ==
    /\ run' = Halt
    /\ docBatch' = IF keeps THEN docBatch ELSE <<>>
    /\ UNCHANGED <<content, keeps, checkpoint, written, reported, asOf>>
Lose == losses < MaxLosses /\ losses' = losses + 1

\* Faulty variant of BlobPut: meta.json is written first.
MetaPutFirst(d, v) == [raw EXCEPT ![d].meta = v]

\* put writes the blob, then meta.json, both in place.
BlobPut(d, v) == [raw EXCEPT ![d].blob = v]
PutBlob ==
    /\ Handing /\ Missing
    /\ raw' = BlobPut(HandedDoc, HandedContent)
    /\ cut' = [cut EXCEPT ![HandedDoc] = HandedContent]
    /\ run' = [run EXCEPT !.pc = "meta"]
    /\ UNCHANGED <<content, keeps, docBatch, checkpoint, written, reported, asOf, losses>>

PutMeta ==
    /\ run.pc = "meta"
    /\ raw' = [raw EXCEPT ![HandedDoc] = [blob |-> HandedContent, meta |-> HandedContent]]
    /\ cut' = [cut EXCEPT ![HandedDoc] = 0]
    /\ run' = [run EXCEPT !.pc = "hand"]
    /\ UNCHANGED <<content, keeps, docBatch, checkpoint, written, reported, asOf, losses>>

\* The process goes, or the disk is full, in the middle of one of the writes.
TearBlob ==
    /\ Handing /\ Missing
    /\ raw' = [raw EXCEPT ![HandedDoc].blob = Torn]
    /\ cut' = [cut EXCEPT ![HandedDoc] = HandedContent]
    /\ Lose /\ GiveUp
TearMeta ==
    /\ run.pc = "meta"
    /\ raw' = [raw EXCEPT ![HandedDoc].meta = Torn]
    /\ Lose /\ GiveUp /\ UNCHANGED cut

\* The consumer writes a document whose raw content is stored.
WriteDoc ==
    /\ Handing /\ Exists(HandedDoc, HandedContent)
    /\ written' = [written EXCEPT ![HandedDoc] = HandedContent]
    /\ run' = [run EXCEPT !.at = @ + 1]
    /\ UNCHANGED <<content, keeps, docBatch, checkpoint, reported, raw, cut, asOf, losses>>

\* Its question to the store raises.
AskingFails ==
    /\ Handing /\ ExistsRaises(HandedDoc)
    /\ Lose /\ GiveUp /\ UNCHANGED <<raw, cut>>

\* It asks for more: only now the runner forgets the batch.
ResumeRunner ==
    /\ run.pc = "hand" /\ run.at = Len(docBatch)
    /\ docBatch' = <<>>
    /\ run' = [run EXCEPT !.pc = "load", !.at = 0]
    /\ UNCHANGED <<content, keeps, checkpoint, written, reported, raw, cut, asOf, losses>>

YieldCheckpoint ==
    /\ run.pc = "checkpoint"
    /\ checkpoint' = run.end
    /\ run' = Halt
    /\ UNCHANGED <<content, keeps, docBatch, written, reported, raw, cut, asOf, losses>>

\* The connector raises, or the consumer gives up, or its process goes.
Abort ==
    /\ run.pc # "halt"
    /\ Lose /\ GiveUp /\ UNCHANGED <<raw, cut>>

ConnNext ==
    \/ \E d \in Docs : EditDoc(d)
    \/ Run \/ YieldDocument \/ YieldFailure \/ EndPage
    \/ PutBlob \/ PutMeta \/ WriteDoc \/ ResumeRunner \/ YieldCheckpoint
    \/ Abort \/ TearBlob \/ TearMeta \/ AskingFails

ConnSpec == ConnInit /\ [][ConnNext]_connVars

-----------------------------------------------------------------------------
\* A checkpoint is never handed on ahead of its documents: each document behind
\* it was reported as failed or is in the target as new as when the run began,
\* whatever an earlier run left in the runner's doc_batch.
CheckpointIsBacked ==
    /\ \A d \in 1 .. checkpoint : d \in reported \/ written[d] # 0
    /\ run.pc = "checkpoint" =>
          \A d \in checkpoint + 1 .. run.end : d \in reported \/ written[d] >= asOf[d]

\* Whatever puts were cut short, by whichever runners and for whichever content:
\* a fingerprint the store claims without holding its content is an old one,
\* which the put that was cut short was replacing, never that of the content
\* being put; and the store fails to answer only after such a put.
StoreIsTruthful ==
    \A d \in Docs :
        /\ \A v \in 1 .. content[d] :
              Exists(d, v) /\ raw[d].blob # v => cut[d] \notin {0, v}
        /\ ExistsRaises(d) => cut[d] # 0

\* What raw_store/base.py says of exists: it is true only when the stored artifact
\* matches the fingerprint.  A crash between the two writes, or in the first,
\* refutes it.
StoredMatches == \A d \in Docs : \A v \in 1 .. content[d] : Exists(d, v) => raw[d].blob = v
=============================================================================
