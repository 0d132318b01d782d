------------------------- MODULE SharedTargetProofs -------------------------
(***************************************************************************)
(* Proofs about SharedTarget, for any cells, documents, contents and tags, *)
(* on each engine, with any number of runs, failures and deadlocks.        *)
(***************************************************************************)
EXTENDS SharedTarget, FiniteSetTheorems, TLAPS

-----------------------------------------------------------------------------
(* Typing: what a run may hold at each point of its program.               *)

Runs == [pc : {"idle", "lock", "dispatch", "drop", "alter", "drop_more", "make",
               "make_more", "ready", "record", "write", "commit", "delete",
               "unrecord"},
         todo : SUBSET Docs, doc : Docs \cup {0}, ver : Contents \cup {0},
         ids : SUBSET Seqs, dropped : SUBSET {"chunks", "documents"}]

Creating == {"dispatch", "drop", "alter", "drop_more", "make", "make_more"}
AtDoc == {"record", "write", "commit", "delete", "unrecord"}

\* What a run of c may look like on an engine, the chunks table being there
\* or not.
Fits(c, run, eng, made) ==
    /\ run.todo \subseteq DocsOf[c]
    /\ run.pc \in AtDoc => run.doc \in DocsOf[c]
    /\ run.pc \in {"record", "write", "commit"} => run.ver \in Contents
    /\ run.pc \in {"delete", "unrecord"} => run.doc \in PrunesOf[c]
    /\ run.pc \in {"drop", "drop_more"} \/ run.dropped # {} => ModeOf[c] = "overwrite"
    /\ run.dropped # {} => eng = "postgres" /\ run.pc \in {"drop_more", "make"}
    /\ run.pc = "alter" => ModeOf[c] # "overwrite"
    /\ run.pc \in {"record", "commit", "unrecord", "alter"} => eng = "postgres"
    /\ run.pc = "commit" => made

Fitting == \A c \in Cells : Fits(c, cell[c], engine, table.made)

TableShape ==
    /\ engine # "clickhouse" => \A r \in rows : ~r.doomed
    /\ ~table.made => rows = {}

TypeInv == TypeOK /\ Fitting /\ TableShape

\* One cell changes; the others still fit, if no table of theirs went away.
LEMMA CellStep ==
    ASSUME TypeInv, NEW c \in Cells, NEW run \in Runs,
           engine' = engine, engine = "postgres" /\ table.made => table'.made,
           Fits(c, run, engine, table'.made),
           cell' = [cell EXCEPT ![c] = run]
    PROVE  cell' \in [Cells -> Runs] /\ Fitting'
<1>1. cell' \in [Cells -> Runs]
  BY DEF TypeInv, TypeOK, Runs
<1>2. cell'[c] = run /\ \A k \in Cells \ {c} : cell'[k] = cell[k]
  BY DEF TypeInv, TypeOK
<1>3. \A k \in Cells \ {c} : Fits(k, cell'[k], engine, table'.made)
  BY <1>2 DEF TypeInv, Fitting, Fits
<1> QED
  BY <1>1, <1>2, <1>3 DEF Fitting

LEMMA NewRowsTyped ==
    ASSUME TypeInv, NEW c \in Cells, cell[c].pc \in {"write", "commit"}
    PROVE  /\ cell[c].doc \in DocsOf[c] /\ cell[c].doc \in Docs
           /\ cell[c].ver \in Contents /\ Size[cell[c].ver] \in Nat \ {0}
           /\ NewRows(c) \subseteq Rows
           /\ \A r \in NewRows(c) : ~r.doomed
<1>1. /\ cell[c].doc \in DocsOf[c] /\ cell[c].doc \in Docs
      /\ cell[c].ver \in Contents /\ Size[cell[c].ver] \in Nat \ {0}
  BY CellsAssumption, ContentsAssumption DEF TypeInv, Fitting, Fits, AtDoc
<1>2. TagOf[c] \in Tags \cup {NoTag} /\ DimOf[c] \in Dims
  BY CellsAssumption DEF Dims
<1>3. 0 .. Size[cell[c].ver] - 1 \subseteq Seqs
  BY <1>1 DEF Seqs
<1>4. \A d, s : OwnerOf(c, d, s) \in Tags \cup {NoTag}
  <2> TAKE d, s
  <2> DEFINE old == {r \in rows : r.doc = d /\ r.seq = s}
  <2>1. old # {} => (CHOOSE r \in old : TRUE) \in old
    OBVIOUS
  <2>2. \A r \in old : r.src \in Tags \cup {NoTag}
    BY DEF TypeInv, TypeOK, Rows
  <2>3. OwnerOf(c, d, s) = IF old = {} THEN TagOf[c] ELSE (CHOOSE r \in old : TRUE).src
    BY DEF OwnerOf
  <2> HIDE DEF old
  <2> QED
    BY <1>2, <2>1, <2>2, <2>3
<1>5. ASSUME NEW s \in 0 .. Size[cell[c].ver] - 1
      PROVE  [doc |-> cell[c].doc, seq |-> s, ver |-> cell[c].ver, dim |-> DimOf[c],
              src |-> OwnerOf(c, cell[c].doc, s), doomed |-> FALSE] \in Rows
  BY <1>1, <1>2, <1>3, <1>4 DEF Rows
<1> QED
  BY <1>1, <1>5 DEF NewRows

LEMMA TypeInit == Init => TypeInv
  BY CellsAssumption
  DEF Init, TypeInv, TypeOK, Fitting, Fits, TableShape, Idle, AtDoc, Dims, Contents

\* A step that moves one cell and leaves the tables alone.
LEMMA QuietStep ==
    ASSUME TypeInv, NEW c \in Cells, NEW run \in Runs,
           UNCHANGED <<engine, data>>, lock' \in Cells \cup {NoCell},
           Fits(c, run, engine, table.made),
           cell' = [cell EXCEPT ![c] = run]
    PROVE  TypeInv'
<1>1. cell' \in [Cells -> Runs] /\ Fitting'
  BY CellStep DEF data
<1>2. TypeOK'
  BY <1>1 DEF TypeInv, TypeOK, Runs, data
<1>3. TableShape'
  BY DEF TypeInv, TableShape, data
<1> QED
  BY <1>1, <1>2, <1>3 DEF TypeInv

\* What is known of a cell before it moves.
LEMMA CellTyped ==
    ASSUME TypeInv, NEW c \in Cells
    PROVE  cell[c] \in Runs /\ Fits(c, cell[c], engine, table.made)
           /\ lock \in Cells \cup {NoCell} /\ Released(c) \in Cells \cup {NoCell}
  BY DEF TypeInv, TypeOK, Runs, Fitting, Released

LEMMA StopTyped ==
    ASSUME TypeInv, NEW c \in Cells, Stop(c), UNCHANGED <<engine, data>>
    PROVE  TypeInv'
<1>1. Idle \in Runs /\ Fits(c, Idle, engine, table.made)
  BY DEF Idle, Runs, Fits, AtDoc
<1> QED
  BY <1>1, CellTyped, QuietStep DEF Stop

\* Moving on leaves the rest of a run as it was.
LEMMA GotoTyped ==
    ASSUME TypeInv, NEW c \in Cells, UNCHANGED <<engine, data>>,
           lock' \in Cells \cup {NoCell},
           NEW pc, Goto(c, pc), [cell[c] EXCEPT !.pc = pc] \in Runs,
           Fits(c, [cell[c] EXCEPT !.pc = pc], engine, table.made)
    PROVE  TypeInv'
  BY QuietStep DEF Goto

LEMMA CreateQuietTyped ==
    ASSUME TypeInv, NEW c \in Cells,
           \/ Start(c) \/ Lock(c) \/ LockTimeout(c) \/ Dispatch(c) \/ Refuse(c)
           \/ PgChunks(c) \/ PgDropRecords(c)
    PROVE  TypeInv'
<1>0. /\ cell[c] \in Runs /\ Fits(c, cell[c], engine, table.made)
      /\ lock \in Cells \cup {NoCell} /\ Released(c) \in Cells \cup {NoCell}
  BY CellTyped
<1>1. CASE Start(c)
  <2> DEFINE run == [Idle EXCEPT !.pc = "lock", !.todo = DocsOf[c]]
  <2>1. run \in Runs /\ Fits(c, run, engine, table.made)
    BY CellsAssumption DEF Idle, Runs, Fits, AtDoc
  <2>2. cell' = [cell EXCEPT ![c] = run] /\ UNCHANGED <<engine, data, lock>>
    BY <1>1 DEF Start
  <2> HIDE DEF run
  <2> QED
    BY <1>0, <2>1, <2>2, QuietStep
<1>2. CASE Lock(c)
  <2>1. /\ cell[c].pc = "lock" /\ Goto(c, "dispatch") /\ UNCHANGED <<engine, data>>
        /\ lock' \in Cells \cup {NoCell}
    BY <1>0, <1>2 DEF Lock
  <2>2. /\ [cell[c] EXCEPT !.pc = "dispatch"] \in Runs
        /\ Fits(c, [cell[c] EXCEPT !.pc = "dispatch"], engine, table.made)
    BY <1>0, <2>1 DEF Runs, Fits, AtDoc
  <2> QED
    BY <2>1, <2>2, GotoTyped
<1>3. CASE Dispatch(c)
  <2>1. PICK pc \in {"drop", "make", "alter", "ready"} :
          /\ cell[c].pc = "dispatch" /\ Goto(c, pc)
          /\ pc = "drop" => ModeOf[c] = "overwrite"
          /\ pc = "alter" => engine = "postgres" /\ ModeOf[c] # "overwrite"
          /\ UNCHANGED <<engine, data>> /\ lock' \in Cells \cup {NoCell}
    BY <1>0, <1>3 DEF Dispatch, Transactional
  <2>2. /\ [cell[c] EXCEPT !.pc = pc] \in Runs
        /\ Fits(c, [cell[c] EXCEPT !.pc = pc], engine, table.made)
    BY <1>0, <2>1 DEF Runs, Fits, AtDoc
  <2> QED
    BY <2>1, <2>2, GotoTyped
<1>4. CASE PgChunks(c)
  <2> DEFINE run == [cell[c] EXCEPT
                !.dropped = IF cell[c].pc = "drop" /\ table.made THEN {"chunks"} ELSE {},
                !.pc = IF cell[c].pc = "drop" THEN "drop_more" ELSE "make"]
  <2>1. run \in Runs /\ Fits(c, run, engine, table.made)
    BY <1>0, <1>4 DEF PgChunks, Transactional, Runs, Fits, AtDoc
  <2>2. cell' = [cell EXCEPT ![c] = run] /\ UNCHANGED <<engine, data, lock>>
    BY <1>4 DEF PgChunks, TypeInv, TypeOK
  <2> HIDE DEF run
  <2> QED
    BY <1>0, <2>1, <2>2, QuietStep
<1>5. CASE PgDropRecords(c)
  <2> DEFINE run == [cell[c] EXCEPT !.pc = "make",
                !.dropped = cell[c].dropped \cup
                    (IF c \in Recorders /\ records.made THEN {"documents"} ELSE {})]
  <2>1. run \in Runs /\ Fits(c, run, engine, table.made)
    BY <1>0, <1>5 DEF PgDropRecords, Transactional, Runs, Fits, AtDoc
  <2>2. cell' = [cell EXCEPT ![c] = run] /\ UNCHANGED <<engine, data, lock>>
    BY <1>5 DEF PgDropRecords
  <2> HIDE DEF run
  <2> QED
    BY <1>0, <2>1, <2>2, QuietStep
<1>6. CASE LockTimeout(c) \/ Refuse(c)
  BY <1>6, StopTyped DEF LockTimeout, Refuse
<1> QED
  BY <1>1, <1>2, <1>3, <1>4, <1>5, <1>6

LEMMA DocumentQuietTyped ==
    ASSUME TypeInv, NEW c \in Cells,
           \/ BeginWrite(c) \/ PgRecord(c) \/ PgRows(c) \/ WriteRejected(c)
           \/ BeginDelete(c) \/ PgDelete(c) \/ Finish(c) \/ Fail(c) \/ Victim(c)
    PROVE  TypeInv'
<1>0. /\ cell[c] \in Runs /\ Fits(c, cell[c], engine, table.made)
      /\ lock \in Cells \cup {NoCell} /\ Released(c) \in Cells \cup {NoCell}
  BY CellTyped
<1>1. CASE BeginWrite(c)
  <2>1. PICK d \in cell[c].todo, v \in Contents :
          cell' = [cell EXCEPT ![c].todo = @ \ {d}, ![c].doc = d, ![c].ver = v,
                      ![c].pc = IF /\ engine = Transactional
                                   /\ c \in Recorders \ Pipelines
                                THEN "record" ELSE "write"]
    BY <1>1 DEF BeginWrite
  <2> DEFINE run == [cell[c] EXCEPT !.todo = cell[c].todo \ {d}, !.doc = d, !.ver = v,
                      !.pc = IF /\ engine = Transactional
                                /\ c \in Recorders \ Pipelines
                             THEN "record" ELSE "write"]
  <2>2. run \in Runs /\ Fits(c, run, engine, table.made)
    BY <1>0, <1>1 DEF BeginWrite, Runs, Fits, AtDoc, Transactional
  <2>3. cell' = [cell EXCEPT ![c] = run]
    BY <2>1
  <2>4. UNCHANGED <<engine, data, lock>>
    BY <1>1 DEF BeginWrite
  <2> HIDE DEF run
  <2> QED
    BY <1>0, <2>2, <2>3, <2>4, QuietStep
<1>2. CASE PgRecord(c)
  <2>1. cell[c].pc = "record" /\ Goto(c, "write") /\ UNCHANGED <<engine, data, lock>>
    BY <1>2 DEF PgRecord
  <2>2. /\ [cell[c] EXCEPT !.pc = "write"] \in Runs
        /\ Fits(c, [cell[c] EXCEPT !.pc = "write"], engine, table.made)
    BY <1>0, <2>1 DEF Runs, Fits, AtDoc
  <2> QED
    BY <1>0, <2>1, <2>2, GotoTyped
<1>3. CASE PgRows(c)
  <2>1. /\ cell[c].pc = "write" /\ Goto(c, "commit") /\ UNCHANGED <<engine, data, lock>>
        /\ engine = "postgres" /\ table.made
    BY <1>3 DEF PgRows, Insertable, Transactional
  <2>2. /\ [cell[c] EXCEPT !.pc = "commit"] \in Runs
        /\ Fits(c, [cell[c] EXCEPT !.pc = "commit"], engine, table.made)
    BY <1>0, <2>1 DEF Runs, Fits, AtDoc
  <2> QED
    BY <1>0, <2>1, <2>2, GotoTyped
<1>4. CASE BeginDelete(c)
  <2>1. PICK d \in cell[c].todo \cap PrunesOf[c] :
          cell' = [cell EXCEPT ![c].todo = @ \ {d}, ![c].doc = d, ![c].pc = "delete",
                      ![c].ids = {r.seq : r \in Owned(c, d)}]
    BY <1>4 DEF BeginDelete
  <2> DEFINE seqs == {r.seq : r \in Owned(c, d)}
             run == [cell[c] EXCEPT !.todo = cell[c].todo \ {d}, !.doc = d,
                      !.pc = "delete", !.ids = seqs]
  <2>2. seqs \subseteq Seqs
    BY DEF Owned, TypeInv, TypeOK, Rows
  <2>3. cell' = [cell EXCEPT ![c] = run]
    BY <2>1
  <2>4. UNCHANGED <<engine, data, lock>> /\ cell[c].pc = "ready"
    BY <1>4 DEF BeginDelete
  <2> HIDE DEF seqs
  <2>5. run \in Runs /\ Fits(c, run, engine, table.made)
    BY <1>0, <2>2, <2>4 DEF Runs, Fits, AtDoc
  <2> HIDE DEF run
  <2> QED
    BY <1>0, <2>3, <2>4, <2>5, QuietStep
<1>5. CASE PgDelete(c)
  <2>1. /\ cell[c].pc = "delete" /\ Goto(c, "unrecord") /\ UNCHANGED <<engine, data, lock>>
        /\ engine = "postgres"
    BY <1>5 DEF PgDelete, Transactional
  <2>2. /\ [cell[c] EXCEPT !.pc = "unrecord"] \in Runs
        /\ Fits(c, [cell[c] EXCEPT !.pc = "unrecord"], engine, table.made)
    BY <1>0, <2>1 DEF Runs, Fits, AtDoc
  <2> QED
    BY <1>0, <2>1, <2>2, GotoTyped
<1>6. CASE WriteRejected(c) \/ Finish(c) \/ Fail(c) \/ Victim(c)
  BY <1>6, StopTyped DEF WriteRejected, Finish, Fail, Victim
<1> QED
  BY <1>1, <1>2, <1>3, <1>4, <1>5, <1>6

LEMMA CreateTyped ==
    ASSUME TypeInv, NEW c \in Cells,
           PgMake(c) \/ Drop(c) \/ DropVectors(c) \/ Make(c) \/ MakeVectors(c)
    PROVE  TypeInv'
<1>0. /\ cell[c] \in Runs /\ Fits(c, cell[c], engine, table.made)
      /\ lock \in Cells \cup {NoCell} /\ Released(c) \in Cells \cup {NoCell}
  BY CellTyped
<1>1. DimOf[c] \in Dims /\ 0 \in Dims
  BY DEF Dims
<1>2. CASE PgMake(c)
  <2> DEFINE run == [cell[c] EXCEPT !.pc = "ready", !.dropped = {}]
  <2>1. run \in Runs /\ Fits(c, run, engine, table'.made)
    BY <1>0, <1>2 DEF PgMake, Runs, Fits, AtDoc
  <2>2. cell' = [cell EXCEPT ![c] = run] /\ engine' = engine /\ table'.made
    BY <1>2 DEF PgMake
  <2> HIDE DEF run
  <2>3. cell' \in [Cells -> Runs] /\ Fitting'
    BY <2>1, <2>2, CellStep
  <2>4. TypeOK'
    BY <1>0, <1>1, <1>2, <2>3 DEF PgMake, TypeInv, TypeOK, Runs
  <2>5. TableShape'
    BY <1>2, <2>2 DEF PgMake, TypeInv, TableShape
  <2> QED
    BY <2>3, <2>4, <2>5 DEF TypeInv
<1>3. CASE Drop(c)
  <2> DEFINE pc == IF engine = "sqlite" /\ table.made THEN "drop_more" ELSE "make"
             run == [cell[c] EXCEPT !.pc = pc]
  <2>1. run \in Runs /\ Fits(c, run, engine, table'.made)
    BY <1>0, <1>3 DEF Drop, Runs, Fits, AtDoc
  <2>2. cell' = [cell EXCEPT ![c] = run] /\ engine' = engine /\ engine # "postgres"
    BY <1>3 DEF Drop, Goto, Transactional
  <2> HIDE DEF run
  <2>3. cell' \in [Cells -> Runs] /\ Fitting'
    BY <2>1, <2>2, CellStep
  <2>4. TypeOK'
    BY <1>0, <1>1, <1>3, <2>3 DEF Drop, TypeInv, TypeOK, Runs
  <2>5. TableShape'
    BY <1>3, <2>2 DEF Drop, TypeInv, TableShape
  <2> QED
    BY <2>3, <2>4, <2>5 DEF TypeInv
<1>4. CASE DropVectors(c)
  <2> DEFINE run == [cell[c] EXCEPT !.pc = "make"]
  <2>1. run \in Runs /\ Fits(c, run, engine, table'.made)
    BY <1>0, <1>4 DEF DropVectors, Runs, Fits, AtDoc
  <2>2. cell' = [cell EXCEPT ![c] = run] /\ engine' = engine /\ table' = table
    BY <1>4 DEF DropVectors, Goto
  <2> HIDE DEF run
  <2>3. cell' \in [Cells -> Runs] /\ Fitting'
    BY <2>1, <2>2, CellStep
  <2>4. TypeOK'
    BY <1>0, <1>1, <1>4, <2>3 DEF DropVectors, TypeInv, TypeOK, Runs
  <2>5. TableShape'
    BY <1>4, <2>2 DEF DropVectors, TypeInv, TableShape
  <2> QED
    BY <2>3, <2>4, <2>5 DEF TypeInv
<1>5. CASE Make(c)
  <2> DEFINE pc == IF engine = "sqlite" THEN "make_more" ELSE "ready"
             run == [cell[c] EXCEPT !.pc = pc]
  <2>0. pc \in {"make_more", "ready"} /\ cell[c].pc = "make" /\ engine # "postgres"
    BY <1>5 DEF Make, Transactional
  <2> HIDE DEF pc
  <2>1. run \in Runs /\ Fits(c, run, engine, table'.made)
    BY <1>0, <2>0 DEF Runs, Fits, AtDoc
  <2>2. cell' = [cell EXCEPT ![c] = run] /\ engine' = engine /\ table'.made
    BY <1>5 DEF Make, Goto, pc
  <2> HIDE DEF run
  <2>3. cell' \in [Cells -> Runs] /\ Fitting'
    BY <2>1, <2>2, CellStep
  <2>4. TypeOK'
    BY <1>0, <1>1, <1>5, <2>3 DEF Make, TypeInv, TypeOK, Runs
  <2>5. TableShape'
    BY <1>5, <2>2 DEF Make, TypeInv, TableShape
  <2> QED
    BY <2>3, <2>4, <2>5 DEF TypeInv
<1>6. CASE MakeVectors(c)
  <2> DEFINE run == [cell[c] EXCEPT !.pc = "ready"]
  <2>1. run \in Runs /\ Fits(c, run, engine, table'.made)
    BY <1>0, <1>6 DEF MakeVectors, Runs, Fits, AtDoc
  <2>2. cell' = [cell EXCEPT ![c] = run] /\ engine' = engine /\ table' = table
    BY <1>6 DEF MakeVectors, Goto
  <2> HIDE DEF run
  <2>3. cell' \in [Cells -> Runs] /\ Fitting'
    BY <2>1, <2>2, CellStep
  <2>4. TypeOK'
    BY <1>0, <1>1, <1>6, <2>3 DEF MakeVectors, TypeInv, TypeOK, Runs
  <2>5. TableShape'
    BY <1>6, <2>2 DEF MakeVectors, TypeInv, TableShape
  <2> QED
    BY <2>3, <2>4, <2>5 DEF TypeInv
<1> QED
  BY <1>2, <1>3, <1>4, <1>5, <1>6

LEMMA UpsertedTyped ==
    ASSUME TypeInv, NEW c \in Cells, cell[c].pc \in {"write", "commit"}
    PROVE  /\ Upserted(c) \subseteq Rows
           /\ engine # "clickhouse" => \A r \in Upserted(c) : ~r.doomed
<1>1. NewRows(c) \subseteq Rows /\ \A r \in NewRows(c) : ~r.doomed
  BY NewRowsTyped
<1>2. \A r \in Upserted(c) : r \in rows \/ r \in NewRows(c)
  BY DEF Upserted
<1> QED
  BY <1>1, <1>2 DEF TypeInv, TypeOK, TableShape

LEMMA UpsertedVectorsTyped ==
    ASSUME TypeInv, NEW c \in Cells, cell[c].pc \in {"write", "commit"}
    PROVE  UpsertedVectors(c) \subseteq [doc : Docs, seq : Seqs, ver : Contents]
<1>1. \A r \in NewRows(c) : [doc |-> r.doc, seq |-> r.seq, ver |-> r.ver]
                               \in [doc : Docs, seq : Seqs, ver : Contents]
  BY NewRowsTyped DEF Rows
<1>2. \A i \in UpsertedVectors(c) :
         \/ i \in vectors.ids
         \/ \E r \in NewRows(c) : i = [doc |-> r.doc, seq |-> r.seq, ver |-> r.ver]
  BY DEF UpsertedVectors
<1> QED
  BY <1>1, <1>2 DEF TypeInv, TypeOK

LEMMA RecordedTyped ==
    ASSUME TypeInv, NEW c \in Cells, cell[c].pc \in {"write", "commit"}
    PROVE  Recorded(c) \subseteq [doc : Docs, ver : Contents, n : Nat,
                                  src : Tags \cup {NoTag}]
<1> DEFINE old == {r \in records.docs : r.doc = cell[c].doc}
           src == IF old = {} THEN TagOf[c] ELSE (CHOOSE r \in old : TRUE).src
<1>1. old # {} => (CHOOSE r \in old : TRUE) \in old
  OBVIOUS
<1>2. \A r \in old : r.src \in Tags \cup {NoTag}
  BY DEF TypeInv, TypeOK
<1>3. Recorded(c) = (records.docs \ old) \cup
         {[doc |-> cell[c].doc, ver |-> cell[c].ver, n |-> Size[cell[c].ver],
           src |-> src]}
  BY DEF Recorded
<1>4. src \in Tags \cup {NoTag}
  <2> HIDE DEF old
  <2> QED
    BY <1>1, <1>2, CellsAssumption
<1> HIDE DEF src
<1>5. \A r \in Recorded(c) : \/ r \in records.docs
                             \/ r = [doc |-> cell[c].doc, ver |-> cell[c].ver,
                                     n |-> Size[cell[c].ver], src |-> src]
  BY <1>3
<1>6. cell[c].doc \in Docs /\ cell[c].ver \in Contents /\ Size[cell[c].ver] \in Nat
  BY NewRowsTyped
<1>7. records.docs \subseteq [doc : Docs, ver : Contents, n : Nat, src : Tags \cup {NoTag}]
  BY DEF TypeInv, TypeOK
<1> QED
  BY <1>4, <1>5, <1>6, <1>7

\* The end of a write: the run is ready for the next document.
LEMMA WrittenTyped ==
    ASSUME TypeInv, NEW c \in Cells, cell[c].pc \in {"write", "commit"}, Written(c),
           engine' = engine, table' = table
    PROVE  /\ cell' \in [Cells -> Runs] /\ Fitting'
           /\ last' \in [Docs -> Contents \cup {0}]
<1> DEFINE run == [cell[c] EXCEPT !.pc = "ready", !.doc = 0, !.ver = 0]
<1>0. cell[c] \in Runs /\ Fits(c, cell[c], engine, table.made)
  BY CellTyped
<1>1. run \in Runs /\ Fits(c, run, engine, table.made)
  BY <1>0 DEF Runs, Fits, AtDoc
<1>2. cell' = [cell EXCEPT ![c] = run]
  BY DEF Written
<1> HIDE DEF run
<1>3. cell' \in [Cells -> Runs] /\ Fitting'
  BY <1>1, <1>2, CellStep
<1>4. last' \in [Docs -> Contents \cup {0}]
  BY NewRowsTyped DEF Written, TypeInv, TypeOK
<1> QED
  BY <1>3, <1>4

LEMMA WriteTyped ==
    ASSUME TypeInv, NEW c \in Cells,
           PgCommit(c) \/ SqliteWrite(c) \/ MariaWrite(c) \/ ClickHouseWrite(c)
    PROVE  TypeInv'
<1>1. /\ cell[c].pc \in {"write", "commit"} /\ Written(c)
      /\ engine' = engine /\ table' = table /\ lock' = lock
      /\ cell[c].pc = "commit" => engine = "postgres" /\ table.made
      /\ cell[c].pc = "write" => table.made
  BY CellTyped DEF PgCommit, SqliteWrite, MariaWrite, ClickHouseWrite, Insertable, Fits
<1>2. /\ cell' \in [Cells -> Runs] /\ Fitting'
      /\ last' \in [Docs -> Contents \cup {0}]
  BY <1>1, WrittenTyped
<1>3. /\ rows' \subseteq Rows
      /\ engine # "clickhouse" => \A r \in rows' : ~r.doomed
  <2>1. CASE rows' = Upserted(c)
    BY <1>1, <2>1, UpsertedTyped
  <2>2. CASE ClickHouseWrite(c)
    <3>1. NewRows(c) \subseteq Rows /\ TagOf[c] \in Tags \cup {NoTag}
      BY <1>1, NewRowsTyped, CellsAssumption
    <3>2. \A r \in NewRows(c) : [r EXCEPT !.src = TagOf[c]] \in Rows
      BY <3>1 DEF Rows
    <3>3. rows \subseteq Rows
      BY DEF TypeInv, TypeOK
    <3> QED
      BY <2>2, <3>2, <3>3 DEF ClickHouseWrite
  <2> QED
    BY <2>1, <2>2 DEF PgCommit, SqliteWrite, MariaWrite
<1>4. vectors' \in [made : BOOLEAN, dim : Dims,
                   ids : SUBSET [doc : Docs, seq : Seqs, ver : Contents]]
  <2>1. CASE vectors' = vectors
    BY <2>1 DEF TypeInv, TypeOK
  <2>2. CASE vectors' = [vectors EXCEPT !.ids = UpsertedVectors(c)]
    BY <1>1, <2>2, UpsertedVectorsTyped DEF TypeInv, TypeOK
  <2> QED
    BY <2>1, <2>2 DEF PgCommit, SqliteWrite, MariaWrite, ClickHouseWrite
<1>5. records' \in [made : BOOLEAN,
                   docs : SUBSET [doc : Docs, ver : Contents, n : Nat,
                                  src : Tags \cup {NoTag}]]
  <2>1. CASE records' = records
    BY <2>1 DEF TypeInv, TypeOK
  <2>2. CASE records' = [records EXCEPT !.docs = Recorded(c)]
    BY <1>1, <2>2, RecordedTyped DEF TypeInv, TypeOK
  <2> QED
    BY <2>1, <2>2 DEF PgCommit, SqliteWrite, MariaWrite, ClickHouseWrite
<1>6. TypeOK'
  BY <1>1, <1>2, <1>3, <1>4, <1>5 DEF TypeInv, TypeOK, Runs
<1>7. TableShape'
  BY <1>1, <1>3 DEF TypeInv, TableShape
<1> QED
  BY <1>2, <1>6, <1>7 DEF TypeInv

LEMMA DeleteTyped ==
    ASSUME TypeInv, NEW c \in Cells,
           PgUnrecord(c) \/ SqliteDelete(c) \/ MariaDelete(c) \/ ClickHouseDelete(c)
    PROVE  TypeInv'
<1> DEFINE run == [cell[c] EXCEPT !.pc = "ready", !.doc = 0, !.ids = {}]
<1>1. /\ cell[c].pc \in {"delete", "unrecord"} /\ Deleted(c)
      /\ engine' = engine /\ table' = table /\ lock' = lock
      /\ \E any : last' = Withdrawn(c, any)
  BY DEF PgUnrecord, SqliteDelete, MariaDelete, ClickHouseDelete
<1>2. run \in Runs /\ Fits(c, run, engine, table'.made)
  <2>1. cell[c] \in Runs /\ Fits(c, cell[c], engine, table.made)
    BY CellTyped
  <2> QED
    BY <1>1, <2>1 DEF Runs, Fits, AtDoc
<1>3. cell' = [cell EXCEPT ![c] = run]
  BY <1>1 DEF Deleted
<1>4. cell' \in [Cells -> Runs] /\ Fitting'
  <2> HIDE DEF run
  <2> QED
    BY <1>1, <1>2, <1>3, CellStep
<1>5. last' \in [Docs -> Contents \cup {0}]
  BY <1>1 DEF Withdrawn, TypeInv, TypeOK
<1>6. /\ rows' \subseteq Rows
      /\ engine # "clickhouse" => rows' \subseteq rows
      /\ rows = {} => rows' = {}
  <2>1. CASE ClickHouseDelete(c)
    <3>1. PICK hit \in SUBSET rows :
             rows' = (rows \ hit) \cup {[r EXCEPT !.doomed = TRUE] : r \in hit}
      BY <2>1 DEF ClickHouseDelete, Owned
    <3>2. \A r \in Rows : [r EXCEPT !.doomed = TRUE] \in Rows
      BY DEF Rows
    <3>3. rows \subseteq Rows /\ engine = "clickhouse"
      BY <2>1 DEF TypeInv, TypeOK, ClickHouseDelete
    <3> QED
      BY <3>1, <3>2, <3>3
  <2>2. CASE rows' \subseteq rows
    BY <2>2 DEF TypeInv, TypeOK
  <2> QED
    BY <2>1, <2>2 DEF PgUnrecord, SqliteDelete, MariaDelete
<1>7. vectors' \in [made : BOOLEAN, dim : Dims,
                   ids : SUBSET [doc : Docs, seq : Seqs, ver : Contents]]
  <2>1. vectors' = vectors \/ \E ids \in SUBSET vectors.ids :
                                 vectors' = [vectors EXCEPT !.ids = ids]
    BY DEF PgUnrecord, SqliteDelete, MariaDelete, ClickHouseDelete
  <2> QED
    BY <2>1 DEF TypeInv, TypeOK
<1>8. records' \in [made : BOOLEAN,
                   docs : SUBSET [doc : Docs, ver : Contents, n : Nat,
                                  src : Tags \cup {NoTag}]]
  <2>1. records' = records \/ \E docs \in SUBSET records.docs :
                                 records' = [records EXCEPT !.docs = docs]
    BY DEF PgUnrecord, SqliteDelete, MariaDelete, ClickHouseDelete
  <2> QED
    BY <2>1 DEF TypeInv, TypeOK
<1>9. TypeOK'
  BY <1>1, <1>4, <1>5, <1>6, <1>7, <1>8 DEF TypeInv, TypeOK, Runs
<1>10. TableShape'
  BY <1>1, <1>6 DEF TypeInv, TableShape
<1> QED
  BY <1>4, <1>9, <1>10 DEF TypeInv

LEMMA TypeStep == TypeInv /\ [Next]_vars => TypeInv'
<1> SUFFICES ASSUME TypeInv, [Next]_vars
             PROVE  TypeInv'
  OBVIOUS
<1>1. CASE Mutate \/ UNCHANGED vars
  BY <1>1 DEF Mutate, vars, TypeInv, TypeOK, Fitting, Fits, TableShape
<1>2. ASSUME NEW c \in Cells, Start(c) \/ RunStep(c) \/ Fail(c) \/ Victim(c)
      PROVE  TypeInv'
  BY <1>2, CreateQuietTyped, DocumentQuietTyped, CreateTyped, WriteTyped, DeleteTyped
  DEF RunStep, CreateStep, WriteStep, DeleteStep
<1> QED
  BY <1>1, <1>2 DEF Next

\* Whatever the cells do, on every engine: the state is typed, no chunk refers
\* to a document or content that is not there.
THEOREM Typing == Spec => []TypeOK
<1>1. TypeInv => TypeOK
  BY DEF TypeInv
<1> QED
  BY <1>1, TypeInit, TypeStep, PTL DEF Spec

-----------------------------------------------------------------------------
(* The create lock, and runs kept apart.                                   *)

Step(c) == Start(c) \/ RunStep(c) \/ Fail(c) \/ Victim(c)

LEMMA OthersStay ==
    ASSUME TypeInv, NEW c \in Cells, Step(c)
    PROVE  engine' = engine /\ \A k \in Cells \ {c} : cell'[k] = cell[k]
<1>1. cell \in [Cells -> Runs]
  BY DEF TypeInv, TypeOK, Runs
<1>2. CASE Start(c) \/ CreateStep(c)
  BY <1>1, <1>2 DEF Start, CreateStep, Lock, LockTimeout, Dispatch, Refuse, PgChunks,
     PgDropRecords, PgMake, Drop, DropVectors, Make, MakeVectors, Goto, Stop
<1>3. CASE WriteStep(c)
  BY <1>1, <1>3 DEF WriteStep, BeginWrite, PgRecord, PgRows, PgCommit, SqliteWrite,
     MariaWrite, ClickHouseWrite, WriteRejected, Written, Goto, Stop
<1>4. CASE DeleteStep(c)
  BY <1>1, <1>4 DEF DeleteStep, BeginDelete, PgDelete, PgUnrecord, SqliteDelete,
     MariaDelete, ClickHouseDelete, Deleted, Goto
<1>5. CASE Finish(c) \/ Fail(c) \/ Victim(c)
  BY <1>1, <1>5 DEF Finish, Fail, Victim, Stop
<1> QED
  BY <1>2, <1>3, <1>4, <1>5 DEF Step, RunStep

Deletes(c) ==
    PgUnrecord(c) \/ SqliteDelete(c) \/ MariaDelete(c) \/ ClickHouseDelete(c)
Writes(c) == PgCommit(c) \/ SqliteWrite(c) \/ MariaWrite(c) \/ ClickHouseWrite(c)

\* Where each step takes a run.
LEMMA Moves ==
    ASSUME TypeInv, NEW c \in Cells, Step(c)
    PROVE  LET pc == cell'[c].pc
           IN \/ Stop(c) /\ cell'[c] = Idle
              \/ Start(c) /\ pc = "lock"
              \/ Lock(c) /\ pc = "dispatch"
              \/ Dispatch(c) /\ pc \in {"drop", "make", "alter", "ready"}
              \/ (PgChunks(c) \/ Drop(c)) /\ pc \in {"drop_more", "make"}
              \/ (PgDropRecords(c) \/ DropVectors(c)) /\ pc = "make"
              \/ Make(c) /\ pc \in {"make_more", "ready"}
              \/ (PgMake(c) \/ MakeVectors(c)) /\ pc = "ready"
              \/ BeginWrite(c) /\ pc \in {"record", "write"}
              \/ PgRecord(c) /\ pc = "write"
              \/ PgRows(c) /\ pc = "commit"
              \/ BeginDelete(c) /\ pc = "delete"
              \/ PgDelete(c) /\ pc = "unrecord"
              \/ (Writes(c) \/ Deletes(c)) /\ pc = "ready"
<1>1. cell \in [Cells -> Runs] /\ cell[c] \in Runs
  BY DEF TypeInv, TypeOK, Runs
<1>2. Stop(c) => cell'[c] = Idle
  BY <1>1 DEF Stop
<1>3. Start(c) => cell'[c].pc = "lock"
  BY <1>1 DEF Start, Idle
<1>4. \A pc : Goto(c, pc) => cell'[c].pc = pc
  BY <1>1 DEF Goto, Runs
<1>5. /\ Lock(c) => cell'[c].pc = "dispatch"
      /\ DropVectors(c) => cell'[c].pc = "make"
      /\ MakeVectors(c) => cell'[c].pc = "ready"
      /\ PgRecord(c) => cell'[c].pc = "write"
      /\ PgRows(c) => cell'[c].pc = "commit"
      /\ PgDelete(c) => cell'[c].pc = "unrecord"
  BY <1>4 DEF Lock, DropVectors, MakeVectors, PgRecord, PgRows, PgDelete
<1>6. Dispatch(c) => cell'[c].pc \in {"drop", "make", "alter", "ready"}
  BY <1>4 DEF Dispatch
<1>7. PgChunks(c) => cell'[c].pc \in {"drop_more", "make"}
  BY <1>1 DEF PgChunks, Runs
<1>8. Drop(c) => cell'[c].pc \in {"drop_more", "make"}
  BY <1>4 DEF Drop
<1>9. PgDropRecords(c) => cell'[c].pc = "make"
  BY <1>1 DEF PgDropRecords, Runs
<1>10. PgMake(c) => cell'[c].pc = "ready"
  BY <1>1 DEF PgMake, Runs
<1>11. Make(c) => cell'[c].pc \in {"make_more", "ready"}
  BY <1>4 DEF Make
<1>12. BeginWrite(c) => cell'[c].pc \in {"record", "write"}
  BY <1>1 DEF BeginWrite, Runs
<1>13. BeginDelete(c) => cell'[c].pc = "delete"
  BY <1>1 DEF BeginDelete, Runs
<1>14. Writes(c) => cell'[c].pc = "ready"
  BY <1>1 DEF Writes, PgCommit, SqliteWrite, MariaWrite, ClickHouseWrite, Written, Runs
<1>15. Deletes(c) => cell'[c].pc = "ready"
  BY <1>1 DEF Deletes, PgUnrecord, SqliteDelete, MariaDelete, ClickHouseDelete, Deleted, Runs
<1> QED
  BY <1>2, <1>3, <1>5, <1>6, <1>7, <1>8, <1>9, <1>10, <1>11, <1>12, <1>13, <1>14, <1>15
  DEF Step, RunStep, CreateStep, WriteStep, DeleteStep, Writes, Deletes, LockTimeout,
      Refuse, WriteRejected, Finish, Fail, Victim

\* Only Lock takes the create lock, and only the end of create_table or of the
\* run gives it back.
LEMMA LockEffect ==
    ASSUME TypeInv, NEW c \in Cells, Step(c)
    PROVE  \/ Lock(c)
           \/ /\ lock' \in {lock, Released(c)}
              /\ cell'[c].pc \in Creating => cell[c].pc \in Creating /\ lock' = lock
<1>1. CASE Stop(c) /\ cell'[c] = Idle
  BY <1>1 DEF Stop, Creating, Idle
<1>2. CASE cell'[c].pc \notin Creating /\ lock' \in {lock, Released(c)}
  BY <1>2
<1>3. CASE cell[c].pc \in Creating /\ lock' = lock
  BY <1>3
<1>4. CASE Dispatch(c)
  <2>1. cell[c].pc \in Creating /\ lock' \in {lock, Released(c)}
    BY <1>4 DEF Dispatch, Creating
  <2>2. lock' = lock \/ cell'[c].pc = "ready"
    BY <1>4, CellTyped DEF Dispatch, Goto, TypeInv, TypeOK
  <2> QED
    BY <1>2, <1>3, <2>1, <2>2 DEF Creating
<1>5. CASE Make(c)
  <2>1. cell[c].pc \in Creating /\ lock' \in {lock, Released(c)}
    BY <1>5 DEF Make, Creating
  <2>2. lock' = lock \/ cell'[c].pc = "ready"
    BY <1>5, CellTyped DEF Make, Goto, TypeInv, TypeOK
  <2> QED
    BY <1>2, <1>3, <2>1, <2>2 DEF Creating
<1>6. CASE PgMake(c) /\ cell'[c].pc = "ready"
  BY <1>2, <1>6 DEF PgMake, Creating
<1>7. CASE PgChunks(c) \/ Drop(c) \/ PgDropRecords(c) \/ DropVectors(c) \/ MakeVectors(c)
  BY <1>3, <1>7 DEF PgChunks, Drop, PgDropRecords, DropVectors, MakeVectors, Creating
<1>8. CASE /\ cell'[c].pc \notin Creating
           /\ \/ Start(c) \/ BeginWrite(c) \/ PgRecord(c) \/ PgRows(c) \/ BeginDelete(c)
              \/ PgDelete(c) \/ Writes(c) \/ Deletes(c)
  BY <1>2, <1>8 DEF Start, BeginWrite, PgRecord, PgRows, BeginDelete, PgDelete, Writes,
     PgCommit, SqliteWrite, MariaWrite, ClickHouseWrite, Deletes, PgUnrecord, SqliteDelete,
     MariaDelete, ClickHouseDelete
<1> QED
  BY <1>1, <1>4, <1>5, <1>6, <1>7, <1>8, Moves DEF Creating

\* Where the engine has a create lock, the cells are in create_table one by one.
OneCreates ==
    engine \in {"postgres", "mariadb"} =>
        \A c, k \in Cells : cell[c].pc \in Creating /\ cell[k].pc \in Creating => c = k

CreatorsLock ==
    engine \in {"postgres", "mariadb"} =>
        \A c \in Cells : cell[c].pc \in Creating => lock = c

LEMMA LockStep == TypeInv /\ CreatorsLock /\ [Next]_vars => CreatorsLock'
<1> SUFFICES ASSUME TypeInv, CreatorsLock, [Next]_vars
             PROVE  CreatorsLock'
  OBVIOUS
<1>1. ASSUME NEW c \in Cells, Step(c)
      PROVE  CreatorsLock'
  <2>1. engine' = engine /\ \A k \in Cells \ {c} : cell'[k] = cell[k]
    BY <1>1, OthersStay
  <2>2. CASE Lock(c)
    <3>1. CASE engine \in {"postgres", "mariadb"}
      <4>1. \A k \in Cells \ {c} : lock # k
        BY <2>2, <3>1 DEF Lock, Free, Waits
      <4>2. lock' = c
        BY <2>2, <3>1 DEF Lock
      <4>3. \A k \in Cells \ {c} : cell'[k].pc \notin Creating
        BY <2>1, <3>1, <4>1 DEF CreatorsLock
      <4> QED
        BY <4>2, <4>3 DEF CreatorsLock
    <3>2. CASE engine \notin {"postgres", "mariadb"}
      BY <2>1, <3>2 DEF CreatorsLock
    <3> QED
      BY <3>1, <3>2
  <2>3. CASE ~Lock(c)
    <3>1. /\ lock' \in {lock, Released(c)}
          /\ cell'[c].pc \in Creating => cell[c].pc \in Creating /\ lock' = lock
      BY <1>1, <2>3, LockEffect
    <3> QED
      BY <2>1, <3>1 DEF CreatorsLock, Released
  <2> QED
    BY <2>2, <2>3
<1>2. CASE Mutate \/ UNCHANGED vars
  BY <1>2 DEF Mutate, vars, CreatorsLock
<1> QED
  BY <1>1, <1>2 DEF Next, Step

\* PostgreSQL and MariaDB: of all cells, one at a time is between taking the
\* create lock and the end of create_table, however runs fail, time out or are
\* aborted (with_create_lock, pg.py).
THEOREM CreationIsExclusive == Spec => []OneCreates
<1>1. Init => TypeInv /\ CreatorsLock
  BY TypeInit DEF Init, CreatorsLock, Idle, Creating
<1>2. TypeInv /\ CreatorsLock => OneCreates
  BY DEF CreatorsLock, OneCreates
<1> QED
  BY <1>1, <1>2, TypeStep, LockStep, PTL DEF Spec

\* A run in progress was started.
LEMMA StartedOnly ==
    ASSUME TypeInv, NEW c \in Cells, Step(c), cell[c].pc = "idle", cell'[c].pc # "idle"
    PROVE  Start(c)
<1>1. ~(Stop(c) /\ cell'[c] = Idle)
  BY DEF Idle
<1>2. ~Writes(c) /\ ~Deletes(c)
  BY DEF Writes, PgCommit, SqliteWrite, MariaWrite, ClickHouseWrite, Deletes, PgUnrecord,
     SqliteDelete, MariaDelete, ClickHouseDelete
<1> QED
  BY <1>1, <1>2, Moves DEF Lock, Dispatch, PgChunks, PgDropRecords, PgMake, Drop,
     DropVectors, Make, MakeVectors, BeginWrite, PgRecord, PgRows, BeginDelete, PgDelete

\* Unless Overlap, a run of an overwriting cell is the only one.
Apart ==
    Overlap \/ \A c, k \in Cells :
        c # k /\ "overwrite" \in {ModeOf[c], ModeOf[k]} =>
            cell[c].pc = "idle" \/ cell[k].pc = "idle"

LEMMA ApartStep == TypeInv /\ Apart /\ [Next]_vars => Apart'
<1> SUFFICES ASSUME TypeInv, Apart, [Next]_vars, ~Overlap
             PROVE  Apart'
  BY DEF Apart
<1>1. ASSUME NEW c \in Cells, Step(c)
      PROVE  Apart'
  <2>1. \A k \in Cells \ {c} : cell'[k] = cell[k]
    BY <1>1, OthersStay
  <2>2. CASE Start(c)
    BY <2>1, <2>2 DEF Apart, Start
  <2>3. CASE cell[c].pc = "idle" => cell'[c].pc = "idle"
    BY <2>1, <2>3 DEF Apart
  <2> QED
    BY <1>1, <2>2, <2>3, StartedOnly
<1>2. CASE Mutate \/ UNCHANGED vars
  BY <1>2 DEF Mutate, vars, Apart
<1> QED
  BY <1>1, <1>2 DEF Next, Step

Base == TypeInv /\ CreatorsLock /\ Apart

LEMMA BaseInit == Init => Base
  BY TypeInit DEF Init, Base, CreatorsLock, Apart, Idle, Creating

LEMMA BaseStep == Base /\ [Next]_vars => Base'
  BY TypeStep, LockStep, ApartStep DEF Base

-----------------------------------------------------------------------------
(* What a step does to the chunks table and to last.                       *)

DocRows(d) == {r \in rows : r.doc = d}

Clears(c) ==
    /\ Drop(c) \/ (PgMake(c) /\ cell[c].dropped # {})
    /\ rows' = {} /\ last' = [d \in Docs |-> 0]
Upserts(c) ==
    /\ cell[c].pc \in {"write", "commit"} /\ engine # "clickhouse"
    /\ rows' = Upserted(c) /\ Written(c)

LEMMA TableEffect ==
    ASSUME TypeInv, NEW c \in Cells, Step(c)
    PROVE  \/ UNCHANGED <<rows, last>>
           \/ Clears(c)
           \/ Upserts(c) \/ ClickHouseWrite(c)
           \/ Deletes(c)
<1>1. CASE Start(c) \/ CreateStep(c)
  BY <1>1 DEF Start, CreateStep, Lock, LockTimeout, Dispatch, Refuse, PgChunks,
     PgDropRecords, PgMake, Drop, DropVectors, Make, MakeVectors, Clears, data
<1>2. CASE WriteStep(c)
  <2>1. CASE PgCommit(c) \/ SqliteWrite(c) \/ MariaWrite(c)
    <3>1. cell[c].pc = "commit" => engine = "postgres"
      BY CellTyped DEF Fits
    <3> QED
      BY <2>1, <3>1 DEF PgCommit, SqliteWrite, MariaWrite, Upserts
  <2> QED
    BY <1>2, <2>1 DEF WriteStep, BeginWrite, PgRecord, PgRows, WriteRejected, data
<1>3. CASE DeleteStep(c)
  BY <1>3 DEF DeleteStep, BeginDelete, PgDelete, Deletes, data
<1>4. CASE Finish(c) \/ Fail(c) \/ Victim(c)
  BY <1>4 DEF Finish, Fail, Victim, data
<1> QED
  BY <1>1, <1>2, <1>3, <1>4 DEF Step, RunStep

\* Other documents than the one a run is at keep their rows.
LEMMA OtherDocs ==
    ASSUME TypeInv, NEW c \in Cells,
           Upserts(c) \/ ClickHouseWrite(c) \/ Deletes(c)
    PROVE  /\ cell[c].pc \in {"write", "commit", "delete", "unrecord"}
           /\ cell[c].doc \in DocsOf[c] /\ cell[c].doc \in Docs
           /\ \A d \in Docs : d # cell[c].doc => /\ last'[d] = last[d]
                                                 /\ DocRows(d)' = DocRows(d)
<1>1. cell[c].pc \in {"write", "commit", "delete", "unrecord"}
  BY DEF Upserts, ClickHouseWrite, Deletes, PgUnrecord, SqliteDelete, MariaDelete,
     ClickHouseDelete
<1>2. cell[c].doc \in DocsOf[c] /\ cell[c].doc \in Docs
  BY <1>1, CellTyped, CellsAssumption DEF Fits, AtDoc
<1>3. last' = [last EXCEPT ![cell[c].doc] = cell[c].ver] \/ \E any : last' = Withdrawn(c, any)
  BY DEF Upserts, ClickHouseWrite, Deletes, PgUnrecord, SqliteDelete, MariaDelete,
     ClickHouseDelete, Written
<1>4. ASSUME NEW d \in Docs, d # cell[c].doc
      PROVE  last'[d] = last[d]
  BY <1>2, <1>3, <1>4 DEF Withdrawn, TypeInv, TypeOK
<1>5. ASSUME NEW r, r.doc # cell[c].doc
      PROVE  r \in rows' <=> r \in rows
  <2>1. CASE Upserts(c) \/ ClickHouseWrite(c)
    <3>1. \A q \in NewRows(c) : q.doc = cell[c].doc /\ [q EXCEPT !.src = TagOf[c]].doc = cell[c].doc
      BY DEF NewRows
    <3>2. CASE Upserts(c)
      BY <1>5, <3>1, <3>2 DEF Upserts, Upserted
    <3>3. CASE ClickHouseWrite(c)
      BY <1>5, <3>1, <3>3 DEF ClickHouseWrite
    <3> QED
      BY <2>1, <3>2, <3>3
  <2>2. CASE PgUnrecord(c) \/ SqliteDelete(c) \/ MariaDelete(c)
    BY <1>5, <2>2 DEF PgUnrecord, SqliteDelete, MariaDelete, Picked, Owned
  <2>3. CASE ClickHouseDelete(c)
    <3>1. PICK hit \in SUBSET Owned(c, cell[c].doc) :
             rows' = (rows \ hit) \cup {[q EXCEPT !.doomed = TRUE] : q \in hit}
      BY <2>3 DEF ClickHouseDelete
    <3>2. \A q \in Owned(c, cell[c].doc) : /\ q.doc = cell[c].doc
                                           /\ [q EXCEPT !.doomed = TRUE].doc = q.doc
      BY DEF Owned, TypeInv, TypeOK, Rows
    <3> QED
      BY <1>5, <3>1, <3>2
  <2> QED
    BY <2>1, <2>2, <2>3 DEF Deletes
<1>6. \A d \in Docs : d # cell[c].doc => DocRows(d)' = DocRows(d)
  BY <1>5 DEF DocRows
<1> QED
  BY <1>1, <1>2, <1>4, <1>6

-----------------------------------------------------------------------------
(* Whose rows they are.                                                    *)

\* The cells that come across a document have one source_tag.
OneTagPerDoc ==
    \A c, k \in Cells : DocsOf[c] \cap DocsOf[k] # {} => TagOf[c] = TagOf[k]

Sourced(docs) == \A c \in Cells : \A r \in docs : r.doc \in DocsOf[c] => r.src = TagOf[c]

SourcesInv == OneTagPerDoc => Sourced(rows) /\ Sourced(records.docs)

LEMMA NewRowsSourced ==
    ASSUME Base, SourcesInv, OneTagPerDoc, NEW c \in Cells,
           cell[c].pc \in {"write", "commit"}
    PROVE  \A r \in NewRows(c) : r.doc = cell[c].doc /\ r.src = TagOf[c]
<1>1. cell[c].doc \in DocsOf[c]
  BY NewRowsTyped DEF Base
<1>2. \A s : OwnerOf(c, cell[c].doc, s) = TagOf[c]
  <2> TAKE s
  <2> DEFINE old == {r \in rows : r.doc = cell[c].doc /\ r.seq = s}
  <2>1. \A r \in old : r.src = TagOf[c]
    BY <1>1 DEF SourcesInv, Sourced
  <2>2. old # {} => (CHOOSE r \in old : TRUE) \in old
    OBVIOUS
  <2>3. OwnerOf(c, cell[c].doc, s) = IF old = {} THEN TagOf[c]
                                     ELSE (CHOOSE r \in old : TRUE).src
    BY DEF OwnerOf
  <2> HIDE DEF old
  <2> QED
    BY <2>1, <2>2, <2>3
<1> QED
  BY <1>2 DEF NewRows

LEMMA SourcesStep == Base /\ SourcesInv /\ [Next]_vars => SourcesInv'
<1> SUFFICES ASSUME Base, SourcesInv, [Next]_vars, OneTagPerDoc
             PROVE  Sourced(rows)' /\ Sourced(records.docs)'
  BY DEF SourcesInv
<1>0. TypeInv /\ Sourced(rows) /\ Sourced(records.docs)
  BY DEF Base, SourcesInv
<1>1. ASSUME NEW c \in Cells, Step(c)
      PROVE  Sourced(rows)'
  <2>1. CASE UNCHANGED <<rows, last>> \/ Clears(c)
    BY <1>0, <2>1 DEF Sourced, Clears
  <2>2. CASE Upserts(c) \/ ClickHouseWrite(c)
    <3>1. cell[c].pc \in {"write", "commit"} /\ cell[c].doc \in DocsOf[c]
      BY <1>0, <2>2, NewRowsTyped DEF Upserts, ClickHouseWrite
    <3>2. \A r \in NewRows(c) : /\ r.doc = cell[c].doc /\ r.src = TagOf[c]
                                /\ [r EXCEPT !.src = TagOf[c]] = r
      <4>1. \A r \in NewRows(c) : r.doc = cell[c].doc /\ r.src = TagOf[c]
        BY <3>1, NewRowsSourced
      <4>2. NewRows(c) \subseteq Rows
        BY <1>0, <3>1, NewRowsTyped
      <4> QED
        BY <4>1, <4>2 DEF Rows
    <3>3. \A r \in rows' : r \in rows \/ (r.doc = cell[c].doc /\ r.src = TagOf[c])
      <4>1. CASE Upserts(c)
        BY <3>2, <4>1 DEF Upserts, Upserted
      <4>2. CASE ClickHouseWrite(c)
        BY <3>2, <4>2 DEF ClickHouseWrite
      <4> QED
        BY <2>2, <4>1, <4>2
    <3> QED
      BY <1>0, <3>1, <3>3 DEF Sourced, OneTagPerDoc
  <2>3. CASE Deletes(c)
    <3>1. \A r \in rows' : \E q \in rows : q.doc = r.doc /\ q.src = r.src
      <4>1. CASE ClickHouseDelete(c)
        <5>1. PICK hit \in SUBSET rows :
                 rows' = (rows \ hit) \cup {[q EXCEPT !.doomed = TRUE] : q \in hit}
          BY <4>1 DEF ClickHouseDelete, Owned
        <5>2. \A q \in rows : /\ [q EXCEPT !.doomed = TRUE].doc = q.doc
                              /\ [q EXCEPT !.doomed = TRUE].src = q.src
          BY <1>0 DEF TypeInv, TypeOK, Rows
        <5> QED
          BY <5>1, <5>2
      <4>2. CASE rows' \subseteq rows
        BY <4>2
      <4> QED
        BY <2>3, <4>1, <4>2 DEF Deletes, PgUnrecord, SqliteDelete, MariaDelete
    <3> QED
      BY <1>0, <3>1 DEF Sourced
  <2> QED
    BY <1>0, <1>1, <2>1, <2>2, <2>3, TableEffect
<1>2. ASSUME NEW c \in Cells, Step(c)
      PROVE  Sourced(records.docs)'
  <2>1. CASE PgCommit(c)
    <3> DEFINE old == {r \in records.docs : r.doc = cell[c].doc}
    <3>1. cell[c].pc = "commit" /\ cell[c].doc \in DocsOf[c]
      BY <1>0, <2>1, NewRowsTyped DEF PgCommit
    <3>2. \A r \in old : r.src = TagOf[c]
      BY <1>0, <3>1 DEF Sourced
    <3>3. old # {} => (CHOOSE r \in old : TRUE) \in old
      OBVIOUS
    <3>4. Recorded(c) = (records.docs \ old) \cup
             {[doc |-> cell[c].doc, ver |-> cell[c].ver, n |-> Size[cell[c].ver],
               src |-> IF old = {} THEN TagOf[c] ELSE (CHOOSE r \in old : TRUE).src]}
      BY DEF Recorded
    <3> HIDE DEF old
    <3>5. \A r \in Recorded(c) : r \in records.docs \/ (r.doc = cell[c].doc /\ r.src = TagOf[c])
      BY <3>2, <3>3, <3>4
    <3>6. records'.docs \in {records.docs, Recorded(c)}
      BY <1>0, <2>1 DEF PgCommit, TypeInv, TypeOK
    <3> QED
      BY <1>0, <3>1, <3>5, <3>6 DEF Sourced, OneTagPerDoc
  <2>2. CASE \E docs \in SUBSET records.docs : records'.docs = docs
    BY <1>0, <2>2 DEF Sourced
  <2>3. CASE ~PgCommit(c)
    <3>1. records' = records \/ records'.docs \subseteq records.docs
      <4>1. CASE PgUnrecord(c)
        BY <1>0, <4>1 DEF PgUnrecord, TypeInv, TypeOK
      <4>2. CASE Start(c) \/ CreateStep(c)
        <5>1. CASE PgMake(c)
          BY <5>1 DEF PgMake
        <5> QED
          BY <4>2, <5>1 DEF Start, CreateStep, Lock, LockTimeout, Dispatch, Refuse,
             PgChunks, PgDropRecords, Drop, DropVectors, Make, MakeVectors, data
      <4>3. CASE WriteStep(c)
        BY <2>3, <4>3 DEF WriteStep, BeginWrite, PgRecord, PgRows, SqliteWrite,
           MariaWrite, ClickHouseWrite, WriteRejected, data
      <4>4. CASE DeleteStep(c) /\ ~PgUnrecord(c)
        BY <4>4 DEF DeleteStep, BeginDelete, PgDelete, SqliteDelete, MariaDelete,
           ClickHouseDelete, data
      <4> QED
        BY <1>2, <4>1, <4>2, <4>3, <4>4 DEF Step, RunStep, Finish, Fail, Victim, data
    <3> QED
      BY <1>0, <2>2, <3>1 DEF Sourced
  <2> QED
    BY <2>1, <2>3
<1>3. CASE Mutate \/ UNCHANGED vars
  BY <1>0, <1>3 DEF Mutate, vars, Sourced
<1> QED
  BY <1>1, <1>2, <1>3 DEF Next, Step

-----------------------------------------------------------------------------
(* Deletions in progress.                                                  *)

\* A document that a cell may withdraw is no concern of another cell, unless
\* one of them overwrites and their runs are kept apart.
SoleDeleters ==
    \A c, k \in Cells :
        c # k /\ PrunesOf[c] \cap DocsOf[c] \cap DocsOf[k] # {} =>
            ~Overlap /\ "overwrite" \in {ModeOf[c], ModeOf[k]}

Deleting(c) == cell[c].pc \in {"delete", "unrecord"}

\* What PostgreSQL's DELETE and SQLite's SELECT saw is still all there is.
DeleteInv ==
    OneTagPerDoc /\ SoleDeleters /\ engine \in {"postgres", "sqlite"} =>
        \A c \in Cells : Deleting(c) =>
            \A r \in DocRows(cell[c].doc) : r.seq \in cell[c].ids

LEMMA DeletingEffect ==
    ASSUME TypeInv, NEW c \in Cells, Step(c), Deleting(c)'
    PROVE  BeginDelete(c) \/ PgDelete(c)
  BY Moves DEF Deleting, Idle

\* Nobody else is at the document that a run is withdrawing.
LEMMA DeletesAlone ==
    ASSUME Base, SoleDeleters, NEW c \in Cells, NEW k \in Cells, c # k, Deleting(c),
           Upserts(k) \/ ClickHouseWrite(k) \/ Deletes(k)
    PROVE  cell[k].doc # cell[c].doc
<1>1. /\ cell[k].pc \in {"write", "commit", "delete", "unrecord"}
      /\ cell[k].doc \in DocsOf[k]
  BY OtherDocs DEF Base
<1>2. cell[c].doc \in PrunesOf[c] /\ cell[c].doc \in DocsOf[c]
  BY CellTyped DEF Base, Deleting, Fits, AtDoc
<1>3. cell[k].pc # "idle" /\ cell[c].pc # "idle"
  BY <1>1 DEF Deleting
<1> QED
  BY <1>1, <1>2, <1>3 DEF SoleDeleters, Base, Apart

LEMMA DeleteInvStep ==
    Base /\ SourcesInv /\ DeleteInv /\ [Next]_vars => DeleteInv'
<1> SUFFICES ASSUME Base, SourcesInv, DeleteInv, [Next]_vars,
                    OneTagPerDoc, SoleDeleters, (engine \in {"postgres", "sqlite"})'
             PROVE  (\A c \in Cells : Deleting(c) =>
                        \A r \in DocRows(cell[c].doc) : r.seq \in cell[c].ids)'
  BY DEF DeleteInv
<1>1. CASE UNCHANGED vars
  BY <1>1 DEF vars, DeleteInv, Deleting, DocRows
<1>2. CASE Mutate
  BY <1>2 DEF Mutate, DeleteInv, Deleting, DocRows
<1>3. ASSUME NEW k \in Cells, Step(k)
      PROVE  (\A c \in Cells : Deleting(c) =>
                  \A r \in DocRows(cell[c].doc) : r.seq \in cell[c].ids)'
  <2>0. /\ engine' = engine /\ \A c \in Cells \ {k} : cell'[c] = cell[c]
        /\ TypeInv /\ engine \in {"postgres", "sqlite"}
    BY <1>3, OthersStay DEF Base
  <2>1. ASSUME NEW c \in Cells, c # k, Deleting(c)'
        PROVE  \A r \in rows' : r.doc = cell[c].doc => r.seq \in cell[c].ids
    <3>1. Deleting(c) /\ \A r \in rows : r.doc = cell[c].doc => r.seq \in cell[c].ids
      BY <2>0, <2>1 DEF Deleting, DeleteInv, DocRows
    <3>2. CASE UNCHANGED <<rows, last>> \/ Clears(k)
      BY <3>1, <3>2 DEF Clears
    <3>3. CASE Upserts(k) \/ ClickHouseWrite(k) \/ Deletes(k)
      <4>1. cell[c].doc \in Docs
        BY <2>0, <3>1, CellTyped, CellsAssumption DEF Deleting, Fits, AtDoc
      <4>2. cell[k].doc # cell[c].doc
        BY <2>1, <3>1, <3>3, DeletesAlone
      <4>3. \A d \in Docs : d # cell[k].doc => DocRows(d)' = DocRows(d)
        BY <2>0, <3>3, OtherDocs
      <4>4. DocRows(cell[c].doc)' = {r \in rows' : r.doc = cell'[c].doc}
        BY DEF DocRows
      <4>5. {r \in rows' : r.doc = cell[c].doc} = {r \in rows : r.doc = cell[c].doc}
        BY <4>1, <4>2, <4>3 DEF DocRows
      <4> QED
        BY <3>1, <4>5
    <3> QED
      BY <1>3, <2>0, <2>1, <3>2, <3>3, TableEffect
  <2>2. ASSUME Deleting(k)'
        PROVE  \A r \in rows' : r.doc = cell'[k].doc => r.seq \in cell'[k].ids
    <3>1. CASE BeginDelete(k)
      <4>1. PICK d \in cell[k].todo \cap PrunesOf[k] :
              cell' = [cell EXCEPT ![k].todo = @ \ {d}, ![k].doc = d, ![k].pc = "delete",
                          ![k].ids = {r.seq : r \in Owned(k, d)}]
        BY <3>1 DEF BeginDelete
      <4>2. cell \in [Cells -> Runs] /\ cell[k] \in Runs /\ cell[k].todo \subseteq DocsOf[k]
        BY <2>0, CellTyped DEF TypeInv, TypeOK, Runs, Fits
      <4>3. cell'[k].doc = d /\ cell'[k].ids = {r.seq : r \in Owned(k, d)}
        BY <4>1, <4>2 DEF Runs
      <4>4. \A r \in rows : r.doc = d => r \in Owned(k, d)
        BY <4>2 DEF SourcesInv, Sourced, Owned, InScope
      <4>5. rows' = rows
        BY <3>1 DEF BeginDelete, data
      <4> QED
        BY <4>3, <4>4, <4>5
    <3>2. CASE PgDelete(k)
      <4>1. cell'[k].doc = cell[k].doc /\ cell'[k].ids = cell[k].ids /\ rows' = rows
        BY <2>0, <3>2 DEF PgDelete, Goto, data, TypeInv, TypeOK
      <4>2. Deleting(k)
        BY <3>2 DEF PgDelete, Deleting
      <4> QED
        BY <2>0, <4>1, <4>2 DEF DeleteInv, DocRows
    <3> QED
      BY <1>3, <2>0, <2>2, <3>1, <3>2, DeletingEffect
  <2>3. ASSUME NEW c \in Cells, Deleting(c)'
        PROVE  \A r \in rows' : r.doc = cell'[c].doc => r.seq \in cell'[c].ids
    BY <2>0, <2>1, <2>2, <2>3
  <2> QED
    BY <2>3 DEF DocRows
<1> QED
  BY <1>1, <1>2, <1>3 DEF Next, Step

-----------------------------------------------------------------------------
(* The write that took effect last stands.                                 *)

\* What the engines need for it.  ClickHouse needs nothing: it never removes a
\* row that a write has put there since.
Undisturbed ==
    \A e \in Engines \ {"clickhouse"} :
        DeleteOrphans /\ OneTagPerDoc /\ (e # "mariadb" => SoleDeleters)

\* The rows rs are those of a write of content v.
Stands(rs, v) ==
    LET now == {<<r.seq, r.ver>> : r \in {x \in rs : ~x.doomed}}
        written == IF v = 0 THEN {} ELSE {<<s, v>> : s \in 0 .. Size[v] - 1}
    IN /\ written \subseteq now
       /\ engine # "clickhouse" => now = written

LEMMA StandsByDoc == LastWriteStands <=> \A d \in Docs : Stands(DocRows(d), last[d])
<1>1. \A d \in Docs : {x \in rows : x.doc = d /\ ~x.doomed} = {x \in DocRows(d) : ~x.doomed}
  BY DEF DocRows
<1> QED
  BY <1>1 DEF LastWriteStands, Stands

LEMMA NothingStands == Stands({}, 0)
  BY DEF Stands

\* A document written in full stands, with the rows of that write and no other.
LEMMA UpsertStands ==
    ASSUME TypeInv, DeleteOrphans, NEW c \in Cells, Upserts(c)
    PROVE  Stands({r \in rows' : r.doc = cell[c].doc}, cell[c].ver)
<1> DEFINE n == Size[cell[c].ver]
           v == cell[c].ver
           d == cell[c].doc
<1>1. n \in Nat \ {0} /\ v \in Contents /\ NewRows(c) \subseteq Rows
  BY NewRowsTyped DEF Upserts
<1>2. \A r \in rows : r.seq \in Int
  BY DEF TypeInv, TypeOK, Rows, Seqs
<1>3. {r \in rows' : r.doc = d} = NewRows(c)
  <2>1. \A r \in NewRows(c) : r.doc = d
    BY DEF NewRows
  <2>2. \A r \in rows : r.doc = d => r.seq < n \/ r.seq >= n
    BY <1>1, <1>2
  <2> QED
    BY <2>1, <2>2 DEF Upserts, Upserted
<1>4. {x \in NewRows(c) : ~x.doomed} = NewRows(c)
  BY NewRowsTyped DEF Upserts
<1>5. {<<r.seq, r.ver>> : r \in NewRows(c)} = {<<s, v>> : s \in 0 .. n - 1}
  <2>1. \A r \in NewRows(c) : r.seq \in 0 .. n - 1 /\ r.ver = v
    BY DEF NewRows
  <2>2. ASSUME NEW s \in 0 .. n - 1
        PROVE  \E r \in NewRows(c) : r.seq = s
    <3>1. [doc |-> d, seq |-> s, ver |-> v, dim |-> DimOf[c],
           src |-> OwnerOf(c, d, s), doomed |-> FALSE] \in NewRows(c)
      BY DEF NewRows
    <3> QED
      BY <3>1
  <2> HIDE DEF n, v
  <2> QED
    BY <2>1, <2>2
<1>6. v # 0
  BY <1>1, ContentsAssumption
<1> HIDE DEF n, v, d
<1>7. {<<r.seq, r.ver>> : r \in {x \in {r \in rows' : r.doc = d} : ~x.doomed}}
      = {<<s, v>> : s \in 0 .. n - 1}
  BY <1>3, <1>4, <1>5
<1> QED
  BY <1>6, <1>7 DEF Stands, n, v, d

\* ClickHouse adds the rows of the write to those that are there.
LEMMA InsertStands ==
    ASSUME TypeInv, NEW c \in Cells, ClickHouseWrite(c)
    PROVE  Stands({r \in rows' : r.doc = cell[c].doc}, cell[c].ver)
<1> DEFINE d == cell[c].doc
           v == cell[c].ver
<1>1. engine = "clickhouse" /\ cell[c].pc = "write"
  BY DEF ClickHouseWrite
<1>2. ASSUME NEW s \in 0 .. Size[v] - 1
      PROVE  \E r \in rows' : r.doc = d /\ ~r.doomed /\ r.seq = s /\ r.ver = v
  <2> DEFINE r == [doc |-> d, seq |-> s, ver |-> v, dim |-> DimOf[c],
                   src |-> OwnerOf(c, d, s), doomed |-> FALSE]
  <2>1. r \in NewRows(c)
    BY DEF NewRows
  <2>2. [r EXCEPT !.src = TagOf[c]] \in rows'
    BY <2>1 DEF ClickHouseWrite
  <2> QED
    BY <2>2
<1> HIDE DEF d, v
<1> QED
  BY <1>1, <1>2 DEF Stands, d, v

\* A deletion takes all rows of the document or none.
LEMMA DeleteStands ==
    ASSUME Base, SourcesInv, DeleteInv, LastWriteStands, Undisturbed,
           NEW c \in Cells, Deletes(c)
    PROVE  Stands({r \in rows' : r.doc = cell[c].doc}, last'[cell[c].doc])
<1> DEFINE d == cell[c].doc
<1>0. TypeInv /\ d \in DocsOf[c] /\ d \in Docs
  BY OtherDocs DEF Base
<1>1. Stands(DocRows(d), last[d])
  BY <1>0, StandsByDoc
<1>2. CASE {r \in rows' : r.doc = d} = DocRows(d) /\ last' = last
  BY <1>1, <1>2
<1>3. CASE {r \in rows' : r.doc = d} = {} /\ last'[d] = 0
  BY <1>3, NothingStands
<1>4. Withdrawn(c, TRUE)[d] = 0 /\ Withdrawn(c, FALSE) = last
  BY <1>0 DEF Withdrawn, TypeInv, TypeOK
<1>5. CASE PgUnrecord(c) \/ SqliteDelete(c) \/ MariaDelete(c)
  <2>1. engine \in Engines \ {"clickhouse"}
    BY <1>0, <1>5, CellTyped
    DEF PgUnrecord, SqliteDelete, MariaDelete, Fits, TypeInv, TypeOK
  <2>2. \A r \in DocRows(d) : InScope(c, r)
    BY <1>0, <2>1 DEF Undisturbed, SourcesInv, Sourced, DocRows, InScope
  <2>3. engine \in {"postgres", "sqlite"} => \A r \in DocRows(d) : r.seq \in cell[c].ids
    <3>1. SUFFICES ASSUME engine \in {"postgres", "sqlite"}
                   PROVE  \A r \in DocRows(d) : r.seq \in cell[c].ids
      OBVIOUS
    <3>2. OneTagPerDoc /\ SoleDeleters
      BY <2>1, <3>1 DEF Undisturbed
    <3>3. Deleting(c)
      BY <1>5 DEF Deleting, PgUnrecord, SqliteDelete, MariaDelete
    <3> QED
      BY <3>1, <3>2, <3>3 DEF DeleteInv
  <2>4. CASE PgUnrecord(c)
    <3>1. engine = "postgres"
      BY <2>4, CellTyped, <1>0 DEF PgUnrecord, Fits
    <3>2. CASE cell[c].ids = {}
      BY <1>2, <1>4, <2>4, <3>2 DEF PgUnrecord, Picked, DocRows
    <3>3. CASE cell[c].ids # {}
      <4>1. {r \in rows' : r.doc = d} = {}
        BY <2>2, <2>3, <2>4, <3>1 DEF PgUnrecord, Picked, DocRows
      <4>2. last' = Withdrawn(c, TRUE)
        BY <2>4, <3>3 DEF PgUnrecord, Withdrawn
      <4> QED
        BY <1>3, <1>4, <4>1, <4>2
    <3> QED
      BY <3>2, <3>3
  <2>5. CASE SqliteDelete(c)
    <3>1. {r \in rows' : r.doc = d} = {}
      BY <2>3, <2>5 DEF SqliteDelete, Picked, DocRows
    <3>2. CASE Picked(c) = {}
      BY <1>2, <1>4, <2>5, <3>2 DEF SqliteDelete, DocRows, Withdrawn
    <3>3. CASE Picked(c) # {}
      <4>1. last' = Withdrawn(c, TRUE)
        BY <2>5, <3>3 DEF SqliteDelete, Withdrawn
      <4> QED
        BY <1>3, <1>4, <3>1, <4>1
    <3> QED
      BY <3>2, <3>3
  <2>6. CASE MariaDelete(c)
    <3>1. {r \in rows' : r.doc = d} = {}
      BY <2>2, <2>6 DEF MariaDelete, Owned, DocRows
    <3>2. CASE Owned(c, d) = {}
      BY <1>2, <1>4, <2>6, <3>2 DEF MariaDelete, DocRows, Withdrawn
    <3>3. CASE Owned(c, d) # {}
      <4>1. last' = Withdrawn(c, TRUE)
        BY <2>6, <3>3 DEF MariaDelete, Withdrawn
      <4> QED
        BY <1>3, <1>4, <3>1, <4>1
    <3> QED
      BY <3>2, <3>3
  <2> QED
    BY <1>5, <2>4, <2>5, <2>6
<1>6. CASE ClickHouseDelete(c)
  <2> DEFINE hit == IF cell[c].ids = {} THEN {} ELSE Owned(c, d)
  <2>1. /\ rows' = (rows \ hit) \cup {[r EXCEPT !.doomed = TRUE] : r \in hit}
        /\ last' = Withdrawn(c, hit # {}) /\ engine = "clickhouse"
    BY <1>6 DEF ClickHouseDelete
  <2>2. CASE hit = {}
    <3>1. rows' = rows /\ last' = last
      BY <2>1, <2>2 DEF Withdrawn
    <3> QED
      BY <1>2, <3>1 DEF DocRows
  <2>3. CASE hit # {}
    <3>1. last' = Withdrawn(c, TRUE)
      BY <2>1, <2>3 DEF Withdrawn
    <3>2. last'[d] = 0
      BY <1>4, <3>1
    <3> HIDE DEF d, hit
    <3>3. Stands({r \in rows' : r.doc = d}, last'[d])
      BY <2>1, <3>2 DEF Stands
    <3> QED
      BY <3>3 DEF d
  <2> QED
    BY <2>2, <2>3
<1> QED
  BY <1>5, <1>6 DEF Deletes

LastInv == Base /\ SourcesInv /\ DeleteInv /\ LastWriteStands

LEMMA LastStep == ASSUME Undisturbed PROVE LastInv /\ [Next]_vars => LastInv'
<1> SUFFICES ASSUME LastInv, [Next]_vars
             PROVE  LastInv'
  OBVIOUS
<1>0. Base /\ TypeInv /\ SourcesInv /\ DeleteInv /\ LastWriteStands
  BY DEF LastInv, Base
<1>1. \A d \in Docs : Stands(DocRows(d), last[d])
  BY <1>0, StandsByDoc
<1>2. ASSUME NEW c \in Cells, Step(c)
      PROVE  LastWriteStands'
  <2>0. engine' = engine
    BY <1>0, <1>2, OthersStay
  <2>1. CASE UNCHANGED <<rows, last>>
    BY <1>0, <2>0, <2>1 DEF LastWriteStands
  <2>2. CASE Clears(c)
    BY <2>0, <2>2 DEF Clears, LastWriteStands
  <2>3. CASE Upserts(c) \/ ClickHouseWrite(c) \/ Deletes(c)
    <3>1. /\ cell[c].doc \in Docs
          /\ \A d \in Docs : d # cell[c].doc => /\ last'[d] = last[d]
                                                /\ DocRows(d)' = DocRows(d)
      BY <1>0, <2>3, OtherDocs
    <3>2. Stands({r \in rows' : r.doc = cell[c].doc}, last'[cell[c].doc])
      <4>1. CASE Upserts(c) \/ ClickHouseWrite(c)
        <5>1. last'[cell[c].doc] = cell[c].ver
          BY <1>0, <3>1, <4>1 DEF Upserts, ClickHouseWrite, Written, TypeInv, TypeOK
        <5>2. Upserts(c) => DeleteOrphans
          BY <1>0 DEF Upserts, Undisturbed, TypeInv, TypeOK
        <5> QED
          BY <1>0, <4>1, <5>1, <5>2, UpsertStands, InsertStands
      <4>2. CASE Deletes(c)
        BY <1>0, <4>2, DeleteStands
      <4> QED
        BY <2>3, <4>1, <4>2
    <3>3. \A d \in Docs : Stands({r \in rows' : r.doc = d}, last'[d])
      BY <1>1, <3>1, <3>2 DEF DocRows
    <3>4. \A d \in Docs : {x \in rows' : x.doc = d /\ ~x.doomed}
                          = {x \in {r \in rows' : r.doc = d} : ~x.doomed}
      OBVIOUS
    <3> QED
      BY <2>0, <3>3, <3>4 DEF LastWriteStands, Stands
  <2> QED
    BY <1>0, <1>2, <2>1, <2>2, <2>3, TableEffect
<1>3. UNCHANGED vars => LastWriteStands'
  BY <1>0 DEF vars, LastWriteStands
<1>4. ASSUME Mutate
      PROVE  LastWriteStands'
  <2>1. \A d \in Docs : {x \in rows' : x.doc = d /\ ~x.doomed}
                        = {x \in rows : x.doc = d /\ ~x.doomed}
    BY <1>4 DEF Mutate
  <2> QED
    BY <1>0, <1>4, <2>1 DEF Mutate, LastWriteStands
<1>5. LastWriteStands'
  BY <1>2, <1>3, <1>4 DEF Next, Step
<1> QED
  BY <1>0, <1>5, BaseStep, SourcesStep, DeleteInvStep DEF LastInv

LEMMA LastInit == Init => LastInv
<1> SUFFICES ASSUME Init
             PROVE  LastInv
  OBVIOUS
<1>1. SourcesInv
  BY DEF Init, SourcesInv, Sourced
<1>2. DeleteInv
  BY DEF Init, DeleteInv, Deleting, Idle
<1>3. LastWriteStands
  BY DEF Init, LastWriteStands
<1> QED
  BY <1>1, <1>2, <1>3, BaseInit DEF LastInv

\* However many cells write the table and however their runs interleave, fail
\* or are aborted, a document's rows are those of the write that took effect
\* last (for what is assumed of deletions, see Undisturbed).
THEOREM LastWritesStand == ASSUME Undisturbed PROVE Spec => []LastWriteStands
<1>1. LastInv => LastWriteStands
  BY DEF LastInv
<1> QED
  BY <1>1, LastInit, LastStep, PTL DEF Spec

-----------------------------------------------------------------------------
(* SQLite: the vectors of the chunks.                                      *)

VectorsInv ==
    engine = "sqlite" =>
        /\ rows # {} => vectors.made
        /\ \A c \in Cells : cell[c].pc = "drop_more" => rows = {}
        /\ VectorsPresent

LEMMA SqliteEffect ==
    ASSUME TypeInv, NEW c \in Cells, Step(c), engine = "sqlite"
    PROVE  \/ UNCHANGED <<rows, vectors>>
           \/ rows' = {} /\ vectors' = vectors
           \/ DropVectors(c) \/ MakeVectors(c) \/ SqliteWrite(c) \/ SqliteDelete(c)
<1>1. CASE Start(c) \/ CreateStep(c)
  BY <1>1 DEF Start, CreateStep, Lock, LockTimeout, Dispatch, Refuse, PgChunks,
     PgDropRecords, PgMake, Drop, Make, data, Transactional
<1>2. CASE WriteStep(c)
  <2>1. ~PgCommit(c)
    BY CellTyped DEF PgCommit, Fits
  <2> QED
    BY <1>2, <2>1 DEF WriteStep, BeginWrite, PgRecord, PgRows, MariaWrite,
       ClickHouseWrite, WriteRejected, data
<1>3. CASE DeleteStep(c)
  <2>1. ~PgUnrecord(c)
    BY CellTyped DEF PgUnrecord, Fits
  <2> QED
    BY <1>3, <2>1 DEF DeleteStep, BeginDelete, PgDelete, MariaDelete, ClickHouseDelete, data
<1>4. CASE Finish(c) \/ Fail(c) \/ Victim(c)
  BY <1>4 DEF Finish, Fail, Victim, data
<1> QED
  BY <1>1, <1>2, <1>3, <1>4 DEF Step, RunStep

\* Only Drop moves a SQLite run to where the vectors are dropped.
LEMMA DropMoreEffect ==
    ASSUME TypeInv, NEW c \in Cells, Step(c), engine = "sqlite",
           cell'[c].pc = "drop_more"
    PROVE  rows' = {}
<1>1. Drop(c)
  BY Moves DEF PgChunks, Transactional, Idle
<1> QED
  BY <1>1 DEF Drop

\* The orphan DELETE of the vectors reaches no other document.
NoLookalikes == Alike = {} \/ ~DeleteOrphans

LEMMA VectorsStep ==
    ASSUME ~Overlap, NoLookalikes
    PROVE  Base /\ VectorsInv /\ [Next]_vars => VectorsInv'
<1> SUFFICES ASSUME Base, VectorsInv, [Next]_vars, engine' = "sqlite"
             PROVE  VectorsInv'
  BY DEF VectorsInv
<1>1. UNCHANGED vars => VectorsInv'
  BY DEF vars, VectorsInv, VectorsPresent
<1>2. Mutate => VectorsInv'
  BY DEF Mutate, VectorsInv, VectorsPresent
<1>3. ASSUME NEW k \in Cells, Step(k)
      PROVE  VectorsInv'
  <2>0. /\ TypeInv /\ engine' = engine /\ engine = "sqlite"
        /\ \A c \in Cells \ {k} : cell'[c] = cell[c]
        /\ rows # {} => vectors.made
        /\ \A c \in Cells : cell[c].pc = "drop_more" => rows = {}
    BY <1>3, OthersStay DEF Base, VectorsInv
  <2>1. \A r \in rows : [doc |-> r.doc, seq |-> r.seq, ver |-> r.ver] \in vectors.ids
    BY <2>0 DEF VectorsInv, VectorsPresent
  <2> DEFINE Present == \A r \in rows' :
                 [doc |-> r.doc, seq |-> r.seq, ver |-> r.ver] \in vectors'.ids
  <2>2. (rows' # {} => vectors'.made) /\ Present
    <3>1. CASE UNCHANGED <<rows, vectors>> \/ (rows' = {} /\ vectors' = vectors)
      BY <2>0, <2>1, <3>1
    <3>2. CASE DropVectors(k)
      BY <2>0, <3>2 DEF DropVectors
    <3>3. CASE MakeVectors(k)
      BY <2>0, <2>1, <3>3 DEF MakeVectors
    <3>4. CASE SqliteWrite(k)
      <4> DEFINE n == Size[cell[k].ver]
      <4>1. /\ rows' = Upserted(k) /\ vectors.made /\ vectors'.made
            /\ vectors'.ids = UpsertedVectors(k)
        BY <2>0, <3>4 DEF SqliteWrite, Insertable, TypeInv, TypeOK
      <4>2. ASSUME NEW r \in Upserted(k)
            PROVE  [doc |-> r.doc, seq |-> r.seq, ver |-> r.ver] \in UpsertedVectors(k)
        <5>1. CASE r \in NewRows(k)
          BY <5>1 DEF UpsertedVectors
        <5>2. CASE r \notin NewRows(k)
          <6> DEFINE i == [doc |-> r.doc, seq |-> r.seq, ver |-> r.ver]
          <6>1. /\ r \in rows
                /\ ~(r.doc = cell[k].doc /\ (r.seq < n \/ (DeleteOrphans /\ r.seq >= n)))
            BY <4>2, <5>2 DEF Upserted
          <6>2. i \in vectors.ids /\ i.doc = r.doc /\ i.seq = r.seq
            BY <2>1, <6>1
          <6> HIDE DEF i
          <6> QED
            BY <6>1, <6>2 DEF UpsertedVectors, NoLookalikes, i
        <5> QED
          BY <5>1, <5>2
      <4> QED
        BY <4>1, <4>2
    <3>5. CASE SqliteDelete(k)
      <4>1. /\ rows' = rows \ Picked(k) /\ vectors'.made = vectors.made
            /\ vectors'.ids = {i \in vectors.ids :
                                ~(i.doc = cell[k].doc /\ i.seq \in cell[k].ids)}
        BY <2>0, <3>5 DEF SqliteDelete, TypeInv, TypeOK
      <4> QED
        BY <2>0, <2>1, <4>1 DEF Picked
    <3> QED
      BY <1>3, <2>0, <3>1, <3>2, <3>3, <3>4, <3>5, SqliteEffect
  <2>3. ASSUME NEW c \in Cells, cell'[c].pc = "drop_more"
        PROVE  rows' = {}
    <3>1. CASE c = k
      BY <1>3, <2>0, <2>3, <3>1, DropMoreEffect
    <3>2. CASE c # k
      <4>1. cell[c].pc = "drop_more" /\ rows = {} /\ ModeOf[c] = "overwrite"
        BY <2>0, <2>3, <3>2, CellTyped DEF Fits
      <4>2. cell[k].pc = "idle"
        BY <3>2, <4>1 DEF Base, Apart
      <4>3. ~SqliteWrite(k) /\ ~SqliteDelete(k) /\ ~DropVectors(k) /\ ~MakeVectors(k)
        BY <4>2 DEF SqliteWrite, SqliteDelete, DropVectors, MakeVectors
      <4> QED
        BY <1>3, <2>0, <4>1, <4>3, SqliteEffect
    <3> QED
      BY <3>1, <3>2
  <2> QED
    BY <2>2, <2>3 DEF VectorsInv, VectorsPresent
<1> QED
  BY <1>1, <1>2, <1>3 DEF Next, Step

\* SQLite: every chunk has the vector of its own content, as long as overwriting
\* runs are kept apart and no document's id is a pattern for another one's.
THEOREM VectorsArePresent ==
    ASSUME ~Overlap, NoLookalikes
    PROVE  Spec => []VectorsPresent
<1>1. Init => Base /\ VectorsInv
  BY BaseInit DEF Init, VectorsInv, VectorsPresent, Idle
<1>2. VectorsInv => VectorsPresent
  BY DEF VectorsInv, VectorsPresent
<1> QED
  BY <1>1, <1>2, BaseStep, VectorsStep, PTL DEF Spec

-----------------------------------------------------------------------------
(* Rows of other tags survive.                                             *)

\* An overwriting run that may not take other tags' rows found none, and finds
\* none later, until the table is its own.
ForeignInv ==
    \A c \in Cells \ ForceOverwrite :
        ModeOf[c] = "overwrite" /\ cell[c].pc \in {"drop", "drop_more", "make"} =>
            Foreign(c, rows) = {}

LEMMA ForeignStep ==
    ASSUME ~Overlap
    PROVE  Base /\ ForeignInv /\ [Next]_vars => ForeignInv'
<1> SUFFICES ASSUME Base, ForeignInv, [Next]_vars,
                    NEW c \in Cells \ ForceOverwrite, ModeOf[c] = "overwrite",
                    cell'[c].pc \in {"drop", "drop_more", "make"}
             PROVE  Foreign(c, rows') = {}
  BY DEF ForeignInv, Foreign
<1>0. TypeInv
  BY DEF Base
<1>1. Foreign(c, {}) = {}
  BY DEF Foreign
<1>2. CASE cell[c].pc \in {"drop", "drop_more", "make"} /\ rows' \subseteq rows
  BY <1>2 DEF ForeignInv, Foreign
<1>3. CASE UNCHANGED vars \/ Mutate
  BY <1>2, <1>3 DEF vars, Mutate
<1>4. ASSUME NEW k \in Cells, Step(k), k # c
      PROVE  Foreign(c, rows') = {}
  <2>1. cell'[c] = cell[c]
    BY <1>0, <1>4, OthersStay
  <2>2. cell[k].pc = "idle"
    BY <1>4, <2>1 DEF Base, Apart
  <2>3. ~Upserts(k) /\ ~ClickHouseWrite(k) /\ ~Deletes(k)
    BY <2>2 DEF Upserts, ClickHouseWrite, Deletes, PgUnrecord, SqliteDelete, MariaDelete,
       ClickHouseDelete
  <2>4. rows' \subseteq rows
    BY <1>0, <1>4, <2>3, TableEffect DEF Clears
  <2> QED
    BY <1>2, <2>1, <2>4
<1>5. ASSUME Step(c)
      PROVE  Foreign(c, rows') = {}
  <2>1. CASE Dispatch(c)
    <3>1. TRUE \in Verdicts(c) /\ rows' = rows
      BY <2>1 DEF Dispatch, data
    <3>2. ~(table.made /\ Foreign(c, rows) # {})
      <4>1. ~RefusesForeign(c)
        <5> DEFINE refuses == RefusesForeign(c)
        <5>1. refuses \in BOOLEAN
          BY DEF RefusesForeign
        <5> HIDE DEF refuses
        <5>2. TRUE \in {~refuses}
          BY <3>1 DEF Verdicts, refuses
        <5>3. ~refuses
          BY <5>1, <5>2
        <5> QED
          BY <5>3 DEF refuses
      <4> QED
        BY <4>1 DEF RefusesForeign
    <3>3. ~table.made => rows = {}
      BY <1>0 DEF TypeInv, TableShape
    <3> QED
      BY <1>1, <3>1, <3>2, <3>3
  <2>2. CASE /\ PgChunks(c) \/ Drop(c) \/ PgDropRecords(c) \/ DropVectors(c)
    <3>1. cell[c].pc \in {"drop", "drop_more"}
      BY <1>0, <2>2, CellTyped DEF PgChunks, Drop, PgDropRecords, DropVectors, Fits
    <3>2. rows' \subseteq rows
      BY <2>2 DEF PgChunks, Drop, PgDropRecords, DropVectors, data
    <3> QED
      BY <1>2, <3>1, <3>2
  <2> QED
    BY <1>0, <1>5, <2>1, <2>2, Moves DEF Idle
<1> QED
  BY <1>3, <1>4, <1>5 DEF Next, Step

LEMMA ForeignKept ==
    ASSUME Base, SourcesInv, OneTagPerDoc, ForeignInv, NEW c \in Cells \ ForceOverwrite, Step(c)
    PROVE  RowsKept(c)
<1>0. TypeInv /\ Sourced(rows)
  BY DEF Base, SourcesInv
<1>1. CASE UNCHANGED <<rows, last>>
  BY <1>1 DEF RowsKept
<1>2. CASE Clears(c)
  <2>1. ModeOf[c] = "overwrite" /\ cell[c].pc \in {"drop", "make"}
    BY <1>0, <1>2, CellTyped DEF Clears, Drop, PgMake, Fits
  <2>2. Foreign(c, rows) = {}
    BY <2>1 DEF ForeignInv
  <2> QED
    BY <2>2 DEF RowsKept, Foreign
<1>3. CASE Upserts(c) \/ ClickHouseWrite(c) \/ Deletes(c)
  <2>1. /\ cell[c].doc \in DocsOf[c]
        /\ \A d \in Docs : d # cell[c].doc => DocRows(d)' = DocRows(d)
    BY <1>0, <1>3, OtherDocs
  <2>2. ASSUME NEW r \in rows, r.src # TagOf[c]
        PROVE  r \in rows'
    <3>1. r.doc # cell[c].doc
      BY <1>0, <2>1, <2>2 DEF Sourced
    <3>2. r.doc \in Docs
      BY <1>0 DEF TypeInv, TypeOK, Rows
    <3>3. DocRows(r.doc) = {q \in rows' : q.doc = r.doc}
      BY <2>1, <3>1, <3>2 DEF DocRows
    <3> QED
      BY <3>3 DEF DocRows
  <2> QED
    BY <2>2 DEF RowsKept
<1> QED
  BY <1>0, <1>1, <1>2, <1>3, TableEffect

\* Runs of overwriting cells being kept apart and every document having cells
\* of one tag, no step of a cell without force_overwrite takes away another
\* tag's row: not the check and the DROP with other statements in between, not
\* an upsert, a deletion, a retry or a failure.
THEOREM ForeignRowsAreKept ==
    ASSUME ~Overlap, OneTagPerDoc
    PROVE  Spec => ForeignRowsSurvive
<1> DEFINE Inv == Base /\ SourcesInv /\ ForeignInv
<1>1. Init => Inv
  <2> SUFFICES ASSUME Init
               PROVE  Inv
    OBVIOUS
  <2>1. SourcesInv
    BY DEF Init, SourcesInv, Sourced
  <2>2. ForeignInv
    BY DEF Init, ForeignInv, Idle
  <2> QED
    BY <2>1, <2>2, BaseInit
<1>2. Inv /\ [Next]_vars => Inv'
  BY BaseStep, SourcesStep, ForeignStep
<1>3. Inv /\ [Next]_vars =>
        \A c \in Cells \ ForceOverwrite : cell'[c] # cell[c] => RowsKept(c)
  <2>1. SUFFICES ASSUME Inv, [Next]_vars, NEW c \in Cells \ ForceOverwrite, cell'[c] # cell[c]
                 PROVE  RowsKept(c)
    OBVIOUS
  <2>2. Step(c)
    <3>1. ASSUME NEW k \in Cells, Step(k), k # c
          PROVE  FALSE
      BY <2>1, <3>1, OthersStay DEF Base
    <3> QED
      BY <2>1, <3>1 DEF Next, Step, Mutate, vars
  <2> QED
    BY <2>1, <2>2, ForeignKept
<1> HIDE DEF Inv
<1> QED
  BY <1>1, <1>2, <1>3, PTL DEF Spec, ForeignRowsSurvive

-----------------------------------------------------------------------------
(* PostgreSQL: the documents table.                                        *)

\* Every cell keeps records of its documents.
AllRecord == Recorders = Cells /\ Pipelines = {}

Recordings(docs, d) == {<<r.ver, r.n>> : r \in {x \in docs : x.doc = d}}
RecordOf(v) == IF v = 0 THEN {} ELSE {<<v, Size[v]>>}

\* What create_table is about to do to the two tables, having dropped some.
DropsFit(c) ==
    LET chunks == "chunks" \in cell[c].dropped
        documents == "documents" \in cell[c].dropped
    IN /\ cell[c].pc = "drop_more" => ~documents /\ (chunks <=> table.made)
       /\ cell[c].pc = "make" => /\ chunks /\ ~documents => ~records.made
                                 /\ ~chunks /\ documents => ~table.made

RecordsInv ==
    engine = "postgres" =>
        /\ \A d \in Docs : Recordings(records.docs, d) = RecordOf(last[d])
        /\ ~records.made => records.docs = {}
        /\ \A c \in Cells : cell[c].pc \in AtDoc \cup {"ready"} => records.made
        /\ \A c \in Cells : DropsFit(c)
        /\ \A r, q \in rows : r.doc = q.doc /\ r.seq = q.seq => r = q

\* As many rows as chunks: they are told apart by seq.
LEMMA RowsCounted ==
    ASSUME TypeInv, LastWriteStands, RecordsInv, engine = "postgres",
           NEW d \in Docs, last[d] # 0
    PROVE  Cardinality({r \in rows : r.doc = d}) = Size[last[d]]
<1> DEFINE S == {r \in rows : r.doc = d}
           n == Size[last[d]]
           T == 0 .. n - 1
           f == [r \in S |-> r.seq]
<1>1. n \in Nat \ {0}
  BY ContentsAssumption DEF TypeInv, TypeOK
<1>2. {<<r.seq, r.ver>> : r \in S} = {<<s, last[d]>> : s \in T}
  <2>1. {x \in rows : x.doc = d /\ ~x.doomed} = S
    BY DEF TypeInv, TableShape
  <2> HIDE DEF S
  <2> QED
    BY <2>1 DEF LastWriteStands
<1>3. \A r \in S : r.seq \in T
  <2> SUFFICES ASSUME NEW r \in S
               PROVE  r.seq \in T
    OBVIOUS
  <2> HIDE DEF S, T
  <2>1. <<r.seq, r.ver>> \in {<<s, last[d]>> : s \in T}
    BY <1>2
  <2> QED
    BY <2>1
<1>4. \A s \in T : \E r \in S : r.seq = s
  <2> SUFFICES ASSUME NEW s \in T
               PROVE  \E r \in S : r.seq = s
    OBVIOUS
  <2> HIDE DEF S, T
  <2>1. <<s, last[d]>> \in {<<r.seq, r.ver>> : r \in S}
    BY <1>2
  <2> QED
    BY <2>1
<1>5. \A r, q \in S : r.seq = q.seq => r = q
  BY DEF RecordsInv
<1>6. IsFiniteSet(T) /\ Cardinality(T) = n
  <2>1. 0 \in Int /\ n - 1 \in Int /\ 0 <= n - 1
    BY <1>1
  <2> HIDE DEF n
  <2> QED
    BY <1>1, <2>1, FS_Interval
<1> HIDE DEF S, T, n
<1>7. f \in Injection(S, T)
  BY <1>3, <1>5 DEF Injection, IsInjective
<1>8. f \in Surjection(S, T)
  BY <1>3, <1>4 DEF Surjection
<1> HIDE DEF f
<1>9. Cardinality(S) = n
  BY <1>6, <1>7, <1>8, FS_Injection
<1> QED
  BY <1>9 DEF S, n

\* What the steps of a run do to the documents table.
LEMMA RecordsEffect ==
    ASSUME TypeInv, NEW c \in Cells, Step(c), engine = "postgres"
    PROVE  \/ UNCHANGED <<rows, last, table, records>>
           \/ PgMake(c) \/ PgCommit(c) \/ PgUnrecord(c)
<1>1. CASE Start(c) \/ CreateStep(c)
  BY <1>1 DEF Start, CreateStep, Lock, LockTimeout, Dispatch, Refuse, PgChunks,
     PgDropRecords, Drop, DropVectors, Make, MakeVectors, data, Transactional
<1>2. CASE WriteStep(c)
  BY <1>2 DEF WriteStep, BeginWrite, PgRecord, PgRows, SqliteWrite, MariaWrite,
     ClickHouseWrite, WriteRejected, data
<1>3. CASE DeleteStep(c)
  BY <1>3 DEF DeleteStep, BeginDelete, PgDelete, SqliteDelete, MariaDelete,
     ClickHouseDelete, data
<1>4. CASE Finish(c) \/ Fail(c) \/ Victim(c)
  BY <1>4 DEF Finish, Fail, Victim, data
<1> QED
  BY <1>1, <1>2, <1>3, <1>4 DEF Step, RunStep

\* The records after each of the three, and the identity of the rows.
LEMMA MakeRecords ==
    ASSUME Base, LastWriteStands, RecordsInv, engine = "postgres", NEW c \in Cells, PgMake(c)
    PROVE  /\ \A d \in Docs : Recordings(records'.docs, d) = RecordOf(last'[d])
           /\ ~records'.made => records'.docs = {}
           /\ rows' \subseteq rows
<1> DEFINE chunks == "chunks" \in cell[c].dropped
           documents == "documents" \in cell[c].dropped
<1>0. TypeInv /\ cell[c].pc = "make"
  BY DEF Base, PgMake
<1>1. /\ rows' = (IF chunks THEN {} ELSE rows)
      /\ last' = (IF chunks THEN [d \in Docs |-> 0] ELSE last)
      /\ records'.docs = (IF documents THEN {} ELSE records.docs)
      /\ ~records'.made => ~records.made
  BY DEF PgMake
<1>2. /\ chunks /\ ~documents => ~records.made
      /\ ~chunks /\ documents => ~table.made
      /\ ~records.made => records.docs = {}
      /\ \A d \in Docs : Recordings(records.docs, d) = RecordOf(last[d])
  BY <1>0 DEF RecordsInv, DropsFit
<1>3. \A d \in Docs : Recordings({}, d) = {} /\ RecordOf(0) = {}
  BY DEF Recordings, RecordOf
<1>4. ~table.made => \A d \in Docs : last[d] = 0
  <2> SUFFICES ASSUME ~table.made, NEW d \in Docs, last[d] # 0
               PROVE  FALSE
    OBVIOUS
  <2>1. rows = {} /\ Size[last[d]] \in Nat \ {0}
    BY <1>0, ContentsAssumption DEF TypeInv, TypeOK, TableShape
  <2>2. {<<s, last[d]>> : s \in 0 .. Size[last[d]] - 1}
        \subseteq {<<r.seq, r.ver>> : r \in {x \in rows : x.doc = d /\ ~x.doomed}}
    BY DEF LastWriteStands
  <2>3. {<<r.seq, r.ver>> : r \in {x \in rows : x.doc = d /\ ~x.doomed}} = {}
    BY <2>1
  <2>4. 0 \in 0 .. Size[last[d]] - 1
    BY <2>1
  <2> QED
    BY <2>2, <2>3, <2>4
<1> HIDE DEF chunks, documents
<1>5. \A d \in Docs : Recordings(records'.docs, d) = RecordOf(last'[d])
  <2> TAKE d \in Docs
  <2>1. CASE chunks
    BY <1>1, <1>2, <1>3, <2>1
  <2>2. CASE ~chunks
    BY <1>1, <1>2, <1>3, <1>4, <2>2
  <2> QED
    BY <2>1, <2>2
<1> QED
  BY <1>1, <1>2, <1>5

LEMMA CommitRecords ==
    ASSUME AllRecord, Base, RecordsInv, engine = "postgres", DeleteOrphans,
           NEW c \in Cells, PgCommit(c)
    PROVE  /\ \A d \in Docs : Recordings(records'.docs, d) = RecordOf(last'[d])
           /\ records'.made = records.made
           /\ \A r, q \in rows' : r.doc = q.doc /\ r.seq = q.seq => r = q
<1> DEFINE doc == cell[c].doc
           ver == cell[c].ver
           old == {r \in records.docs : r.doc = doc}
           src == IF old = {} THEN TagOf[c] ELSE (CHOOSE r \in old : TRUE).src
           new == [doc |-> doc, ver |-> ver, n |-> Size[ver], src |-> src]
<1>0. TypeInv /\ cell[c].pc = "commit" /\ doc \in Docs /\ ver \in Contents /\ ver # 0
      /\ Size[ver] \in Nat /\ NewRows(c) \subseteq Rows
  BY NewRowsTyped, ContentsAssumption DEF Base, PgCommit
<1>1. Recorded(c) = (records.docs \ old) \cup {new}
  BY DEF Recorded
<1>2. records'.docs = (records.docs \ old) \cup {new} /\ records'.made = records.made
  BY <1>0, <1>1 DEF PgCommit, AllRecord, TypeInv, TypeOK
<1>3. last' = [last EXCEPT ![doc] = ver]
  BY DEF PgCommit, Written
<1>4. ASSUME NEW d \in Docs
      PROVE  Recordings(records'.docs, d) = RecordOf(last'[d])
  <2>1. CASE d = doc
    <3>1. {x \in records'.docs : x.doc = d} = {new}
      BY <1>2, <2>1
    <3>2. {<<r.ver, r.n>> : r \in {new}} = {<<ver, Size[ver]>>}
      OBVIOUS
    <3>3. last'[d] = ver
      BY <1>0, <1>3, <2>1 DEF TypeInv, TypeOK
    <3> HIDE DEF new
    <3> QED
      BY <1>0, <3>1, <3>2, <3>3 DEF Recordings, RecordOf
  <2>2. CASE d # doc
    <3>1. {x \in records'.docs : x.doc = d} = {x \in records.docs : x.doc = d}
      BY <1>2, <2>2
    <3>2. last'[d] = last[d]
      BY <1>0, <1>3, <2>2 DEF TypeInv, TypeOK
    <3> QED
      BY <3>1, <3>2 DEF Recordings, RecordsInv
  <2> QED
    BY <2>1, <2>2
<1>5. ASSUME NEW r \in rows', NEW q \in rows', r.doc = q.doc, r.seq = q.seq
      PROVE  r = q
  <2>1. rows' = Upserted(c)
    BY DEF PgCommit
  <2>2. \A x \in NewRows(c) : x.doc = doc
    BY DEF NewRows
  <2>3. \A x \in rows' : x.doc = doc => x \in NewRows(c)
    <3>1. \A x \in rows : x.seq \in Int
      BY <1>0 DEF TypeInv, TypeOK, Rows, Seqs
    <3>2. \A x \in rows : x.doc = doc => x.seq < Size[ver] \/ x.seq >= Size[ver]
      BY <1>0, <3>1
    <3> QED
      BY <2>1, <3>2 DEF Upserted
  <2>4. \A x \in rows' : x.doc # doc => x \in rows
    BY <2>1, <2>2 DEF Upserted
  <2>5. \A x, y \in NewRows(c) : x.seq = y.seq => x = y
    <3> DEFINE row(s) == [doc |-> doc, seq |-> s, ver |-> ver, dim |-> DimOf[c],
                          src |-> OwnerOf(c, doc, s), doomed |-> FALSE]
    <3>1. \A x \in NewRows(c) : x = row(x.seq)
      BY DEF NewRows
    <3> HIDE DEF row
    <3> QED
      BY <3>1
  <2>6. CASE r.doc = doc
    BY <1>5, <2>3, <2>5, <2>6
  <2>7. CASE r.doc # doc
    BY <1>5, <2>4, <2>7 DEF RecordsInv
  <2> QED
    BY <2>6, <2>7
<1> QED
  BY <1>2, <1>4, <1>5

LEMMA UnrecordRecords ==
    ASSUME AllRecord, OneTagPerDoc, SoleDeleters, Base, SourcesInv, DeleteInv,
           LastWriteStands, RecordsInv, engine = "postgres", NEW c \in Cells, PgUnrecord(c)
    PROVE  /\ \A d \in Docs : Recordings(records'.docs, d) = RecordOf(last'[d])
           /\ records'.made = records.made
           /\ rows' \subseteq rows
<1> DEFINE doc == cell[c].doc
<1>0. TypeInv /\ cell[c].pc = "unrecord" /\ doc \in Docs /\ doc \in DocsOf[c]
  BY OtherDocs DEF Base, PgUnrecord, Deletes
<1>1. /\ records'.made = records.made
      /\ records'.docs = {r \in records.docs : ~(r.doc = doc /\ InScope(c, r))}
  BY <1>0 DEF PgUnrecord, AllRecord, TypeInv, TypeOK
<1>2. \A r \in records.docs : r.doc = doc => InScope(c, r)
  BY <1>0 DEF SourcesInv, Sourced, InScope
<1>3. last'[doc] = 0 /\ \A d \in Docs : d # doc => last'[d] = last[d]
  <2>1. CASE cell[c].ids # {}
    BY <1>0, <2>1 DEF PgUnrecord, Withdrawn, TypeInv, TypeOK
  <2>2. CASE cell[c].ids = {}
    <3>1. last' = last
      BY <2>2 DEF PgUnrecord, Withdrawn
    <3>2. \A r \in rows : r.doc # doc
      BY <1>0, <2>2 DEF DeleteInv, Deleting, DocRows
    <3>3. last[doc] = 0
      <4> SUFFICES ASSUME last[doc] # 0
                   PROVE  FALSE
        OBVIOUS
      <4>1. Size[last[doc]] \in Nat \ {0}
        BY <1>0, ContentsAssumption DEF TypeInv, TypeOK
      <4>2. {<<s, last[doc]>> : s \in 0 .. Size[last[doc]] - 1}
            \subseteq {<<r.seq, r.ver>> : r \in {x \in rows : x.doc = doc /\ ~x.doomed}}
        BY <1>0 DEF LastWriteStands
      <4>3. {<<r.seq, r.ver>> : r \in {x \in rows : x.doc = doc /\ ~x.doomed}} = {}
        BY <3>2
      <4>4. 0 \in 0 .. Size[last[doc]] - 1
        BY <4>1
      <4> QED
        BY <4>2, <4>3, <4>4
    <3> QED
      BY <3>1, <3>3
  <2> QED
    BY <2>1, <2>2
<1>4. ASSUME NEW d \in Docs
      PROVE  Recordings(records'.docs, d) = RecordOf(last'[d])
  <2>1. CASE d = doc
    <3>1. {x \in records'.docs : x.doc = d} = {}
      BY <1>1, <1>2, <2>1
    <3> QED
      BY <1>3, <2>1, <3>1 DEF Recordings, RecordOf
  <2>2. CASE d # doc
    <3>1. {x \in records'.docs : x.doc = d} = {x \in records.docs : x.doc = d}
      BY <1>1, <2>2
    <3> QED
      BY <1>3, <2>2, <3>1 DEF Recordings, RecordsInv
  <2> QED
    BY <2>1, <2>2
<1> QED
  BY <1>1, <1>4 DEF PgUnrecord

\* A run past create_table has seen the documents table made.
LEMMA RecordsMade ==
    ASSUME AllRecord, Base, RecordsInv, engine = "postgres", NEW k \in Cells, Step(k),
           NEW c \in Cells, cell'[c].pc \in AtDoc \cup {"ready"}
    PROVE  records'.made
<1>0. TypeInv /\ records.made \in BOOLEAN
  BY DEF Base, TypeInv, TypeOK
<1>1. records.made => records'.made
  <2>1. PgMake(k) => records'.made = (records.made \/ k \in Recorders)
    BY DEF PgMake
  <2>2. PgCommit(k) \/ PgUnrecord(k) => records'.made = records.made
    BY <1>0 DEF PgCommit, PgUnrecord, TypeInv, TypeOK
  <2> QED
    BY <1>0, <2>1, <2>2, RecordsEffect
<1>2. CASE cell[c].pc \in AtDoc \cup {"ready"}
  BY <1>1, <1>2 DEF RecordsInv
<1>3. CASE cell[c].pc \notin AtDoc \cup {"ready"}
  <2>1. c = k
    BY <1>0, <1>3, OthersStay
  <2>2. PgMake(c)
    <3>1. ~Dispatch(c) \/ cell'[c].pc # "ready"
      <4>1. SUFFICES ASSUME Dispatch(c)
                     PROVE  cell'[c].pc # "ready"
        OBVIOUS
      <4>2. Goto(c, "drop") \/ Goto(c, "make") \/ Goto(c, "alter")
        BY <4>1 DEF Dispatch, Transactional
      <4> QED
        BY <1>0, <4>2, CellTyped DEF Goto, TypeInv, TypeOK, AtDoc
    <3>2. ~MakeVectors(c) /\ ~Make(c)
      BY DEF MakeVectors, Make, Transactional
    <3>3. ~Writes(c) /\ ~Deletes(c)
      BY <1>3 DEF Writes, PgCommit, SqliteWrite, MariaWrite, ClickHouseWrite, Deletes,
         PgUnrecord, SqliteDelete, MariaDelete, ClickHouseDelete, AtDoc
    <3>4. ~BeginWrite(c) /\ ~PgRecord(c) /\ ~PgRows(c) /\ ~BeginDelete(c) /\ ~PgDelete(c)
      BY <1>3 DEF BeginWrite, PgRecord, PgRows, BeginDelete, PgDelete, AtDoc
    <3> QED
      BY <1>0, <2>1, <3>1, <3>2, <3>3, <3>4, Moves DEF AtDoc, Idle
  <2> QED
    BY <2>2 DEF PgMake, AllRecord
<1> QED
  BY <1>2, <1>3

\* What a run has dropped fits the tables, which nobody else makes meanwhile.
LEMMA DropsStep ==
    ASSUME AllRecord, Base, RecordsInv, engine = "postgres", NEW k \in Cells, Step(k),
           NEW c \in Cells
    PROVE  DropsFit(c)'
<1>0. TypeInv /\ DropsFit(c) /\ cell \in [Cells -> Runs] /\ cell[c] \in Runs
      /\ Fits(c, cell[c], engine, table.made) /\ table.made \in BOOLEAN
      /\ records.made \in BOOLEAN
  BY CellTyped DEF Base, RecordsInv, TypeInv, TypeOK, Runs
<1>1. SUFFICES ASSUME cell'[c].pc \in {"drop_more", "make"}
               PROVE  DropsFit(c)'
  BY DEF DropsFit
<1>2. CASE c # k
  <2>1. cell'[c] = cell[c]
    BY <1>0, <1>2, OthersStay
  <2>2. ~PgMake(k)
    BY <1>1, <1>2, <2>1 DEF PgMake, Base, CreatorsLock, Creating
  <2>3. table' = table /\ records'.made = records.made
    BY <1>0, <2>2, RecordsEffect DEF PgCommit, PgUnrecord, TypeInv, TypeOK
  <2> QED
    BY <1>0, <2>1, <2>3 DEF DropsFit
<1>3. CASE c = k
  <2>1. CASE PgChunks(c)
    <3>1. /\ cell'[c].dropped = IF cell[c].pc = "drop" /\ table.made THEN {"chunks"} ELSE {}
          /\ cell'[c].pc = IF cell[c].pc = "drop" THEN "drop_more" ELSE "make"
          /\ table' = table
      BY <1>0, <2>1 DEF PgChunks, Runs, data
    <3> QED
      BY <1>0, <3>1 DEF DropsFit
  <2>2. CASE PgDropRecords(c)
    <3>1. /\ cell'[c].dropped = cell[c].dropped \cup
                                  (IF records.made THEN {"documents"} ELSE {})
          /\ cell'[c].pc = "make" /\ cell[c].pc = "drop_more"
          /\ table' = table /\ records' = records
      BY <1>0, <2>2 DEF PgDropRecords, Runs, data, AllRecord
    <3> QED
      BY <1>0, <3>1 DEF DropsFit
  <2>3. CASE Dispatch(c)
    <3>1. /\ cell'[c].dropped = cell[c].dropped /\ cell[c].pc = "dispatch"
          /\ cell'[c].pc = "make"
      BY <1>0, <1>1, <2>3, Moves, <1>3 DEF Dispatch, Goto, Runs, Idle
    <3>2. cell[c].dropped = {}
      BY <1>0, <3>1 DEF Fits
    <3> QED
      BY <3>1, <3>2 DEF DropsFit
  <2>4. ~Drop(c) /\ ~DropVectors(c)
    BY DEF Drop, DropVectors, Transactional
  <2> QED
    BY <1>0, <1>1, <1>3, <2>1, <2>2, <2>3, <2>4, Moves DEF Idle
<1> QED
  BY <1>2, <1>3

LEMMA RecordsStep ==
    ASSUME AllRecord, DeleteOrphans, OneTagPerDoc, SoleDeleters
    PROVE  LastInv /\ RecordsInv /\ [Next]_vars => RecordsInv'
<1> SUFFICES ASSUME LastInv, RecordsInv, [Next]_vars, engine' = "postgres"
             PROVE  RecordsInv'
  BY DEF RecordsInv
<1>0. Base /\ TypeInv /\ SourcesInv /\ DeleteInv /\ LastWriteStands
  BY DEF LastInv, Base
<1>1. UNCHANGED vars => RecordsInv'
  BY DEF vars, RecordsInv, DropsFit
<1>2. Mutate => RecordsInv'
  BY DEF Mutate, RecordsInv, DropsFit
<1>3. ASSUME NEW k \in Cells, Step(k)
      PROVE  RecordsInv'
  <2>0. engine = "postgres" /\ engine' = engine
    BY <1>0, <1>3, OthersStay
  <2>1. \A c \in Cells : DropsFit(c)'
    BY <1>0, <1>3, <2>0, DropsStep
  <2>2. \A c \in Cells : cell'[c].pc \in AtDoc \cup {"ready"} => records'.made
    BY <1>0, <1>3, <2>0, RecordsMade
  <2>3. /\ \A d \in Docs : Recordings(records'.docs, d) = RecordOf(last'[d])
        /\ ~records'.made => records'.docs = {}
        /\ \A r, q \in rows' : r.doc = q.doc /\ r.seq = q.seq => r = q
    <3>1. CASE UNCHANGED <<rows, last, table, records>>
      BY <2>0, <3>1 DEF RecordsInv
    <3>2. CASE PgMake(k)
      <4>1. /\ \A d \in Docs : Recordings(records'.docs, d) = RecordOf(last'[d])
            /\ ~records'.made => records'.docs = {}
            /\ rows' \subseteq rows
        BY <1>0, <2>0, <3>2, MakeRecords
      <4> QED
        BY <2>0, <4>1 DEF RecordsInv
    <3>3. CASE PgCommit(k)
      <4>1. /\ \A d \in Docs : Recordings(records'.docs, d) = RecordOf(last'[d])
            /\ records'.made = records.made
            /\ \A r, q \in rows' : r.doc = q.doc /\ r.seq = q.seq => r = q
        BY <1>0, <2>0, <3>3, CommitRecords
      <4>2. records.made
        BY <2>0, <3>3 DEF PgCommit, RecordsInv, AtDoc
      <4> QED
        BY <4>1, <4>2
    <3>4. CASE PgUnrecord(k)
      <4>1. /\ \A d \in Docs : Recordings(records'.docs, d) = RecordOf(last'[d])
            /\ records'.made = records.made
            /\ rows' \subseteq rows
        BY <1>0, <2>0, <3>4, UnrecordRecords
      <4>2. records.made
        BY <2>0, <3>4 DEF PgUnrecord, RecordsInv, AtDoc
      <4> QED
        BY <2>0, <4>1, <4>2 DEF RecordsInv
    <3> QED
      BY <1>0, <1>3, <2>0, <3>1, <3>2, <3>3, <3>4, RecordsEffect
  <2> QED
    BY <2>1, <2>2, <2>3 DEF RecordsInv
<1> QED
  BY <1>1, <1>2, <1>3 DEF Next, Step

\* PostgreSQL: whatever cells write, withdraw and overwrite at the same time,
\* the documents table has a record of every document that has chunks, with
\* their content and their number, and of no other.
THEOREM RecordsAlwaysAgree ==
    ASSUME AllRecord, DeleteOrphans, OneTagPerDoc, SoleDeleters
    PROVE  Spec => []RecordsAgree
<1>1. Undisturbed
  BY DEF Undisturbed
<1>2. Init => RecordsInv
  BY DEF Init, RecordsInv, Recordings, RecordOf, DropsFit, Idle, AtDoc
<1>3. LastInv /\ RecordsInv => RecordsAgree
  <2> SUFFICES ASSUME LastInv, RecordsInv, engine = "postgres", NEW d \in Docs
               PROVE  {<<r.ver, r.n>> : r \in {x \in records.docs : x.doc = d}} =
                      IF last[d] = 0 THEN {}
                      ELSE {<<last[d], Cardinality({r \in rows : r.doc = d})>>}
    BY DEF RecordsAgree
  <2>1. Recordings(records.docs, d) = RecordOf(last[d])
    BY DEF RecordsInv
  <2>2. last[d] # 0 => Cardinality({r \in rows : r.doc = d}) = Size[last[d]]
    BY RowsCounted DEF LastInv, Base
  <2> QED
    BY <2>1, <2>2 DEF Recordings, RecordOf
<1> QED
  BY <1>1, <1>2, <1>3, LastInit, LastStep, RecordsStep, PTL DEF Spec
=============================================================================
