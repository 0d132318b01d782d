----------------------- MODULE IncrementalFilesProofs -----------------------
(***************************************************************************)
(* Proofs about IncrementalFiles, and that it implements DirectoryMirror,  *)
(* for any set of paths, any framing of contents, any doc_limit and any    *)
(* number of edits, faults and runs.                                       *)
(***************************************************************************)
EXTENDS IncrementalFilesMirror, WellFoundedInduction, TLAPS

\* The configurations the safety theorems are about: change detection by
\* hash, doc ids that tell the paths apart (id_from "path" or "sha1"), a mode
\* that keeps the table, and users who never bring an old content back.
SafeConfig ==
    /\ Detect = "hash"
    /\ Mode # "overwrite"
    /\ ~Restores
    /\ \A p, q \in Paths : IdOf[p] = IdOf[q] => p = q

USE DEF NoLimit, Versions, world, locals

-----------------------------------------------------------------------------
(* Typing.                                                                 *)

\* FirstPath picks a member of any set of paths that has one.
LEMMA FirstPathInSet ==
    ASSUME NEW S \in SUBSET Paths, S # {}
    PROVE  FirstPath(S) \in S
<1> DEFINE R == OpToRel(<, Nat)
<1>1. IsWellFoundedOn(R, Nat)
  BY NatLessThanWellFounded
<1>2. S \subseteq Nat
  BY PathsAssumption
<1>3. \E x \in S : \A y \in S : ~ (<<y, x>> \in R)
  <2> HIDE DEF R
  <2> QED
    BY <1>1, <1>2, WFMin
<1>4. R = {ss \in Nat \X Nat : ss[1] < ss[2]}
  BY DEF OpToRel
<1>5. PICK x \in S : \A y \in S : x <= y
  <2>1. PICK x \in S : \A y \in S : ~ (<<y, x>> \in R)
    BY <1>3
  <2>2. \A y \in S : ~ (y < x)
    BY <1>2, <1>4, <2>1
  <2> QED
    BY <1>2, <2>2
<1> QED
  BY <1>5 DEF FirstPath

LEMMA UpdateTyped ==
    ASSUME NEW A, NEW B, NEW f \in [A -> B], NEW a, NEW b \in B
    PROVE  [f EXCEPT ![a] = b] \in [A -> B]
  OBVIOUS

\* The initial and the reset values are values of their types.
LEMMA InitialValues ==
    /\ [p \in Paths |-> NoFile] \in Disks
    /\ NoCursor \in Cursors
    /\ EmptyDoc \in Docs
    /\ [d \in DocKeys |-> EmptyDoc] \in Tables
  BY BoundsAssumption
  DEF NoFile, Disks, NoCursor, NoEntry, Cursors, EmptyDoc, Docs, Tables

\* Reading one component of a typed value.
LEMMA Components ==
    ASSUME TypeOK
    PROVE  /\ \A p \in Paths : disk[p].ver \in 0 .. MaxVersion
           /\ \A p \in Paths : disk[p].mt \in 0 .. MaxVersion
           /\ \A p \in Paths : base[p].h \in 0 .. MaxVersion
           /\ \A p \in Paths : newCur[p].h \in 0 .. MaxVersion
           /\ \A p \in Paths : cursorFile[p].h \in 0 .. MaxVersion
           /\ \A d \in DocKeys : chunks[d] \in Docs
  BY DEF TypeOK, Disks, Cursors, Tables

LEMMA EndRunTyped ==
    ASSUME TypeOK, NEW how \in {"complete", "truncated", "failed", "crashed"},
           EndRun(how), UNCHANGED <<disk, clock, chunks, quiet>>,
           edges' \in SUBSET (Paths \X Paths), cursorFile' = cursorFile,
           faults' \in 0 .. MaxFaults
    PROVE  TypeOK'
  BY BoundsAssumption, InitialValues DEF TypeOK, EndRun

\* write_document keeps the rows of a document rows.
LEMMA WrittenTyped ==
    ASSUME NEW rows \in Docs, NEW n \in Nat, NEW v \in Versions
    PROVE  Written(rows, n, v) \in Docs
  BY BoundsAssumption DEF Written, Docs

LEMMA ElementOfSeq ==
    ASSUME NEW S, NEW s \in Seq(S), NEW i \in DOMAIN s
    PROVE  s[i] \in S
  OBVIOUS

\* A position in the framing of a content names a framed document.
LEMMA FrameTyped ==
    ASSUME NEW v \in Versions, NEW i \in DOMAIN Frames[v]
    PROVE  /\ Frames[v][i].key \in Keys
           /\ Frames[v][i].n \in 0 .. MaxChunks
<1>1. Frames[v] \in Seq([key : Keys, n : 0 .. MaxChunks])
  BY FramesAssumption
<1>2. Frames[v][i] \in [key : Keys, n : 0 .. MaxChunks]
  BY <1>1, ElementOfSeq
<1> QED
  BY <1>2

\* The indices WriteFrame uses are the positions.
LEMMA FrameIndex ==
    ASSUME NEW v \in Versions
    PROVE  DOMAIN Frames[v] = 1 .. Len(Frames[v]) /\ Len(Frames[v]) \in Nat
<1>1. Frames[v] \in Seq([key : Keys, n : 0 .. MaxChunks])
  BY FramesAssumption
<1> QED
  BY <1>1

LEMMA TypeInit == Init => TypeOK
  BY BoundsAssumption, InitialValues DEF Init, TypeOK

LEMMA TypeStep == TypeOK /\ [Next]_vars => TypeOK'
<1> SUFFICES ASSUME TypeOK, [Next]_vars
             PROVE  TypeOK'
  OBVIOUS
<1> USE BoundsAssumption
<1>1. CASE Start
  BY <1>1, SwitchesAssumption DEF Start, TypeOK
<1>2. CASE CreateTable
  BY <1>2, InitialValues DEF CreateTable, TypeOK
<1>3. CASE Glob
  BY <1>3 DEF Glob, TypeOK, CurrentPaths
<1>4. CASE StatNext
  <2>1. CASE FileVanished
    BY <1>4, <2>1, EndRunTyped DEF FileVanished, TypeOK
  <2>2. CASE ~FileVanished
    <3>1. todo \in SUBSET Paths /\ todo # {}
      BY <1>4 DEF StatNext, TypeOK
    <3>2. FirstPath(todo) \in Paths
      BY <3>1, FirstPathInSet
    <3> QED
      BY <1>4, <2>2, <3>2 DEF StatNext, TypeOK
  <2> QED
    BY <2>1, <2>2
<1>5. CASE ReadBytes
  <2>1. CASE FileVanished
    BY <1>5, <2>1, EndRunTyped DEF FileVanished, TypeOK
  <2>2. CASE ~FileVanished
    BY <1>5, <2>2, Components DEF ReadBytes, TypeOK
  <2> QED
    BY <2>1, <2>2
<1>6. CASE Parse
  <2>1. CASE FileVanished
    BY <1>6, <2>1, EndRunTyped DEF FileVanished, TypeOK
  <2>2. CASE ~FileVanished
    <3>1. disk[cur].ver \in Versions
      BY <1>6, <2>2, Components DEF Parse, TypeOK
    <3>2. pc' \in {"end", "frame"} /\ cur \in Paths
      BY <1>6, <2>2 DEF Parse, TypeOK
    <3> QED
      <4>1. body' = disk[cur].ver /\ ix' = 1
        BY <1>6, <2>2 DEF Parse
      <4>2. UNCHANGED <<disk, clock, chunks, edges, cursorFile, base, newCur,
                        todo, cur, fp, docs, limit, dels, seen, result, quiet,
                        faults>>
        BY <1>6, <2>2 DEF Parse
      <4>3. body' \in 1 .. MaxVersion
        BY <3>1, <4>1
      <4> QED
        BY <3>2, <4>1, <4>2, <4>3 DEF TypeOK
  <2> QED
    BY <2>1, <2>2
<1>7. CASE WriteFrame
  <2> DEFINE f == Frames[body][ix]
             d == <<IdOf[cur], f.key>>
  <2>1. body \in Versions /\ cur \in Paths /\ ix \in Nat \ {0}
    BY <1>7 DEF WriteFrame, TypeOK
  <2>2. f.key \in Keys /\ f.n \in 0 .. MaxChunks
    BY <1>7, <2>1, FrameIndex, FrameTyped DEF WriteFrame
  <2>3. d \in DocKeys
    BY <2>1, <2>2, IdsAssumption DEF DocKeys
  <2>4. chunks' \in Tables
    <3>1. Written(chunks[d], f.n, body) \in Docs
      <4>1. chunks[d] \in Docs
        BY <2>3, Components
      <4>2. f.n \in Nat
        BY <2>2
      <4> QED
        BY <2>1, <4>1, <4>2, WrittenTyped
    <3>2. \/ chunks' = chunks
          \/ chunks' = [chunks EXCEPT ![d] = Written(chunks[d], f.n, body)]
      BY <1>7 DEF WriteFrame
    <3> QED
      BY <2>3, <3>1, <3>2 DEF TypeOK, Tables
  <2>5. seen' \in SUBSET (Paths \X Versions)
    BY <1>7, <2>1 DEF WriteFrame, TypeOK
  <2> QED
    BY <1>7, <2>4, <2>5 DEF WriteFrame, TypeOK
<1>8. CASE RecordDoc
  <2>1. CASE FileVanished
    BY <1>8, <2>1, EndRunTyped DEF FileVanished, TypeOK
  <2>2. CASE ~FileVanished
    <3>1. newCur' \in Cursors
      <4> DEFINE e == [h |-> fp, mt |-> disk[cur].mt]
      <4>1. e \in [h : 0 .. MaxVersion, mt : 0 .. MaxVersion]
        BY <1>8, Components DEF RecordDoc, TypeOK
      <4>2. newCur' = [newCur EXCEPT ![cur] = e]
        BY <1>8, <2>2 DEF RecordDoc
      <4>3. newCur \in Cursors
        BY DEF TypeOK
      <4> HIDE DEF e
      <4> QED
        BY <4>1, <4>2, <4>3, UpdateTyped DEF Cursors
    <3> QED
      <4>1. /\ pc' = "next" /\ docs' = docs + 1
            /\ UNCHANGED <<disk, clock, chunks, edges, cursorFile, base, todo,
                           cur, fp, body, ix, limit, dels, seen, result, quiet,
                           faults>>
        BY <1>8, <2>2 DEF RecordDoc
      <4> QED
        BY <3>1, <4>1 DEF TypeOK
  <2> QED
    BY <2>1, <2>2
<1>9. CASE ScanDone
  BY <1>9 DEF ScanDone, TypeOK
<1>10. CASE EndLoop
  BY <1>10 DEF EndLoop, TypeOK
<1>11. CASE PruneGlob
  <2>1. dels' \in SUBSET RawIds
    BY <1>11, IdsAssumption DEF PruneGlob
  <2> QED
    BY <1>11, <2>1 DEF PruneGlob, TypeOK
<1>12. CASE PruneOne
  <2>1. chunks' \in Tables /\ dels' \in SUBSET RawIds
    BY <1>12, InitialValues DEF PruneOne, TypeOK, Tables
  <2> QED
    BY <1>12, <2>1 DEF PruneOne, TypeOK
<1>13. CASE PruneDone
  BY <1>13 DEF PruneDone, TypeOK
<1>14. CASE Trim
  <2>1. newCur' \in Cursors
    BY <1>14, BoundsAssumption DEF Trim, TypeOK, Cursors, NoEntry
  <2> QED
    BY <1>14, <2>1 DEF Trim, TypeOK
<1>15. CASE Save
  BY <1>15 DEF Save, TypeOK
<1>16. CASE Finalize
  <2>1. edges' \in SUBSET (Paths \X Paths) /\ faults' \in 0 .. MaxFaults
    BY <1>16 DEF Finalize, TypeOK, Resolved
  <2> QED
    BY <1>16, <2>1, EndRunTyped DEF Finalize
<1>17. CASE Raise
  <2>1. faults' \in 0 .. MaxFaults
    BY <1>17 DEF Raise, TypeOK
  <2> QED
    BY <1>17, <2>1, EndRunTyped DEF Raise, TypeOK
<1>18. CASE Crash
  <2>1. faults' \in 0 .. MaxFaults
    BY <1>18 DEF Crash, TypeOK
  <2> QED
    BY <1>18, <2>1, EndRunTyped DEF Crash, TypeOK
<1>19. CASE User
  <2>1. ASSUME NEW p \in Paths, NEW v \in 1 .. MaxVersion, PutFile(p, v)
        PROVE  TypeOK'
    <3>1. clock' \in 0 .. MaxVersion /\ clock + 1 \in 0 .. MaxVersion
      BY <2>1 DEF PutFile, TypeOK
    <3>2. disk' \in Disks
      BY <2>1, <3>1 DEF PutFile, TypeOK, Disks
    <3> QED
      BY <2>1, <3>1, <3>2 DEF PutFile, TypeOK
  <2>2. ASSUME NEW p \in Paths, Edit(p)
        PROVE  TypeOK'
    <3>1. clock + 1 \in 1 .. MaxVersion
      BY <2>2 DEF Edit, PutFile, TypeOK
    <3> QED
      BY <2>1, <2>2, <3>1 DEF Edit
  <2>3. ASSUME NEW p \in Paths, Restore(p)
        PROVE  TypeOK'
    BY <2>1, <2>3 DEF Restore, TypeOK
  <2>4. ASSUME NEW p \in Paths, Delete(p)
        PROVE  TypeOK'
    <3>1. disk' \in Disks
      BY <2>4, BoundsAssumption DEF Delete, TypeOK, Disks, NoFile
    <3> QED
      BY <2>4, <3>1 DEF Delete, TypeOK
  <2> QED
    BY <1>19, <2>2, <2>3, <2>4 DEF User
<1>20. CASE UNCHANGED vars
  BY <1>20 DEF vars, TypeOK
<1> QED
  BY <1>1, <1>2, <1>3, <1>4, <1>5, <1>6, <1>7, <1>8, <1>9, <1>10, <1>11,
     <1>12, <1>13, <1>14, <1>15, <1>16, <1>17, <1>18, <1>19, <1>20
     DEF Next, RunStep

\* Every variable keeps its type.
THEOREM Typing == Spec => []TypeOK
  BY TypeInit, TypeStep, PTL DEF Spec

-----------------------------------------------------------------------------
(* What a write or a delete of one framed document does to the table.      *)

\* Changing a document of q leaves the documents of every other path alone.
LEMMA OtherPath ==
    ASSUME SafeConfig, NEW t \in Tables, NEW p \in Paths, NEW q \in Paths,
           p # q, NEW k, NEW r, NEW v, NEW u,
           u = [t EXCEPT ![<<IdOf[q], k>>] = r]
    PROVE  /\ v \in Versions => (Held(u, p, v) <=> Held(t, p, v))
           /\ NoRow(u, p, v) <=> NoRow(t, p, v)
<1>1. IdOf[p] # IdOf[q] /\ IdOf[p] \in RawIds
  BY IdsAssumption DEF SafeConfig
<1>2. \A key \in Keys : u[<<IdOf[p], key>>] = t[<<IdOf[p], key>>]
  BY <1>1 DEF Tables, DocKeys
<1>3. ASSUME v \in Versions
      PROVE  Held(u, p, v) <=> Held(t, p, v)
  BY <1>2, <1>3, FrameTyped DEF Held, FrameHeld
<1> QED
  BY <1>2, <1>3 DEF NoRow

\* Table t once write_document has stored document i of content v, read from p.
WithFrame(t, p, v, i) ==
    [t EXCEPT ![<<IdOf[p], Frames[v][i].key>>] = Written(@, Frames[v][i].n, v)]

\* Writing document i of content v: its chunks are there, the other documents
\* of v stay, and every row is an old one, empty, or of content v.
LEMMA WriteEffect ==
    ASSUME NEW t \in Tables, NEW p \in Paths, NEW v \in Versions,
           NEW i \in DOMAIN Frames[v], NEW u, u = WithFrame(t, p, v, i)
    PROVE  /\ FrameHeld(u, p, v, i)
           /\ \A j \in DOMAIN Frames[v] :
                 FrameHeld(t, p, v, j) => FrameHeld(u, p, v, j)
           /\ \A d \in DocKeys, s \in Seqs : u[d][s] \in {t[d][s], 0, v}
<1> DEFINE d0 == <<IdOf[p], Frames[v][i].key>>
           n == Frames[v][i].n
<1>1. d0 \in DocKeys /\ n \in 0 .. MaxChunks
  BY FrameTyped, IdsAssumption DEF DocKeys
<1>2. t[d0] \in Docs
  BY <1>1 DEF Tables
<1>3. u[d0] = Written(t[d0], n, v)
  BY <1>1 DEF Tables, WithFrame
<1>4. \A d \in DocKeys : d # d0 => u[d] = t[d]
  BY DEF Tables, WithFrame
<1>5. \A s \in 0 .. n - 1 : u[d0][s] = v
  BY <1>1, <1>3, BoundsAssumption DEF Written, Seqs
<1>6. FrameHeld(u, p, v, i)
  BY <1>5 DEF FrameHeld
<1>7. ASSUME NEW j \in DOMAIN Frames[v], j # i, FrameHeld(t, p, v, j)
      PROVE  FrameHeld(u, p, v, j)
  <2> DEFINE dj == <<IdOf[p], Frames[v][j].key>>
  <2>1. Frames[v][j].key # Frames[v][i].key
    BY <1>7, FramesAssumption
  <2>2. dj \in DocKeys /\ dj # d0
    BY <2>1, FrameTyped, IdsAssumption DEF DocKeys
  <2> QED
    BY <1>4, <1>7, <2>2 DEF FrameHeld
<1>8. \A s \in Seqs : u[d0][s] \in {t[d0][s], 0, v}
  BY <1>3 DEF Written
<1> QED
  BY <1>4, <1>6, <1>7, <1>8

\* Emptying a document brings no content into the table.
LEMMA DeleteEffect ==
    ASSUME NEW t \in Tables, NEW id \in RawIds, NEW u,
           u = [t EXCEPT ![<<id, Whole>>] = EmptyDoc]
    PROVE  \A d \in DocKeys, s \in Seqs : u[d][s] \in {t[d][s], 0}
<1>1. \A d \in DocKeys : u[d] = t[d] \/ u[d] = EmptyDoc
  BY DEF Tables
<1> QED
  BY <1>1 DEF EmptyDoc

\* Content that has no row gets none from rows that are old, empty or of
\* another content.
LEMMA NoRowKept ==
    ASSUME NEW t, NEW u, NEW p \in Paths, NEW v, NEW w, w # 0, w # v,
           NoRow(t, p, w),
           \A d \in DocKeys, s \in Seqs : u[d][s] \in {t[d][s], 0, v}
    PROVE  NoRow(u, p, w)
<1>1. \A k \in Keys : <<IdOf[p], k>> \in DocKeys
  BY IdsAssumption DEF DocKeys
<1> QED
  BY <1>1 DEF NoRow

\* Content without rows that is nevertheless held has no chunks, and is held
\* by any table.
LEMMA HeldWithoutRows ==
    ASSUME NEW t, NEW u, NEW p \in Paths, NEW v \in Versions,
           NoRow(t, p, v), Held(t, p, v)
    PROVE  Held(u, p, v)
<1> SUFFICES ASSUME NEW i \in DOMAIN Frames[v], NEW s \in 0 .. Frames[v][i].n - 1
             PROVE  FALSE
  BY DEF Held, FrameHeld
<1>1. Frames[v][i].key \in Keys /\ Frames[v][i].n \in 0 .. MaxChunks
  BY FrameTyped
<1>2. s \in Seqs
  BY <1>1, BoundsAssumption DEF Seqs
<1>3. t[<<IdOf[p], Frames[v][i].key>>][s] = v
  BY DEF Held, FrameHeld
<1> QED
  BY <1>1, <1>2, <1>3 DEF NoRow

-----------------------------------------------------------------------------
(* The invariant.                                                          *)

LEMMA CursorInit == Init => CursorInv
<1> SUFFICES ASSUME Init PROVE CursorInv
  OBVIOUS
<1>1. TypeOK
  BY TypeInit
<1>2. \A p \in Paths : cursorFile[p].h = 0 /\ newCur[p].h = 0
  BY DEF Init, NoCursor, NoEntry
<1>3. Known
  BY <1>2 DEF Init, Known, NoFile, EmptyDoc
<1>4. Loaded
  BY DEF Init, Loaded, InFlight
<1>5. Vouched
  BY <1>2 DEF Vouched, Current
<1>6. Ingesting /\ Pruning
  BY DEF Init, Ingesting, Pruning
<1> QED
  BY <1>1, <1>3, <1>4, <1>5, <1>6 DEF CursorInv

\* A run that ends without touching files, rows or the cursor file.
LEMMA EndRunKeeps ==
    ASSUME CursorInv, TypeOK', NEW how, EndRun(how),
           UNCHANGED <<disk, clock, chunks, cursorFile>>
    PROVE  CursorInv'
<1> USE DEF CursorInv
<1>1. \A p \in Paths : newCur'[p].h = 0
  BY DEF EndRun, NoCursor, NoEntry
<1>2. clock \in Nat
  BY BoundsAssumption DEF TypeOK
<1>3. Known'
  BY <1>1, <1>2 DEF Known, EndRun
<1>4. Loaded'
  BY DEF Loaded, EndRun, InFlight
<1>5. Vouched'
  BY <1>1 DEF Vouched, Current
<1>6. Ingesting' /\ Pruning'
  BY DEF Ingesting, Pruning, EndRun
<1> QED
  BY <1>3, <1>4, <1>5, <1>6

\* The users: a new content is one that no cursor, hash or row knows.
LEMMA PutFileKeeps ==
    ASSUME CursorInv, TypeOK', NEW p \in Paths, PutFile(p, clock + 1)
    PROVE  CursorInv'
<1> USE DEF CursorInv
<1>1. /\ UNCHANGED <<chunks, cursorFile, pc, base, newCur, todo, cur, fp, body,
                     ix, dels>>
      /\ clock' = clock + 1
  BY DEF PutFile
<1>2. /\ disk'[p].ver = clock + 1
      /\ \A q \in Paths : q # p => disk'[q] = disk[q]
  BY DEF PutFile, TypeOK, Disks
<1>3. /\ clock \in Nat
      /\ \A q \in Paths : /\ disk[q].ver \in Nat
                          /\ cursorFile[q].h \in Nat
                          /\ newCur[q].h \in Nat
      /\ fp \in Nat /\ body \in Nat
      /\ \A d \in DocKeys, s \in Seqs : chunks[d][s] \in Nat
  BY Components, BoundsAssumption DEF TypeOK, Docs
<1>4. Known'
  BY <1>1, <1>2, <1>3 DEF Known
<1>5. Loaded'
  BY <1>1 DEF Loaded, InFlight
<1>6. NoRow(chunks, p, clock + 1)
  <2>1. \A k \in Keys : <<IdOf[p], k>> \in DocKeys
    BY IdsAssumption DEF DocKeys
  <2> QED
    BY <1>3, <2>1 DEF NoRow, Known
<1>7. cursorFile[p].h # clock + 1 /\ newCur[p].h # clock + 1
  BY <1>3 DEF Known
<1>8. Vouched'
  BY <1>1, <1>2, <1>7 DEF Vouched, Current
<1>9. Ingesting'
  <2>1. ASSUME pc \in {"parse", "frame"}
        PROVE  fp # 0 /\ ~ (base[cur].h # 0 /\ base[cur].h = disk'[cur].ver)
    <3>1. cur \in Paths /\ base = cursorFile
      BY <2>1 DEF TypeOK, Loaded
    <3> QED
      BY <1>2, <1>7, <2>1, <3>1 DEF Ingesting, Current
  <2>2. ASSUME pc = "frame"
        PROVE  /\ disk'[cur].ver = fp => body = fp
               /\ disk'[cur].ver \in {0, body} \/ NoRow(chunks, cur, disk'[cur].ver)
    <3>1. cur \in Paths
      BY <2>2 DEF TypeOK
    <3>2. fp # clock + 1
      BY <1>3 DEF Known
    <3> QED
      BY <1>2, <1>6, <2>2, <3>1, <3>2 DEF Ingesting
  <2> QED
    BY <1>1, <2>1, <2>2 DEF Ingesting, Current
<1>10. Pruning'
  BY <1>1, <1>2, <1>6, <1>7 DEF Pruning, Current
<1> QED
  BY <1>4, <1>5, <1>8, <1>9, <1>10

LEMMA DeleteKeeps ==
    ASSUME CursorInv, TypeOK', NEW p \in Paths, Delete(p)
    PROVE  CursorInv'
<1> USE DEF CursorInv
<1>1. UNCHANGED <<clock, chunks, cursorFile, pc, base, newCur, todo, cur, fp,
                  body, ix, dels>>
  BY DEF Delete
<1>2. /\ disk'[p].ver = 0
      /\ \A q \in Paths : q # p => disk'[q] = disk[q]
  BY DEF Delete, TypeOK, Disks, NoFile
<1>3. clock \in Nat
  BY DEF TypeOK
<1>4. Known'
  BY <1>1, <1>2, <1>3 DEF Known
<1>5. Loaded'
  BY <1>1 DEF Loaded, InFlight
<1>6. Vouched'
  BY <1>1, <1>2 DEF Vouched, Current
<1>7. Ingesting'
  <2>1. pc \in {"parse", "frame"} => cur \in Paths
    BY DEF TypeOK
  <2>2. pc \in {"parse", "frame"} =>
            fp # 0 /\ ~ (base[cur].h # 0 /\ base[cur].h = disk'[cur].ver)
    BY <1>2, <2>1 DEF Ingesting, Current
  <2>3. pc = "frame" =>
            /\ disk'[cur].ver = fp => body = fp
            /\ disk'[cur].ver \in {0, body} \/ NoRow(chunks, cur, disk'[cur].ver)
    BY <1>2, <2>1, <2>2 DEF Ingesting
  <2> QED
    BY <1>1, <2>2, <2>3 DEF Ingesting, Current
<1>8. Pruning'
  BY <1>1, <1>2 DEF Pruning, Current
<1> QED
  BY <1>4, <1>5, <1>6, <1>7, <1>8

\* Writing one framed document of the file in flight.
LEMMA WriteFrameKeeps ==
    ASSUME SafeConfig, CursorInv, TypeOK', WriteFrame
    PROVE  CursorInv'
<1> USE DEF CursorInv
<1> DEFINE f == Frames[body][ix]
           d0 == <<IdOf[cur], f.key>>
<1>1. /\ pc = "frame" /\ pc' = "frame" /\ ix <= Len(Frames[body])
      /\ ix' = ix + 1
      /\ UNCHANGED <<disk, clock, cursorFile, base, newCur, todo, cur, fp,
                     body, dels>>
  BY DEF WriteFrame
<1>2. cur \in Paths /\ body \in Versions /\ ix \in Nat \ {0}
  BY <1>1 DEF TypeOK
<1>3. ix \in DOMAIN Frames[body]
  BY <1>1, <1>2, FrameIndex
<1>4. chunks \in Tables /\ clock \in Nat /\ body <= clock
  BY DEF TypeOK, Known
<1>5. \/ f.n = 0 /\ chunks' = chunks
      \/ chunks' = [chunks EXCEPT ![d0] = Written(@, f.n, body)]
  BY DEF WriteFrame
<1>6. /\ FrameHeld(chunks', cur, body, ix)
      /\ \A j \in DOMAIN Frames[body] :
            FrameHeld(chunks, cur, body, j) => FrameHeld(chunks', cur, body, j)
      /\ \A d \in DocKeys, s \in Seqs : chunks'[d][s] \in {chunks[d][s], 0, body}
  <2>1. CASE f.n = 0 /\ chunks' = chunks
    BY <2>1 DEF FrameHeld
  <2>2. CASE chunks' = [chunks EXCEPT ![d0] = Written(@, f.n, body)]
    <3>1. chunks' = WithFrame(chunks, cur, body, ix)
      BY <2>2 DEF WithFrame
    <3> HIDE DEF CursorInv
    <3> QED
      BY <1>2, <1>3, <1>4, <3>1, WriteEffect
  <2> QED
    BY <1>5, <2>1, <2>2
<1>7. \A p \in Paths : p # cur =>
          \A v \in Versions : Held(chunks', p, v) <=> Held(chunks, p, v)
  BY <1>2, <1>4, <1>5, OtherPath
<1>8. ~ Current(cur, cursorFile[cur]) /\ ~ Current(cur, newCur[cur])
  BY <1>1 DEF Loaded, Ingesting, InFlight
<1>9. Known'
  BY <1>1, <1>4, <1>6 DEF Known
<1>10. Loaded'
  BY <1>1 DEF Loaded, InFlight
<1>11. Vouched'
  <2> SUFFICES ASSUME NEW p \in Paths
               PROVE  /\ Current(p, cursorFile[p]) => Held(chunks', p, cursorFile[p].h)
                      /\ Current(p, newCur[p]) => Held(chunks', p, newCur[p].h)
    BY <1>1 DEF Vouched, Current
  <2>1. CASE p = cur
    BY <1>8, <2>1
  <2>2. CASE p # cur
    <3>1. /\ cursorFile[p].h # 0 => cursorFile[p].h \in Versions
          /\ newCur[p].h # 0 => newCur[p].h \in Versions
      BY Components, BoundsAssumption
    <3> QED
      BY <1>7, <2>2, <3>1 DEF Vouched, Current
  <2> QED
    BY <2>1, <2>2
<1>12. Ingesting'
  <2>1. \A i \in 1 .. ix' - 1 : FrameHeld(chunks', cur, body, i)
    <3> SUFFICES ASSUME NEW i \in 1 .. ix PROVE FrameHeld(chunks', cur, body, i)
      BY <1>1, <1>2
    <3>1. i \in DOMAIN Frames[body]
      BY <1>1, <1>2, FrameIndex
    <3>2. CASE i = ix
      BY <1>6, <3>2
    <3>3. CASE i # ix
      <4>1. i \in 1 .. ix - 1
        BY <1>2, <3>3
      <4> QED
        BY <1>1, <1>6, <3>1, <4>1 DEF Ingesting
    <3> QED
      BY <3>2, <3>3
  <2>2. disk[cur].ver \in {0, body} \/ NoRow(chunks', cur, disk[cur].ver)
    <3>1. CASE disk[cur].ver \in {0, body}
      BY <3>1
    <3>2. CASE disk[cur].ver \notin {0, body}
      <4>1. NoRow(chunks, cur, disk[cur].ver)
        BY <1>1, <3>2 DEF Ingesting
      <4> QED
        BY <1>2, <1>6, <3>2, <4>1, NoRowKept
    <3> QED
      BY <3>1, <3>2
  <2>3. ix' <= Len(Frames[body]) + 1
    BY <1>1, <1>2, FrameIndex
  <2> QED
    BY <1>1, <2>1, <2>2, <2>3 DEF Ingesting, Current
<1>13. Pruning'
  BY <1>1 DEF Pruning
<1> QED
  BY <1>9, <1>10, <1>11, <1>12, <1>13

\* The cursor entry of a document whose every frame has been written.
LEMMA RecordDocKeeps ==
    ASSUME SafeConfig, CursorInv, TypeOK', RecordDoc, disk[cur].ver # 0
    PROVE  CursorInv'
<1> USE DEF CursorInv
<1>1. /\ pc = "frame" /\ pc' = "next" /\ ix > Len(Frames[body])
      /\ newCur' = [newCur EXCEPT ![cur] = [h |-> fp, mt |-> disk[cur].mt]]
      /\ UNCHANGED <<disk, clock, chunks, cursorFile, base, todo, cur, fp,
                     body, ix, dels>>
  BY DEF RecordDoc
<1>2. cur \in Paths /\ body \in Versions /\ ix \in Nat \ {0}
  BY <1>1 DEF TypeOK
<1>3. /\ newCur'[cur].h = fp
      /\ \A p \in Paths : p # cur => newCur'[p] = newCur[p]
  BY <1>1, <1>2 DEF TypeOK, Cursors
<1>4. Known'
  BY <1>1, <1>3 DEF Known
<1>5. Loaded'
  BY <1>1, <1>2, <1>3 DEF Loaded, InFlight, TypeOK
<1>6. disk[cur].ver = fp => Held(chunks, cur, fp)
  <2> SUFFICES ASSUME disk[cur].ver = fp PROVE Held(chunks, cur, body) /\ body = fp
    OBVIOUS
  <2>1. body = fp
    BY <1>1 DEF Ingesting
  <2>2. DOMAIN Frames[body] \subseteq 1 .. ix - 1
    BY <1>1, <1>2, FrameIndex
  <2> QED
    BY <1>1, <2>1, <2>2 DEF Ingesting, Held
<1>7. Vouched'
  BY <1>1, <1>2, <1>3, <1>6 DEF Vouched, Current
<1>8. Ingesting' /\ Pruning'
  BY <1>1 DEF Ingesting, Pruning
<1> QED
  BY <1>4, <1>5, <1>7, <1>8

\* One deletion of the prune phase.
LEMMA PruneOneKeeps ==
    ASSUME SafeConfig, CursorInv, TypeOK', PruneOne
    PROVE  CursorInv'
<1> USE DEF CursorInv
<1>1. PICK id \in dels : /\ dels' = dels \ {id}
                         /\ chunks' = [chunks EXCEPT ![<<id, Whole>>] = EmptyDoc]
  BY DEF PruneOne
<1>2. /\ pc = "prune" /\ pc' = "prune"
      /\ UNCHANGED <<disk, clock, cursorFile, base, newCur, todo, cur, fp,
                     body, ix>>
  BY DEF PruneOne
<1>3. id \in RawIds /\ chunks \in Tables /\ clock \in Nat
  BY <1>1 DEF TypeOK
<1>4. \A d \in DocKeys, s \in Seqs : chunks'[d][s] \in {chunks[d][s], 0}
  BY <1>1, <1>3, DeleteEffect
<1>5. Known'
  BY <1>2, <1>3, <1>4 DEF Known
<1>6. Loaded'
  BY <1>2 DEF Loaded, InFlight
<1>7. Vouched'
  <2> SUFFICES ASSUME NEW p \in Paths
               PROVE  /\ Current(p, cursorFile[p]) => Held(chunks', p, cursorFile[p].h)
                      /\ Current(p, newCur[p]) => Held(chunks', p, newCur[p].h)
    BY <1>2 DEF Vouched, Current
  <2>1. CASE IdOf[p] = id
    BY <1>1, <1>2, <2>1 DEF Pruning, Current
  <2>2. CASE IdOf[p] # id
    <3>1. \A k \in Keys : chunks'[<<IdOf[p], k>>] = chunks[<<IdOf[p], k>>]
      BY <1>1, <1>3, <2>2, IdsAssumption DEF Tables, DocKeys
    <3>2. \A v \in Versions : Held(chunks, p, v) => Held(chunks', p, v)
      BY <3>1, FrameTyped DEF Held, FrameHeld
    <3>3. /\ cursorFile[p].h # 0 => cursorFile[p].h \in Versions
          /\ newCur[p].h # 0 => newCur[p].h \in Versions
      BY Components, BoundsAssumption
    <3> QED
      BY <3>2, <3>3 DEF Vouched, Current
  <2> QED
    BY <2>1, <2>2
<1>8. Ingesting'
  BY <1>2 DEF Ingesting
<1>9. Pruning'
  <2> SUFFICES ASSUME NEW p \in Paths, IdOf[p] \in dels', disk[p].ver # 0
               PROVE  /\ ~Current(p, cursorFile[p]) /\ ~Current(p, newCur[p])
                      /\ NoRow(chunks', p, disk[p].ver)
    BY <1>2 DEF Pruning, Current
  <2>1. /\ ~Current(p, cursorFile[p]) /\ ~Current(p, newCur[p])
        /\ NoRow(chunks, p, disk[p].ver)
    BY <1>1, <1>2 DEF Pruning
  <2>2. \A k \in Keys : <<IdOf[p], k>> \in DocKeys
    BY IdsAssumption DEF DocKeys
  <2> QED
    BY <1>4, <2>1, <2>2 DEF NoRow
<1> QED
  BY <1>5, <1>6, <1>7, <1>8, <1>9

\* Steps that move entries from one cursor to the other, or drop them, and
\* leave files and rows alone.
LEMMA EntriesKept ==
    ASSUME CursorInv, UNCHANGED <<disk, clock, chunks>>,
           fp' <= clock, body' <= clock,
           \A p \in Paths : /\ cursorFile'[p].h \in {0, cursorFile[p].h, newCur[p].h}
                            /\ newCur'[p].h \in {0, cursorFile[p].h, newCur[p].h}
    PROVE  Known' /\ Vouched'
<1> USE DEF CursorInv
<1>1. clock \in Nat
  BY BoundsAssumption DEF TypeOK
<1>2. Known'
  BY <1>1 DEF Known
<1>3. Vouched'
  BY DEF Vouched, Current
<1> QED
  BY <1>2, <1>3

\* Steps of the scan up to the point where a document is framed.
LEMMA ScanKeeps ==
    ASSUME SafeConfig, CursorInv, TypeOK', StatNext \/ ReadBytes \/ Parse,
           ~FileVanished
    PROVE  CursorInv'
<1> USE DEF CursorInv
<1>1. UNCHANGED <<disk, clock, chunks, cursorFile, base, newCur, dels>>
  BY DEF StatNext, ReadBytes, Parse
<1>2. pc' \notin {"create", "glob", "prune", "idle", "finalize"} /\ pc \in {"next", "read", "parse"}
  BY SwitchesAssumption DEF StatNext, ReadBytes, Parse
<1>3. fp' <= clock /\ body' <= clock
  <2>1. \A p \in Paths : disk[p].ver <= clock
    BY DEF Known
  <2>2. fp <= clock /\ body <= clock
    BY DEF Known
  <2>3. fp' = fp \/ (cur \in Paths /\ fp' = disk[cur].ver)
    BY DEF StatNext, ReadBytes, Parse, TypeOK
  <2>4. body' = body \/ (cur \in Paths /\ body' = disk[cur].ver)
    BY DEF StatNext, ReadBytes, Parse, TypeOK
  <2> QED
    BY <2>1, <2>2, <2>3, <2>4
<1>4. Known' /\ Vouched'
  BY <1>1, <1>3, EntriesKept
<1>5. Pruning'
  BY <1>1, <1>2 DEF Pruning
<1>6. CASE StatNext
  <2>1. todo \in SUBSET Paths /\ todo # {} /\ pc = "next"
    BY <1>6 DEF StatNext, TypeOK
  <2>2. /\ cur' = FirstPath(todo) /\ todo' = todo \ {cur'}
        /\ pc' \in {"next", "read"}
    BY <1>6 DEF StatNext
  <2>3. cur' \in todo
    BY <2>1, <2>2, FirstPathInSet
  <2>4. Loaded'
    BY <1>1, <2>1, <2>2, <2>3 DEF Loaded, InFlight
  <2>5. Ingesting'
    BY <2>2 DEF Ingesting
  <2> QED
    BY <1>4, <1>5, <2>4, <2>5
<1>7. CASE ReadBytes
  <2>1. /\ UNCHANGED <<cur, todo, ix, body>> /\ pc = "read"
        /\ pc' \in {"next", "parse"}
        /\ pc' = "parse" => fp' = disk[cur].ver /\ fp' # 0 /\ ~Current(cur, base[cur])
    BY <1>7 DEF ReadBytes, HashMatches, Current
  <2>2. Loaded'
    BY <1>1, <2>1 DEF Loaded, InFlight
  <2>3. Ingesting'
    BY <1>1, <2>1 DEF Ingesting, Current
  <2> QED
    BY <1>4, <1>5, <2>2, <2>3
<1>8. CASE Parse
  <2>1. /\ UNCHANGED <<cur, todo, fp>> /\ pc = "parse"
        /\ pc' \in {"end", "frame"}
        /\ body' = disk[cur].ver /\ ix' = 1
    BY <1>8 DEF Parse
  <2>2. Loaded'
    BY <1>1, <2>1 DEF Loaded, InFlight
  <2>3. pc' = "frame" => ix' <= Len(Frames[body']) + 1
    <3> SUFFICES ASSUME pc' = "frame" PROVE ix' <= Len(Frames[body']) + 1
      OBVIOUS
    <3>1. body' \in Versions
      BY DEF TypeOK
    <3> QED
      BY <2>1, <3>1, FrameIndex
  <2>4. Ingesting'
    BY <1>1, <2>1, <2>3 DEF Ingesting, Current
  <2> QED
    BY <1>4, <1>5, <2>2, <2>4
<1> QED
  BY <1>6, <1>7, <1>8

LEMMA CursorStep == SafeConfig /\ CursorInv /\ [Next]_vars => CursorInv'
<1> SUFFICES ASSUME SafeConfig, CursorInv, [Next]_vars
             PROVE  CursorInv'
  OBVIOUS
<1>1. TypeOK'
  BY TypeStep DEF CursorInv
<1>2. fp <= clock /\ body <= clock
  BY DEF CursorInv, Known
<1>3. CASE Start
  <2>1. Known' /\ Vouched'
    BY <1>2, <1>3, EntriesKept DEF Start
  <2>2. Loaded' /\ Ingesting' /\ Pruning'
    BY <1>3 DEF Start, Loaded, Ingesting, Pruning, InFlight
  <2> QED
    BY <1>1, <2>1, <2>2 DEF CursorInv
<1>4. CASE CreateTable
  <2>1. chunks' = chunks
    BY <1>4 DEF CreateTable, SafeConfig
  <2>2. Known' /\ Vouched'
    BY <1>2, <1>4, <2>1, EntriesKept DEF CreateTable
  <2>3. Loaded' /\ Ingesting' /\ Pruning'
    BY <1>4 DEF CreateTable, Loaded, Ingesting, Pruning, InFlight, CursorInv
  <2> QED
    BY <1>1, <2>2, <2>3 DEF CursorInv
<1>5. CASE Glob
  <2>1. Known' /\ Vouched'
    BY <1>2, <1>5, EntriesKept DEF Glob
  <2>2. Loaded' /\ Ingesting' /\ Pruning'
    BY <1>1, <1>5 DEF Glob, Loaded, Ingesting, Pruning, InFlight, CursorInv, TypeOK
  <2> QED
    BY <1>1, <2>1, <2>2 DEF CursorInv
<1>6. CASE FileVanished
  BY <1>1, <1>6, EndRunKeeps DEF FileVanished
<1>7. CASE (StatNext \/ ReadBytes \/ Parse) /\ ~FileVanished
  BY <1>1, <1>7, ScanKeeps
<1>8. CASE WriteFrame
  BY <1>1, <1>8, WriteFrameKeeps
<1>9. CASE RecordDoc /\ ~FileVanished
  BY <1>1, <1>9, RecordDocKeeps DEF RecordDoc
<1>10. CASE ScanDone \/ EndLoop \/ PruneDone
  <2>1. Known' /\ Vouched'
    BY <1>2, <1>10, EntriesKept DEF ScanDone, EndLoop, PruneDone
  <2>2. Loaded' /\ Ingesting' /\ Pruning'
    BY <1>10 DEF ScanDone, EndLoop, PruneDone, Loaded, Ingesting, Pruning,
                 InFlight, CursorInv
  <2> QED
    BY <1>1, <2>1, <2>2 DEF CursorInv
<1>11. CASE PruneGlob
  <2>1. Known' /\ Vouched'
    BY <1>2, <1>11, EntriesKept DEF PruneGlob
  <2>2. Loaded' /\ Ingesting'
    BY <1>11 DEF PruneGlob, Loaded, Ingesting, InFlight, CursorInv
  <2>3. \A p \in Paths : IdOf[p] \in dels' => disk'[p].ver = 0
    BY <1>11 DEF PruneGlob, SafeConfig, CurrentPaths
  <2> QED
    BY <1>1, <2>1, <2>2, <2>3 DEF CursorInv, Pruning
<1>12. CASE PruneOne
  BY <1>1, <1>12, PruneOneKeeps
<1>13. CASE Trim
  <2>1. \A p \in Paths : newCur'[p].h \in {0, newCur[p].h}
    BY <1>13 DEF Trim, NoEntry
  <2>2. Known' /\ Vouched'
    BY <1>2, <1>13, <2>1, EntriesKept DEF Trim
  <2>3. Loaded' /\ Ingesting' /\ Pruning'
    BY <1>13 DEF Trim, Loaded, Ingesting, Pruning, InFlight, CursorInv
  <2> QED
    BY <1>1, <2>2, <2>3 DEF CursorInv
<1>14. CASE Save
  <2>1. Known' /\ Vouched'
    BY <1>2, <1>14, EntriesKept DEF Save
  <2>2. Loaded' /\ Ingesting' /\ Pruning'
    BY <1>14 DEF Save, Loaded, Ingesting, Pruning, InFlight
  <2> QED
    BY <1>1, <2>1, <2>2 DEF CursorInv
<1>15. CASE Finalize \/ Raise \/ Crash
  BY <1>1, <1>15, EndRunKeeps DEF Finalize, Raise, Crash
<1>16. CASE User
  BY <1>1, <1>16, PutFileKeeps, DeleteKeeps DEF User, Edit, Restore, SafeConfig
<1>17. CASE UNCHANGED vars
  BY <1>17
  DEF vars, CursorInv, TypeOK, Known, Loaded, Vouched, Ingesting, Pruning,
      Current, InFlight
<1> QED
  BY <1>3, <1>4, <1>5, <1>6, <1>7, <1>8, <1>9, <1>10, <1>11, <1>12, <1>13,
     <1>14, <1>15, <1>16, <1>17 DEF Next, RunStep

-----------------------------------------------------------------------------
(* What follows for every execution of such a cell.                        *)

\* The inductive invariant of a cell that keeps its table and detects changes
\* by hash, over a directory where no old content comes back.
THEOREM Invariance == ASSUME SafeConfig PROVE Spec => []CursorInv
<1>1. SafeConfig
  OBVIOUS
<1>2. CursorInv /\ [Next]_vars => CursorInv'
  BY <1>1, CursorStep
<1> QED
  BY <1>2, CursorInit, PTL DEF Spec

\* Whatever happens, a file the next run would pass over as unchanged has all
\* chunks of its content in the table.
THEOREM SkippedFilesAreIngested ==
    ASSUME SafeConfig PROVE Spec => []SkippedIsIngested
<1>1. CursorInv => SkippedIsIngested
  BY DEF SafeConfig, CursorInv, Vouched, Current, SkippedIsIngested, WouldSkip,
         StatMatches, HashMatches
<1> QED
  BY <1>1, Invariance, PTL

\* Content of a file that is in the table stays in it while the file has it.
THEOREM IngestedContentStays ==
    ASSUME SafeConfig PROVE Spec => SyncedStaysSynced
<1> DEFINE Kept ==
        \A p \in Paths :
            /\ disk[p].ver # 0
            /\ disk'[p] = disk[p]
            /\ Held(chunks, p, disk[p].ver)
            => Held(chunks', p, disk[p].ver)
<1>1. SafeConfig
  OBVIOUS
<1>2. CursorInv /\ [Next]_vars => Kept
  <2> SUFFICES ASSUME CursorInv, [Next]_vars, NEW p \in Paths, disk[p].ver # 0,
                      Held(chunks, p, disk[p].ver)
               PROVE  Held(chunks', p, disk[p].ver)
    OBVIOUS
  <2>1. CASE chunks' = chunks
    BY <2>1
  <2>2. disk[p].ver \in Versions
    BY Components, BoundsAssumption DEF CursorInv
  <2>3. CASE WriteFrame
    <3>1. /\ pc = "frame" /\ ix <= Len(Frames[body]) /\ cur \in Paths
          /\ body \in Versions /\ ix \in Nat \ {0} /\ chunks \in Tables
      BY <2>3 DEF WriteFrame, CursorInv, TypeOK
    <3>2. ix \in DOMAIN Frames[body]
      BY <3>1, FrameIndex
    <3>3. chunks' = chunks \/ chunks' = WithFrame(chunks, cur, body, ix)
      BY <2>3 DEF WriteFrame, WithFrame
    <3>4. CASE p # cur
      <4> DEFINE k == Frames[body][ix].key
                 r == Written(chunks[<<IdOf[cur], k>>], Frames[body][ix].n, body)
      <4>1. chunks' = chunks \/ chunks' = [chunks EXCEPT ![<<IdOf[cur], k>>] = r]
        BY <3>3 DEF WithFrame
      <4>2. p \in Paths /\ p # cur /\ chunks \in Tables
        BY <3>1, <3>4
      <4> HIDE DEF k, r
      <4>3. \A v \in Versions : Held(chunks', p, v) <=> Held(chunks, p, v)
        BY <3>1, <4>1, <4>2, OtherPath
      <4> QED
        BY <2>2, <4>3
    <3>5. CASE p = cur /\ disk[p].ver = body
      BY <3>1, <3>2, <3>3, <3>5, WriteEffect DEF Held
    <3>6. CASE p = cur /\ NoRow(chunks, p, disk[p].ver)
      BY <2>2, <3>6, HeldWithoutRows
    <3> QED
      BY <3>1, <3>4, <3>5, <3>6 DEF CursorInv, Ingesting
  <2>4. CASE PruneOne
    <3>1. PICK id \in dels : chunks' = [chunks EXCEPT ![<<id, Whole>>] = EmptyDoc]
      BY <2>4 DEF PruneOne
    <3>2. CASE IdOf[p] = id
      <4>1. NoRow(chunks, p, disk[p].ver)
        BY <2>4, <3>1, <3>2 DEF PruneOne, CursorInv, Pruning
      <4> QED
        BY <2>2, <4>1, HeldWithoutRows
    <3>3. CASE IdOf[p] # id
      <4>1. chunks \in Tables
        BY DEF CursorInv, TypeOK
      <4>2. \A k \in Keys : chunks'[<<IdOf[p], k>>] = chunks[<<IdOf[p], k>>]
        BY <3>1, <3>3, <4>1, IdsAssumption DEF Tables, DocKeys
      <4> QED
        BY <2>2, <4>2, FrameTyped DEF Held, FrameHeld
    <3> QED
      BY <3>2, <3>3
  <2> QED
    BY <2>1, <2>3, <2>4
    DEF Next, RunStep, vars, Start, CreateTable, SafeConfig, Glob, StatNext,
        ReadBytes, Parse, RecordDoc, ScanDone, EndLoop, PruneGlob, PruneDone,
        Trim, Save, Finalize, Raise, Crash, User, Edit, Restore, Delete,
        PutFile, FileVanished
<1>3. Spec => []CursorInv
  BY <1>1, Invariance
<1> QED
  BY <1>2, <1>3, PTL DEF Spec, SyncedStaysSynced

\* While a run is on, it has not ended yet, and the cursor file is the one it
\* loaded until the cursor is saved.
RunInv ==
    pc # "idle" => /\ result = "none"
                   /\ pc # "finalize" => base = cursorFile

LEMMA RunStepKeeps == RunInv /\ [Next]_vars => RunInv'
  BY DEF RunInv, Next, RunStep, vars, Start, CreateTable, Glob, StatNext,
         ReadBytes, Parse, WriteFrame, RecordDoc, ScanDone, EndLoop, PruneGlob,
         PruneOne, PruneDone, Trim, Save, Finalize, Raise, Crash, User, Edit,
         Restore, Delete, PutFile, FileVanished, EndRun

\* Without edges to write after the cursor, a run that reports an error has
\* left the cursor file as it found it, in every configuration.
THEOREM FailedRunsKeepTheCursor ==
    ASSUME ~TwoPhase PROVE Spec => FailedRunKeepsCursor
<1>1. Init => RunInv
  BY DEF Init, RunInv
<1>2. RunInv /\ [Next]_vars => RunInv'
  BY RunStepKeeps
<1>3. RunInv /\ [Next]_vars =>
          ((pc # "idle" /\ result' = "failed") => cursorFile' = base)
  <2>1. ~TwoPhase
    OBVIOUS
  <2> QED
    BY <2>1
    DEF RunInv, Next, RunStep, vars, Start, CreateTable, Glob, StatNext,
        ReadBytes, Parse, WriteFrame, RecordDoc, ScanDone, EndLoop, PruneGlob,
        PruneOne, PruneDone, Trim, Save, Finalize, Raise, Crash, User, Edit,
        Restore, Delete, PutFile, FileVanished, EndRun
<1> QED
  BY <1>1, <1>2, <1>3, PTL DEF Spec, FailedRunKeepsCursor

\* What is ingested has been met by the extractor, with all its chunks.
EdgesInv ==
    /\ \A p \in Paths : IngestedNow(p) => <<p, newCur[p].h>> \in seen
    /\ pc = "frame" => \A i \in 1 .. ix - 1 : Frames[body][i].n > 0 => <<cur, body>> \in seen

\* The document just recorded has been met, if its file has not moved on.
LEMMA RecordedIsMet ==
    ASSUME CursorInv, EdgesInv, RecordDoc, ~FileVanished
    PROVE  EdgesInv'
<1>1. /\ pc = "frame" /\ pc' = "next" /\ ix > Len(Frames[body]) /\ ix \in Nat
      /\ UNCHANGED <<disk, base, seen>> /\ newCur \in Cursors /\ cur \in Paths /\ body \in Versions
      /\ newCur' = [newCur EXCEPT ![cur] = [h |-> fp, mt |-> disk[cur].mt]]
  BY DEF RecordDoc, CursorInv, TypeOK
<1> SUFFICES ASSUME NEW p \in Paths, IngestedNow(p)' PROVE <<p, newCur'[p].h>> \in seen
  BY <1>1 DEF EdgesInv
<1>2. CASE p # cur
  <2>1. newCur'[p] = newCur[p]
    BY <1>1, <1>2 DEF Cursors
  <2> QED
    BY <1>1, <2>1 DEF IngestedNow, EdgesInv
<1>3. CASE p = cur
  <2>1. newCur'[p].h = fp
    BY <1>1, <1>3 DEF Cursors
  <2>2. fp = body
    BY <1>1, <1>3, <2>1 DEF IngestedNow, CursorInv, Ingesting
  <2>3. PICK i \in DOMAIN Frames[body] : Frames[body][i].n > 0
    BY <2>1, <2>2 DEF IngestedNow
  <2>4. i \in 1 .. ix - 1
    BY <1>1, <2>3, FrameIndex
  <2> QED
    BY <1>1, <1>3, <2>1, <2>2, <2>3, <2>4 DEF EdgesInv
<1> QED
  BY <1>2, <1>3

LEMMA EdgesStep ==
    SafeConfig /\ TwoPhase /\ CursorInv /\ EdgesInv /\ [Next]_vars => EdgesInv'
<1> SUFFICES ASSUME SafeConfig, TwoPhase, CursorInv, EdgesInv, [Next]_vars PROVE EdgesInv'
  OBVIOUS
<1>1. TypeOK /\ Known
  BY DEF CursorInv
<1>2. CASE UNCHANGED vars
  BY <1>2 DEF vars, EdgesInv, IngestedNow
<1>3. ASSUME NEW how, EndRun(how) PROVE EdgesInv'
  BY <1>3 DEF EndRun, EdgesInv, IngestedNow, NoCursor, NoEntry
<1>4. ASSUME NEW p \in Paths, PutFile(p, clock + 1) \/ Delete(p)
      PROVE  EdgesInv'
  <2>1. UNCHANGED <<newCur, base, seen, pc, ix, body, cur>>
    BY <1>4 DEF PutFile, Delete
  <2>2. ASSUME NEW q \in Paths, IngestedNow(q)' PROVE IngestedNow(q)
    <3>1. disk'[q].ver \in {disk[q].ver, clock + 1, 0}
      BY <1>1, <1>4 DEF PutFile, Delete, NoFile, TypeOK, Disks
    <3>2. newCur[q].h <= clock /\ newCur[q].h \in Nat /\ clock \in Nat
      BY <1>1, BoundsAssumption DEF Known, TypeOK, Cursors
    <3> QED
      BY <2>1, <2>2, <3>1, <3>2 DEF IngestedNow
  <2> QED
    BY <2>1, <2>2 DEF EdgesInv
<1>5. CASE Start
  BY <1>5 DEF Start, EdgesInv, IngestedNow
<1>6. CASE WriteFrame
  <2>1. seen \subseteq seen' /\ UNCHANGED <<disk, base, newCur, body, cur>> /\ ix' = ix + 1 /\ pc = "frame"
    BY <1>6 DEF WriteFrame
  <2>2. ASSUME NEW i \in 1 .. ix' - 1, Frames[body][i].n > 0
        PROVE  <<cur, body>> \in seen'
    <3>1. i \in 1 .. ix /\ ix \in Nat
      BY <1>1, <2>1 DEF TypeOK
    <3>2. CASE i = ix
      BY <1>6, <2>2, <3>2 DEF WriteFrame
    <3>3. CASE i # ix
      <4>1. i \in 1 .. ix - 1
        BY <3>1, <3>3
      <4> QED
        BY <2>1, <2>2, <4>1 DEF EdgesInv
    <3> QED
      BY <3>2, <3>3
  <2> QED
    BY <2>1, <2>2 DEF EdgesInv, IngestedNow
<1>7. CASE RecordDoc /\ ~FileVanished
  BY <1>7, RecordedIsMet
<1>8. CASE Trim
  <2>1. /\ \A p \in Paths : newCur'[p] = newCur[p] \/ newCur'[p].h = 0
        /\ UNCHANGED <<disk, base, seen>> /\ pc' = "save"
    BY <1>8 DEF Trim, NoEntry
  <2> QED
    BY <2>1 DEF EdgesInv, IngestedNow
<1>9. CASE (StatNext \/ ReadBytes \/ Parse) /\ ~FileVanished
  <2>1. /\ UNCHANGED <<disk, base, newCur, seen>>
        /\ pc' = "frame" => ix' = 1
    BY <1>9 DEF StatNext, ReadBytes, Parse
  <2> QED
    BY <2>1 DEF EdgesInv, IngestedNow
<1>10. CASE CreateTable \/ Glob \/ ScanDone \/ EndLoop \/ PruneGlob \/ PruneOne \/ PruneDone \/ Save
  <2>1. UNCHANGED <<disk, base, newCur, seen>> /\ pc' # "frame"
    BY <1>10 DEF CreateTable, Glob, ScanDone, EndLoop, PruneGlob, PruneOne, PruneDone, Save
  <2> QED
    BY <2>1 DEF EdgesInv, IngestedNow
<1>11. CASE Finalize \/ Raise \/ Crash \/ FileVanished
  BY <1>3, <1>11 DEF Finalize, Raise, Crash, FileVanished
<1>12. CASE User
  BY <1>4, <1>12 DEF User, Edit, Restore, SafeConfig
<1> QED
  BY <1>2, <1>5, <1>6, <1>7, <1>8, <1>9, <1>10, <1>11, <1>12 DEF Next, RunStep

\* Whatever was edited, deleted, failed or cut off by doc_limit on the way, a
\* run that ends without an error has written an edge for every call between
\* two files that it has put into its cursor and that have not changed since.
THEOREM RunsLinkTheirFiles ==
    ASSUME SafeConfig, TwoPhase PROVE Spec => FilesOfARunAreLinked
<1> DEFINE Linked ==
        pc = "finalize" /\ result' \in {"complete", "truncated"} =>
            \A p, q \in Paths :
               IngestedNow(p) /\ IngestedNow(q) /\ q \in Calls[newCur[p].h]
                   => <<p, q>> \in edges'
<1>0. SafeConfig /\ TwoPhase
  OBVIOUS
<1>1. Init => CursorInv /\ EdgesInv /\ RunInv
  BY CursorInit DEF Init, EdgesInv, IngestedNow, NoCursor, NoEntry, RunInv
<1>2. (CursorInv /\ EdgesInv /\ RunInv) /\ [Next]_vars => (CursorInv /\ EdgesInv /\ RunInv)'
  BY <1>0, CursorStep, EdgesStep, RunStepKeeps
<1>3. (CursorInv /\ EdgesInv /\ RunInv) /\ [Next]_vars => Linked
  <2> SUFFICES ASSUME CursorInv, EdgesInv, RunInv, [Next]_vars, pc = "finalize",
                      result' \in {"complete", "truncated"},
                      NEW p \in Paths, NEW q \in Paths, IngestedNow(p), IngestedNow(q),
                      q \in Calls[newCur[p].h]
               PROVE  <<p, q>> \in edges'
    OBVIOUS
  <2>1. Finalize
    BY DEF RunInv, Next, RunStep, vars, Start, CreateTable, Glob, StatNext, ReadBytes, Parse,
           WriteFrame, RecordDoc, ScanDone, EndLoop, PruneGlob, PruneOne, PruneDone, Trim, Save,
           Raise, Crash, User, Edit, Restore, Delete, PutFile, EndRun
  <2>2. <<p, newCur[p].h>> \in seen /\ <<q, newCur[q].h>> \in seen
    BY DEF EdgesInv
  <2>3. newCur[p].h \in Versions /\ newCur[q].h \in Versions
    BY DEF CursorInv, TypeOK, Cursors, IngestedNow
  <2>4. <<p, q>> \in Resolved(seen)
    BY <2>2, <2>3 DEF Resolved
  <2> QED
    BY <2>1, <2>4 DEF Finalize
<1> QED
  BY <1>1, <1>2, <1>3, PTL DEF Spec, FilesOfARunAreLinked


-----------------------------------------------------------------------------
(* IncrementalFiles implements DirectoryMirror, step by step: every step  *)
(* of a cell, of its users and of its failures is a step of the mirror or *)
(* leaves it as it is.                                                    *)

\* One document per file, with at least one chunk, and orphans are deleted.
WholeDocuments ==
    /\ DeleteOrphans
    /\ \A v \in Versions : /\ Len(Frames[v]) = 1
                           /\ Frames[v][1].key = Whole
                           /\ Frames[v][1].n # 0

-----------------------------------------------------------------------------
(* The inductive invariant.                                                *)

Shelved(p) == chunks[<<IdOf[p], Whole>>]

\* Rows are those of one version given out so far, or there are none.
OneVersion(rows, now) == rows = EmptyDoc \/ \E v \in 1 .. now : rows = RowsOf(v)

\* No file's rows are torn between two versions.
Untorn == \A p \in Paths : OneVersion(Shelved(p), clock)

\* No file is published at a version newer than the one on disk.
Behind == \A p \in Paths : disk[p].ver = 0 \/ Published(p) <= disk[p].ver

\* A document being ingested is no older than what is published of its file,
\* and no newer than the file.
Reading ==
    pc = "frame" => /\ Published(cur) <= body
                    /\ disk[cur].ver = 0 \/ body <= disk[cur].ver

MirrorInv == CursorInv /\ Untorn /\ Behind /\ Reading

-----------------------------------------------------------------------------
(* What is published of a file.                                            *)

\* The first row of a version is there and tells which version it is.
LEMMA FirstRowTells ==
    ASSUME WholeDocuments, NEW v \in Versions
    PROVE  0 \in Seqs /\ EmptyDoc[0] = 0 /\ RowsOf(v)[0] = v /\ RowsOf(v) # EmptyDoc
<1>1. 1 \in DOMAIN Frames[v]
  BY FrameIndex DEF WholeDocuments
<1>2. Frames[v][1].n \in 1 .. MaxChunks
  BY <1>1, FrameTyped, BoundsAssumption DEF WholeDocuments
<1>3. 0 \in Seqs
  BY <1>2, BoundsAssumption DEF Seqs
<1>4. RowsOf(v)[0] = v /\ EmptyDoc[0] = 0 /\ v # 0
  BY <1>2, <1>3, BoundsAssumption DEF RowsOf, EmptyDoc
<1> QED
  BY <1>3, <1>4

\* The refinement mapping reads the version of an untorn file.
LEMMA VersionRead ==
    ASSUME WholeDocuments, NEW now \in 0 .. MaxVersion, NEW rows
    PROVE  /\ rows = EmptyDoc => VersionOf(rows, now) = 0
           /\ \A v \in 1 .. now : rows = RowsOf(v) => VersionOf(rows, now) = v
<1>1. rows = EmptyDoc => VersionOf(rows, now) = 0
  BY DEF VersionOf
<1>2. ASSUME NEW v \in 1 .. now, rows = RowsOf(v)
      PROVE  VersionOf(rows, now) = v
  <2>1. \A w \in 1 .. now : w \in Versions
    BY BoundsAssumption
  <2>2. rows # EmptyDoc
    BY <1>2, <2>1, FirstRowTells
  <2>3. \A w \in 1 .. now : rows = RowsOf(w) => w = v
    <3>1. \A w \in 1 .. now : RowsOf(w)[0] = w
      BY <2>1, FirstRowTells
    <3> QED
      BY <1>2, <3>1
  <2>4. (CHOOSE w \in 1 .. now : rows = RowsOf(w)) = v
    BY <1>2, <2>3
  <2> QED
    BY <1>2, <2>2, <2>4 DEF VersionOf
<1> QED
  BY <1>1, <1>2

\* And reads the same one as the clock advances.
LEMMA VersionStays ==
    ASSUME WholeDocuments, NEW now \in 0 .. MaxVersion,
           NEW later \in 0 .. MaxVersion, now <= later,
           NEW rows, OneVersion(rows, now)
    PROVE  /\ OneVersion(rows, later)
           /\ VersionOf(rows, later) = VersionOf(rows, now)
           /\ VersionOf(rows, now) \in 0 .. now
<1>1. CASE rows = EmptyDoc
  BY <1>1, VersionRead, BoundsAssumption DEF OneVersion
<1>2. CASE rows # EmptyDoc
  <2>1. PICK v \in 1 .. now : rows = RowsOf(v)
    BY <1>2 DEF OneVersion
  <2>2. v \in 1 .. later
    BY BoundsAssumption
  <2> QED
    BY <2>1, <2>2, VersionRead, BoundsAssumption DEF OneVersion
<1> QED
  BY <1>1, <1>2

\* So every file is published at a version given out so far, or not at all.
LEMMA PublishedTyped ==
    ASSUME WholeDocuments, MirrorInv
    PROVE  \A p \in Paths : Published(p) \in 0 .. clock
<1>1. clock \in 0 .. MaxVersion
  BY DEF MirrorInv, CursorInv, TypeOK
<1>2. \A p \in Paths : OneVersion(Shelved(p), clock)
  BY DEF MirrorInv, Untorn
<1>3. clock <= clock
  BY <1>1, BoundsAssumption
<1> QED
  BY <1>1, <1>2, <1>3, VersionStays DEF Published, Shelved

-----------------------------------------------------------------------------
(* The steps.                                                              *)

\* A step that touches neither the directory nor the table, and starts no
\* document but with the text the file has, changes nothing of the mirror.
LEMMA Unseen ==
    ASSUME WholeDocuments, MirrorInv, TypeOK',
           UNCHANGED <<disk, clock, chunks>>,
           pc' = "frame" => /\ cur' = cur
                            /\ \/ pc = "frame" /\ body' = body
                               \/ disk[cur].ver # 0 /\ body' = disk[cur].ver
    PROVE  (Untorn /\ Behind /\ Reading)' /\ UNCHANGED Mirror!vars
<1> USE DEF MirrorInv
<1>1. \A p \in Paths : Published(p)' = Published(p)
  BY DEF Published
<1>2. Untorn'
  BY DEF Untorn, Shelved
<1>3. Behind'
  BY <1>1 DEF Behind
<1>4. Reading'
  <2> SUFFICES ASSUME pc' = "frame" PROVE Reading'
    BY DEF Reading
  <2>1. cur' = cur /\ cur \in Paths
    BY DEF TypeOK
  <2>2. disk[cur].ver \in Nat
    BY <2>1, Components, BoundsAssumption DEF CursorInv
  <2>3. Published(cur)' = Published(cur)
    BY <2>1 DEF Published
  <2>4. CASE pc = "frame" /\ body' = body
    BY <2>1, <2>3, <2>4 DEF Reading
  <2>5. CASE disk[cur].ver # 0 /\ body' = disk[cur].ver
    BY <2>1, <2>2, <2>3, <2>5 DEF Reading, Behind
  <2> QED
    BY <2>4, <2>5
<1>5. UNCHANGED Mirror!vars
  BY <1>1 DEF Mirror!vars
<1> QED
  BY <1>2, <1>3, <1>4, <1>5

LEMMA EditIsEdit ==
    ASSUME WholeDocuments, MirrorInv, TypeOK', NEW p \in Paths, PutFile(p, clock + 1)
    PROVE  (Untorn /\ Behind /\ Reading)' /\ Mirror!Edit(p)
<1> USE DEF MirrorInv
<1>1. /\ clock < MaxVersion /\ clock' = clock + 1
      /\ disk' = [disk EXCEPT ![p] = [ver |-> clock + 1, mt |-> clock + 1]]
      /\ UNCHANGED <<chunks, pc, cur, body>>
  BY DEF PutFile
<1>2. clock \in 0 .. MaxVersion /\ clock' \in 0 .. MaxVersion /\ clock <= clock'
  BY <1>1, BoundsAssumption DEF CursorInv, TypeOK
<1>3. \A q \in Paths : OneVersion(Shelved(q), clock)
  BY DEF Untorn
<1>4. \A q \in Paths : /\ OneVersion(Shelved(q), clock')
                       /\ VersionOf(Shelved(q), clock') = VersionOf(Shelved(q), clock)
  BY <1>2, <1>3, VersionStays
<1>5. \A q \in Paths : Shelved(q)' = Shelved(q)
  BY <1>1 DEF Shelved
<1>6. \A q \in Paths : Published(q)' = Published(q)
  BY <1>1, <1>4 DEF Published, Shelved
<1>7. \A q \in Paths : Published(q) \in 0 .. clock
  BY PublishedTyped
<1>8. /\ disk'[p].ver = clock + 1
      /\ \A q \in Paths : q # p => disk'[q] = disk[q]
      /\ \A q \in Paths : disk'[q].ver = IF q = p THEN clock + 1 ELSE disk[q].ver
  BY <1>1 DEF CursorInv, TypeOK, Disks
<1>9. Untorn'
  BY <1>1, <1>4, <1>5 DEF Untorn
<1>10. Behind'
  BY <1>2, <1>6, <1>7, <1>8 DEF Behind
<1>11. Reading'
  <2>1. pc = "frame" => cur \in Paths /\ body \in Versions /\ body <= clock
    BY DEF CursorInv, TypeOK, Known
  <2> QED
    BY <1>1, <1>2, <1>6, <1>8, <2>1 DEF Reading
<1>12. Mirror!Edit(p)
  <2>1. [q \in Paths |-> disk[q].ver]' = [[q \in Paths |-> disk[q].ver] EXCEPT ![p] = clock + 1]
    BY <1>8
  <2>2. [q \in Paths |-> Published(q)]' = [q \in Paths |-> Published(q)]
    BY <1>6
  <2> QED
    BY <1>1, <2>1, <2>2 DEF Mirror!Edit
<1> QED
  BY <1>9, <1>10, <1>11, <1>12

LEMMA DeleteIsDelete ==
    ASSUME WholeDocuments, MirrorInv, TypeOK', NEW p \in Paths, Delete(p)
    PROVE  (Untorn /\ Behind /\ Reading)' /\ Mirror!Delete(p)
<1> USE DEF MirrorInv
<1>1. /\ disk[p].ver # 0
      /\ disk' = [disk EXCEPT ![p] = NoFile]
      /\ UNCHANGED <<clock, chunks, pc, cur, body>>
  BY DEF Delete
<1>2. \A q \in Paths : Published(q)' = Published(q)
  BY <1>1 DEF Published
<1>3. \A q \in Paths : disk'[q].ver = IF q = p THEN 0 ELSE disk[q].ver
  BY <1>1 DEF CursorInv, TypeOK, Disks, NoFile
<1>4. Untorn' /\ Behind'
  BY <1>1, <1>2, <1>3 DEF Untorn, Shelved, Behind
<1>5. Reading'
  <2>1. pc = "frame" => cur \in Paths
    BY DEF CursorInv, TypeOK
  <2> QED
    BY <1>1, <1>2, <1>3, <2>1 DEF Reading
<1>6. Mirror!Delete(p)
  <2>1. [q \in Paths |-> disk[q].ver]' = [[q \in Paths |-> disk[q].ver] EXCEPT ![p] = 0]
    BY <1>3
  <2>2. [q \in Paths |-> Published(q)]' = [q \in Paths |-> Published(q)]
    BY <1>2
  <2> QED
    BY <1>1, <2>1, <2>2 DEF Mirror!Delete
<1> QED
  BY <1>4, <1>5, <1>6

\* The only document of a file replaces its rows as a whole.
LEMMA WriteIsPublish ==
    ASSUME SafeConfig, WholeDocuments, MirrorInv, TypeOK', WriteFrame
    PROVE  /\ (Untorn /\ Behind /\ Reading)'
           /\ Mirror!Publish(cur) \/ UNCHANGED Mirror!vars
<1> USE DEF MirrorInv
<1>1. /\ pc = "frame" /\ ix <= Len(Frames[body])
      /\ UNCHANGED <<disk, clock, pc, cur, body>>
  BY DEF WriteFrame
<1>2. cur \in Paths /\ body \in Versions /\ ix \in Nat \ {0}
  BY <1>1 DEF CursorInv, TypeOK
<1>3. ix = 1
  <2>1. Len(Frames[body]) = 1
    BY <1>2 DEF WholeDocuments
  <2>2. ix \in Nat /\ ix # 0 /\ ix <= 1
    BY <1>1, <1>2, <2>1
  <2> QED
    BY <2>2
<1> DEFINE n == Frames[body][1].n
           d == <<IdOf[cur], Whole>>
<1>4. n \in 1 .. MaxChunks /\ d \in DocKeys
  <2>1. 1 \in DOMAIN Frames[body]
    BY <1>2, FrameIndex DEF WholeDocuments
  <2> QED
    BY <1>2, <2>1, FrameTyped, BoundsAssumption, IdsAssumption DEF WholeDocuments, DocKeys
<1>5. chunks' = [chunks EXCEPT ![d] = Written(chunks[d], n, body)]
  BY <1>2, <1>3, <1>4 DEF WriteFrame, WholeDocuments
<1>6. Written(chunks[d], n, body) = RowsOf(body)
  BY DEF Written, RowsOf, WholeDocuments
<1>7. \A q \in Paths : Shelved(q)' = IF q = cur THEN RowsOf(body) ELSE Shelved(q)
  <2>1. \A q \in Paths : <<IdOf[q], Whole>> \in DocKeys
    BY IdsAssumption DEF DocKeys
  <2>2. \A q \in Paths : <<IdOf[q], Whole>> = d <=> q = cur
    BY <1>2 DEF SafeConfig
  <2>3. chunks \in Tables
    BY DEF CursorInv, TypeOK
  <2> QED
    BY <1>5, <1>6, <2>1, <2>2, <2>3 DEF Shelved, Tables
<1>8. clock \in 0 .. MaxVersion /\ body \in 1 .. clock
  BY <1>2, BoundsAssumption DEF CursorInv, TypeOK, Known
<1>9. VersionOf(RowsOf(body), clock) = body
  BY <1>8, VersionRead
<1>10. \A q \in Paths : Published(q)' = IF q = cur THEN body ELSE Published(q)
  BY <1>1, <1>7, <1>9 DEF Published, Shelved
<1>11. Untorn'
  BY <1>1, <1>7, <1>8 DEF Untorn, OneVersion
<1>12. Behind' /\ Reading'
  <2>1. body <= body
    BY <1>8
  <2> QED
    BY <1>1, <1>2, <1>10, <2>1 DEF Behind, Reading
<1>13. UNCHANGED [q \in Paths |-> disk[q].ver]
  BY <1>1
<1>14. CASE Published(cur) = body
  <2>1. UNCHANGED [q \in Paths |-> Published(q)]
    BY <1>10, <1>14
  <2> QED
    BY <1>1, <1>11, <1>12, <1>13, <2>1 DEF Mirror!vars
<1>15. CASE Published(cur) # body
  <2> DEFINE shelf == [q \in Paths |-> Published(q)]
  <2>1. shelf' = [shelf EXCEPT ![cur] = body]
    BY <1>10
  <2>2. shelf[cur] = Published(cur) /\ Published(cur) \in 0 .. clock
    BY <1>2, PublishedTyped
  <2>3. body \in shelf[cur] + 1 .. clock
    BY <1>1, <1>8, <1>15, <2>2 DEF Reading
  <2>4. Mirror!Publish(cur)
    BY <1>1, <1>13, <2>1, <2>3 DEF Mirror!Publish
  <2> QED
    BY <1>11, <1>12, <2>4
<1> QED
  BY <1>14, <1>15

\* Pruning withdraws what is published of a file that is gone or has moved on.
LEMMA PruneIsWithdraw ==
    ASSUME SafeConfig, WholeDocuments, MirrorInv, TypeOK', PruneOne
    PROVE  /\ (Untorn /\ Behind /\ Reading)'
           /\ (\E p \in Paths : Mirror!Withdraw(p)) \/ UNCHANGED Mirror!vars
<1> USE DEF MirrorInv
<1>1. /\ pc = "prune"
      /\ UNCHANGED <<disk, clock, pc, cur, body>>
  BY DEF PruneOne
<1>2. PICK id \in dels : chunks' = [chunks EXCEPT ![<<id, Whole>>] = EmptyDoc]
  BY DEF PruneOne
<1>3. chunks \in Tables /\ id \in RawIds /\ <<id, Whole>> \in DocKeys
  BY IdsAssumption DEF CursorInv, TypeOK, DocKeys
<1>4. \A q \in Paths : Shelved(q)' = IF IdOf[q] = id THEN EmptyDoc ELSE Shelved(q)
  <2>1. \A q \in Paths : <<IdOf[q], Whole>> \in DocKeys
    BY IdsAssumption DEF DocKeys
  <2> QED
    BY <1>2, <1>3, <2>1 DEF Shelved, Tables
<1>5. clock \in 0 .. MaxVersion
  BY DEF CursorInv, TypeOK
<1>6. \A q \in Paths : Published(q)' = IF IdOf[q] = id THEN 0 ELSE Published(q)
  BY <1>1, <1>4, <1>5, VersionRead DEF Published, Shelved
<1>7. Untorn'
  BY <1>1, <1>4 DEF Untorn, OneVersion
<1>8. Behind' /\ Reading'
  <2>1. \A q \in Paths : disk[q].ver \in Nat
    BY Components, BoundsAssumption DEF CursorInv
  <2>2. pc' # "frame"
    BY <1>1
  <2> QED
    BY <1>1, <1>6, <2>1, <2>2 DEF Behind, Reading
<1>9. UNCHANGED [q \in Paths |-> disk[q].ver]
  BY <1>1
<1>10. CASE \A q \in Paths : IdOf[q] = id => Published(q) = 0
  <2>1. UNCHANGED [q \in Paths |-> Published(q)]
    BY <1>6, <1>10
  <2> QED
    BY <1>1, <1>7, <1>8, <1>9, <2>1 DEF Mirror!vars
<1>11. ASSUME NEW p \in Paths, IdOf[p] = id, Published(p) # 0
       PROVE  Mirror!Withdraw(p)
  <2>1. PICK v \in 1 .. clock : Shelved(p) = RowsOf(v)
    <3>1. Shelved(p) # EmptyDoc
      BY <1>5, <1>11, VersionRead DEF Published, Shelved
    <3> QED
      BY <3>1 DEF Untorn, OneVersion
  <2>2. v \in Versions /\ Published(p) = v
    BY <1>5, <2>1, VersionRead, BoundsAssumption DEF Published, Shelved
  <2>3. ~NoRow(chunks, p, v)
    BY <2>1, <2>2, FirstRowTells, IdsAssumption DEF NoRow, Shelved
  <2>4. Published(p) # disk[p].ver
    BY <1>1, <1>11, <2>2, <2>3 DEF CursorInv, Pruning
  <2> DEFINE shelf == [q \in Paths |-> Published(q)]
  <2>5. shelf' = [shelf EXCEPT ![p] = 0]
    BY <1>6, <1>11 DEF SafeConfig
  <2>6. shelf[p] # 0 /\ shelf[p] # [q \in Paths |-> disk[q].ver][p]
    BY <1>11, <2>4
  <2> QED
    BY <1>1, <1>9, <2>5, <2>6 DEF Mirror!Withdraw
<1> QED
  BY <1>7, <1>8, <1>10, <1>11

-----------------------------------------------------------------------------
(* The refinement.                                                         *)

LEMMA MirrorInit == ASSUME SafeConfig, WholeDocuments PROVE Init => MirrorInv /\ Mirror!Init
<1> SUFFICES ASSUME Init PROVE MirrorInv /\ Mirror!Init
  OBVIOUS
<1>1. \A p \in Paths : Shelved(p) = EmptyDoc /\ disk[p].ver = 0
  BY IdsAssumption DEF Init, Shelved, DocKeys, NoFile
<1>2. \A p \in Paths : Published(p) = 0
  BY <1>1 DEF Published, Shelved, VersionOf
<1>3. CursorInv
  BY CursorInit
<1>4. Untorn /\ Behind /\ Reading
  BY <1>1 DEF Untorn, OneVersion, Behind, Reading, Init
<1>5. Mirror!Init
  BY <1>1, <1>2 DEF Mirror!Init, Init
<1> QED
  BY <1>3, <1>4, <1>5 DEF MirrorInv

LEMMA MirrorStep ==
    ASSUME SafeConfig, WholeDocuments
    PROVE  MirrorInv /\ [Next]_vars => MirrorInv' /\ [Mirror!Next]_(Mirror!vars)
<1> SUFFICES ASSUME MirrorInv, [Next]_vars
             PROVE  MirrorInv' /\ [Mirror!Next]_(Mirror!vars)
  OBVIOUS
<1>1. CursorInv'
  BY CursorStep DEF MirrorInv
<1>2. TypeOK'
  BY <1>1 DEF CursorInv
<1> SUFFICES (Untorn /\ Behind /\ Reading)' /\ [Mirror!Next]_(Mirror!vars)
  BY <1>1 DEF MirrorInv
<1>3. CASE User
  <2>1. PICK p \in Paths : PutFile(p, clock + 1) \/ Delete(p)
    BY <1>3 DEF User, Edit, Restore, SafeConfig
  <2> QED
    BY <1>2, <2>1, EditIsEdit, DeleteIsDelete DEF Mirror!Next
<1>4. CASE WriteFrame
  <2>1. cur \in Paths
    BY <1>4 DEF WriteFrame, MirrorInv, CursorInv, TypeOK
  <2> QED
    BY <1>2, <1>4, <2>1, WriteIsPublish DEF Mirror!Next
<1>5. CASE PruneOne
  BY <1>2, <1>5, PruneIsWithdraw DEF Mirror!Next
<1>6. CASE CreateTable \/ Start
  <2>1. UNCHANGED <<disk, clock, chunks>> /\ pc' # "frame"
    BY <1>6 DEF CreateTable, Start, SafeConfig
  <2> QED
    BY <1>2, <2>1, Unseen
<1>7. CASE Glob \/ StatNext \/ ReadBytes
  <2>1. UNCHANGED <<disk, clock, chunks>> /\ pc' # "frame"
    BY <1>7 DEF Glob, StatNext, ReadBytes, FileVanished, EndRun
  <2> QED
    BY <1>2, <2>1, Unseen
<1>8. CASE Parse
  <2>1. UNCHANGED <<disk, clock, chunks>>
    BY <1>8 DEF Parse, FileVanished
  <2>2. pc' = "frame" => cur' = cur /\ disk[cur].ver # 0 /\ body' = disk[cur].ver
    BY <1>8 DEF Parse, FileVanished, EndRun
  <2> QED
    BY <1>2, <2>1, <2>2, Unseen
<1>9. CASE RecordDoc \/ ScanDone \/ EndLoop
  <2>1. UNCHANGED <<disk, clock, chunks>> /\ pc' # "frame"
    BY <1>9 DEF RecordDoc, ScanDone, EndLoop, FileVanished, EndRun
  <2> QED
    BY <1>2, <2>1, Unseen
<1>10. CASE PruneGlob \/ PruneDone \/ Trim \/ Save \/ Finalize
  <2>1. UNCHANGED <<disk, clock, chunks>> /\ pc' # "frame"
    BY <1>10 DEF PruneGlob, PruneDone, Trim, Save, Finalize, EndRun
  <2> QED
    BY <1>2, <2>1, Unseen
<1>11. CASE Raise \/ Crash
  <2>1. UNCHANGED <<disk, clock, chunks>> /\ pc' # "frame"
    BY <1>11 DEF Raise, Crash, EndRun
  <2> QED
    BY <1>2, <2>1, Unseen
<1>12. CASE UNCHANGED vars
  <2>1. UNCHANGED <<disk, clock, chunks, pc, cur, body>>
    BY <1>12 DEF vars
  <2> QED
    BY <1>2, <2>1, Unseen
<1> QED
  BY <1>3, <1>4, <1>5, <1>6, <1>7, <1>8, <1>9, <1>10, <1>11, <1>12
  DEF Next, RunStep

\* Whatever happens to the cell, what it has published of the directory is a
\* DirectoryMirror: no file is ever found torn, moved back to an older
\* content, or withdrawn while its content is current.  This is the safety
\* part of ImplementsMirror (pg.py:470-497, runner.py:101-200).
THEOREM CellIsMirror ==
    ASSUME SafeConfig, WholeDocuments
    PROVE  Spec => Mirror!Init /\ [][Mirror!Next]_(Mirror!vars)
<1>1. Init => MirrorInv /\ Mirror!Init
  BY MirrorInit
<1>2. MirrorInv /\ [Next]_vars => MirrorInv' /\ [Mirror!Next]_(Mirror!vars)
  BY MirrorStep
<1> HIDE DEF MirrorInv
<1> QED
  BY <1>1, <1>2, PTL DEF Spec

-----------------------------------------------------------------------------
(* A directory that changes between runs only, and runs that do not fail: *)
(* what a complete run leaves behind, also when contents return.           *)

\* Files change between runs only, and no run fails or dies.
Offline == ~Online /\ MaxFaults = 0

\* No entry is newer than the clock, and one with the file's mtime has the
\* file's content.
Faithful(e, p) ==
    /\ e.mt <= clock
    /\ disk[p].ver # 0 /\ e.h # 0 /\ e.mt = disk[p].mt => e.h = disk[p].ver

\* The file in flight is there, and hash and text are those of its content.
Unmoved ==
    /\ todo \subseteq CurrentPaths
    /\ pc \in {"read", "parse", "frame"} => disk[cur].ver # 0
    /\ pc \in {"parse", "frame"} => fp = disk[cur].ver
    /\ pc = "frame" => body = fp

RestInv ==
    /\ TypeOK /\ Unmoved
    /\ pc = "idle" => todo = {}
    /\ pc \notin {"idle", "finalize"} => base = cursorFile
    /\ \A p \in Paths : /\ disk[p].mt <= clock
                        /\ Faithful(cursorFile[p], p) /\ Faithful(newCur[p], p)

\* Runs are not cut short, and keep the table.
WholeRuns ==
    /\ Mode # "overwrite" /\ Limits \subseteq {NoLimit}
    /\ \A p, q \in Paths : IdOf[p] = IdOf[q] => p = q

Rows(v) == IF v = 0 THEN EmptyDoc ELSE RowsOf(v)

\* new_cursor says what the table has, but for the document in flight ...
TableInv ==
    /\ pc \in {"idle", "finalize"} => \A p \in Paths : Shelved(p) = Rows(cursorFile[p].h)
    /\ pc \notin {"idle", "finalize", "prune", "trim"} =>
          \A p \in Paths : (pc = "frame" => p # cur) => Shelved(p) = Rows(newCur[p].h)
    /\ pc = "frame" => Shelved(cur) = IF ix = 1 THEN Rows(newCur[cur].h) ELSE RowsOf(body)
    /\ pc \in {"prune", "trim"} => \A p \in Paths :
          IF disk[p].ver # 0 THEN Shelved(p) = Rows(newCur[p].h)
          ELSE Shelved(p) = EmptyDoc \/ (pc = "prune" /\ IdOf[p] \in dels)
    /\ pc = "prune" => \A id \in dels : \E p \in Paths : IdOf[p] = id /\ disk[p].ver = 0
    /\ \A d \in DocKeys : chunks[d] = EmptyDoc \/ \E p \in Paths : d = <<IdOf[p], Whole>>

\* ... and comes to say what the directory has.
ScanInv ==
    /\ limit = NoLimit
    /\ pc # "idle" => result = "none"
    /\ pc \in {"create", "glob"} => newCur = base
    /\ pc \notin {"idle", "save", "finalize"} =>
          \A p \in Paths : newCur[p].h = base[p].h \/ (disk[p].ver # 0 /\ newCur[p].h = disk[p].ver)
    /\ pc \notin {"next", "read", "parse", "frame"} => todo = {}
    /\ pc \notin {"idle", "create", "glob", "finalize"} =>
          \A p \in CurrentPaths \ (todo \cup InFlight) : newCur[p].h = disk[p].ver
    /\ pc = "save" => \A p \in Paths : newCur[p].h = disk[p].ver
    /\ pc = "finalize" \/ (pc = "idle" /\ result = "complete" /\ quiet) =>
          \A p \in Paths : cursorFile[p].h = disk[p].ver

ExactInv == RestInv /\ ScanInv /\ TableInv

\* No step of an offline cell is a failure, and users wait for the run to end.
LEMMA OfflineSteps ==
    ASSUME Offline, TypeOK, Next
    PROVE  \/ Start \/ RunStep
           \/ pc = "idle" /\ \E p \in Paths : Delete(p) \/ \E v \in 1 .. clock + 1 : PutFile(p, v)
<1>1. ~Online /\ ~(faults < MaxFaults)
  BY BoundsAssumption DEF Offline, TypeOK
<1>2. ~Raise /\ ~Crash
  BY <1>1 DEF Raise, Crash
<1>3. clock \in Nat
  BY BoundsAssumption DEF TypeOK
<1>4. ASSUME NEW p \in Paths, Edit(p) \/ Restore(p) \/ Delete(p)
      PROVE  pc = "idle" /\ (Delete(p) \/ \E v \in 1 .. clock + 1 : PutFile(p, v))
  <2>1. CASE Edit(p)
    <3>1. PutFile(p, clock + 1) /\ clock + 1 \in 1 .. clock + 1
      BY <1>3, <2>1 DEF Edit
    <3>2. pc = "idle"
      BY <1>1, <3>1 DEF PutFile, MayTouchDisk
    <3> QED
      BY <3>1, <3>2
  <2>2. CASE Restore(p)
    <3>1. PICK v \in 1 .. clock : PutFile(p, v)
      BY <2>2 DEF Restore
    <3> QED
      <4>1. v \in 1 .. clock + 1
        BY <1>3
      <4>2. pc = "idle"
        BY <1>1, <3>1 DEF PutFile, MayTouchDisk
      <4> QED
        BY <3>1, <4>1, <4>2
  <2>3. CASE Delete(p)
    BY <1>1, <2>3 DEF Delete, MayTouchDisk
  <2> QED
    BY <1>4, <2>1, <2>2, <2>3
<1> QED
  BY <1>2, <1>4 DEF Next, User

\* Times are numbers.
LEMMA Times ==
    ASSUME TypeOK
    PROVE  /\ clock \in Nat
           /\ \A p \in Paths : /\ disk[p].mt \in Nat /\ disk[p].ver \in Nat
                               /\ cursorFile[p].mt \in Nat /\ cursorFile[p].h \in Nat
                               /\ newCur[p].mt \in Nat /\ newCur[p].h \in Nat
  BY BoundsAssumption DEF TypeOK, Disks, Cursors

LEMMA RestInit == Init => RestInv
<1> SUFFICES ASSUME Init PROVE RestInv
  OBVIOUS
<1>1. TypeOK
  BY TypeInit
<1> QED
  BY <1>1 DEF Init, RestInv, Unmoved, Faithful, NoFile, NoCursor, NoEntry

LEMMA PutFileRests ==
    ASSUME RestInv, TypeOK', pc = "idle", NEW p \in Paths, NEW v, PutFile(p, v)
    PROVE  RestInv'
<1>1. /\ TypeOK /\ todo = {} /\ pc' = "idle" /\ todo' = {}
      /\ cursorFile' = cursorFile /\ newCur' = newCur
      /\ clock' = clock + 1 /\ disk' = [disk EXCEPT ![p] = [ver |-> v, mt |-> clock + 1]]
  BY DEF RestInv, PutFile
<1>2. Unmoved'
  BY <1>1 DEF Unmoved
<1>3. ASSUME NEW q \in Paths
      PROVE  /\ disk'[q].mt <= clock'
             /\ Faithful(cursorFile[q], q)' /\ Faithful(newCur[q], q)'
  <2>1. /\ disk[q].mt <= clock /\ Faithful(cursorFile[q], q) /\ Faithful(newCur[q], q)
    BY DEF RestInv
  <2>2. /\ clock \in Nat /\ disk[q].mt \in Nat
        /\ cursorFile[q].mt \in Nat /\ newCur[q].mt \in Nat
    BY <1>1, Times
  <2>3. disk \in Disks
    BY <1>1 DEF TypeOK
  <2>4. CASE q = p
    <3>1. disk'[q].mt = clock + 1
      BY <1>1, <2>3, <2>4 DEF Disks
    <3> QED
      BY <1>1, <2>1, <2>2, <3>1 DEF Faithful
  <2>5. CASE q # p
    <3>1. disk'[q] = disk[q]
      BY <1>1, <2>3, <2>5 DEF Disks
    <3> QED
      BY <1>1, <2>1, <2>2, <3>1 DEF Faithful
  <2> QED
    BY <2>4, <2>5
<1> QED
  BY <1>1, <1>2, <1>3 DEF RestInv

LEMMA DeleteRests ==
    ASSUME RestInv, TypeOK', pc = "idle", NEW p \in Paths, Delete(p)
    PROVE  RestInv'
<1>1. /\ TypeOK /\ todo = {} /\ pc' = "idle" /\ todo' = {}
      /\ cursorFile' = cursorFile /\ newCur' = newCur
      /\ clock' = clock /\ disk' = [disk EXCEPT ![p] = NoFile]
  BY DEF RestInv, Delete
<1>2. Unmoved'
  BY <1>1 DEF Unmoved
<1>3. ASSUME NEW q \in Paths
      PROVE  /\ disk'[q].mt <= clock'
             /\ Faithful(cursorFile[q], q)' /\ Faithful(newCur[q], q)'
  <2>1. /\ disk[q].mt <= clock /\ Faithful(cursorFile[q], q) /\ Faithful(newCur[q], q)
    BY DEF RestInv
  <2>2. clock \in Nat
    BY <1>1, Times
  <2>3. disk'[q] = disk[q] \/ disk'[q] = NoFile
    BY <1>1 DEF TypeOK, Disks
  <2> QED
    BY <1>1, <2>1, <2>2, <2>3 DEF Faithful, NoFile
<1> QED
  BY <1>1, <1>2, <1>3 DEF RestInv

\* A run that rests finds every file it has listed.
LEMMA NoneVanishes ==
    ASSUME RestInv
    PROVE  /\ StatNext => disk[FirstPath(todo)].ver # 0 /\ FirstPath(todo) \in todo
           /\ pc \in {"read", "parse", "frame"} => disk[cur].ver # 0
<1>1. todo \in SUBSET Paths /\ todo \subseteq CurrentPaths
  BY DEF RestInv, Unmoved, TypeOK
<1>2. StatNext => FirstPath(todo) \in todo
  BY <1>1, FirstPathInSet DEF StatNext
<1> QED
  BY <1>1, <1>2 DEF RestInv, Unmoved, CurrentPaths

LEMMA RunRests ==
    ASSUME RestInv, TypeOK', Start \/ RunStep
    PROVE  RestInv'
<1>1. UNCHANGED <<disk, clock>>
  BY DEF Start, RunStep, CreateTable, Glob, StatNext, ReadBytes, Parse, WriteFrame, RecordDoc,
         ScanDone, EndLoop, PruneGlob, PruneOne, PruneDone, Trim, Save, Finalize, FileVanished
<1>2. /\ TypeOK /\ Unmoved
      /\ pc \notin {"idle", "finalize"} => base = cursorFile
      /\ pc = "idle" => todo = {}
  BY DEF RestInv
<1>3. /\ StatNext => disk[FirstPath(todo)].ver # 0 /\ FirstPath(todo) \in todo
      /\ pc \in {"read", "parse", "frame"} => disk[cur].ver # 0
  BY NoneVanishes
<1>4. /\ StatNext => cur' = FirstPath(todo) /\ todo' = todo \ {FirstPath(todo)}
                     /\ pc' \in {"next", "read"}
      /\ ReadBytes => pc' \in {"next", "parse"} /\ (pc' = "parse" => fp' = disk[cur].ver)
      /\ Parse => body' = disk[cur].ver /\ pc' \in {"end", "frame"}
      /\ RecordDoc => pc' = "next"
  BY <1>3 DEF StatNext, ReadBytes, Parse, RecordDoc
<1>5. Unmoved' /\ (pc' = "idle" => todo' = {})
  BY <1>1, <1>2, <1>3, <1>4
  DEF Unmoved, CurrentPaths, Start, RunStep, CreateTable, Glob, StatNext, ReadBytes, Parse,
      WriteFrame, RecordDoc, ScanDone, EndLoop, PruneGlob, PruneOne, PruneDone, Trim, Save,
      Finalize, FileVanished, EndRun
<1>6. pc' \notin {"idle", "finalize"} => base' = cursorFile'
  BY <1>2, <1>3, <1>4
  DEF Start, RunStep, CreateTable, Glob, StatNext, ReadBytes, Parse, WriteFrame, RecordDoc,
      ScanDone, EndLoop, PruneGlob, PruneOne, PruneDone, Trim, Save, Finalize, FileVanished,
      EndRun
<1>7. ASSUME NEW p \in Paths
      PROVE  /\ disk'[p].mt <= clock'
             /\ Faithful(cursorFile[p], p)' /\ Faithful(newCur[p], p)'
  <2>1. disk[p].mt <= clock /\ Faithful(cursorFile[p], p) /\ Faithful(newCur[p], p)
    BY DEF RestInv
  <2>2. cursorFile'[p] \in {cursorFile[p], newCur[p]}
    BY DEF Start, RunStep, CreateTable, Glob, StatNext, ReadBytes, Parse, WriteFrame, RecordDoc,
           ScanDone, EndLoop, PruneGlob, PruneOne, PruneDone, Trim, Save, Finalize, FileVanished
  <2>3. \/ newCur'[p] \in {cursorFile[p], newCur[p], NoEntry}
        \/ newCur'[p] = [h |-> disk[p].ver, mt |-> disk[p].mt]
    <3>1. ASSUME RecordDoc
          PROVE  \/ newCur'[p] = newCur[p]
                 \/ newCur'[p] = [h |-> disk[p].ver, mt |-> disk[p].mt]
      <4>1. /\ newCur' = [newCur EXCEPT ![cur] = [h |-> fp, mt |-> disk[cur].mt]]
            /\ fp = disk[cur].ver /\ newCur \in Cursors
        BY <1>2, <1>3, <3>1 DEF RecordDoc, Unmoved, TypeOK
      <4> QED
        BY <4>1 DEF Cursors
    <3>2. CASE ~RecordDoc
      BY <3>2 DEF NoCursor, Start, RunStep, CreateTable, Glob, StatNext, ReadBytes, Parse, WriteFrame,
         ScanDone, EndLoop, PruneGlob, PruneOne, PruneDone, Trim, Save, Finalize, FileVanished,
         EndRun
    <3> QED
      BY <3>1, <3>2
  <2>4. clock \in Nat
    BY <1>2, Times
  <2> QED
    BY <1>1, <2>1, <2>2, <2>3, <2>4 DEF Faithful, NoEntry
<1> QED
  BY <1>5, <1>6, <1>7 DEF RestInv

LEMMA RestStep == Offline /\ RestInv /\ [Next]_vars => RestInv'
<1> SUFFICES ASSUME Offline, RestInv, [Next]_vars PROVE RestInv'
  OBVIOUS
<1>1. TypeOK /\ TypeOK'
  BY TypeStep DEF RestInv
<1>2. CASE UNCHANGED vars
  BY <1>2 DEF vars, RestInv, Unmoved, Faithful, CurrentPaths, TypeOK
<1>3. CASE Start \/ RunStep
  BY <1>1, <1>3, RunRests
<1>4. ASSUME pc = "idle", NEW p \in Paths, Delete(p) \/ \E v \in 1 .. clock + 1 : PutFile(p, v)
      PROVE  RestInv'
  BY <1>1, <1>4, PutFileRests, DeleteRests
<1> QED
  BY <1>1, <1>2, <1>3, <1>4, OfflineSteps

-----------------------------------------------------------------------------
(* Edges follow the cursor.                                                *)

-----------------------------------------------------------------------------
(* Complete runs mirror the directory.                                     *)

\* What changes one document's rows changes those of one path.
LEMMA OneShelf ==
    ASSUME WholeRuns, TypeOK, NEW q \in Paths, NEW rows,
           chunks' = [chunks EXCEPT ![<<IdOf[q], Whole>>] = rows]
    PROVE  /\ \A p \in Paths : Shelved(p)' = IF p = q THEN rows ELSE Shelved(p)
           /\ \A d \in DocKeys : chunks'[d] = chunks[d] \/ d = <<IdOf[q], Whole>>
<1>1. \A p \in Paths : <<IdOf[p], Whole>> \in DocKeys
  BY IdsAssumption DEF DocKeys
<1>2. chunks \in [DocKeys -> Docs]
  BY DEF TypeOK, Tables
<1>3. \A p \in Paths : p # q => IdOf[p] # IdOf[q]
  BY DEF WholeRuns
<1> QED
  BY <1>1, <1>2, <1>3 DEF Shelved

\* The one document of a content, written over anything, is that content's.
LEMMA WholeWrite ==
    ASSUME WholeDocuments, WholeRuns, RestInv, ScanInv, WriteFrame
    PROVE  /\ ix = 1 /\ ix' = 2
           /\ chunks' = [chunks EXCEPT ![<<IdOf[cur], Whole>>] = RowsOf(body)]
<1>1. pc = "frame" /\ body \in Versions /\ cur \in Paths /\ ix \in Nat \ {0}
  BY DEF WriteFrame, RestInv, TypeOK
<1>2. Len(Frames[body]) = 1 /\ Frames[body][1].key = Whole /\ Frames[body][1].n # 0 /\ DeleteOrphans
  BY <1>1 DEF WholeDocuments
<1>3. ix = 1 /\ ix' = 2
  BY <1>1, <1>2 DEF WriteFrame
<1>4. Written(chunks[<<IdOf[cur], Whole>>], Frames[body][1].n, body) = RowsOf(body)
  BY <1>2 DEF Written, RowsOf
<1>5. chunks' = [chunks EXCEPT ![<<IdOf[cur], Whole>>] =
                     Written(chunks[<<IdOf[cur], Whole>>], Frames[body][1].n, body)]
  BY <1>2, <1>3 DEF WriteFrame
<1> QED
  BY <1>3, <1>4, <1>5

\* No run is cut short.
LEMMA NoLimits ==
    ASSUME ScanInv
    PROVE  ~LimitReached
  BY DEF ScanInv, LimitReached

LEMMA ScanKept ==
    ASSUME WholeDocuments, WholeRuns, RestInv, ScanInv, Start \/ RunStep
    PROVE  ScanInv'
<1>1. /\ UNCHANGED disk /\ TypeOK /\ Unmoved
      /\ pc \notin {"idle", "finalize"} => base = cursorFile
      /\ pc = "idle" => todo = {}
  BY DEF RestInv, Start, RunStep, CreateTable, Glob, StatNext, ReadBytes, Parse, WriteFrame,
         RecordDoc, ScanDone, EndLoop, PruneGlob, PruneOne, PruneDone, Trim, Save, Finalize,
         FileVanished
<1>2. CASE Start
  BY <1>1, <1>2 DEF Start, WholeRuns, ScanInv
<1>3. CASE CreateTable
  BY <1>1, <1>3 DEF CreateTable, ScanInv
<1>4. CASE Glob
  BY <1>1, <1>4 DEF Glob, ScanInv, InFlight, CurrentPaths
<1>5. CASE StatNext
  <2> DEFINE p == FirstPath(todo)
  <2>1. /\ disk[p].ver # 0 /\ p \in todo /\ p \in Paths
    BY <1>1, <1>5, NoneVanishes DEF TypeOK
  <2>2. /\ pc = "next" /\ todo' = todo \ {p} /\ cur' = p
        /\ pc' = IF StatMatches(p, base[p]) THEN "next" ELSE "read"
        /\ UNCHANGED <<cursorFile, base, newCur, limit, result>>
    BY <1>5, <2>1 DEF StatNext
  <2>3. StatMatches(p, base[p]) => newCur[p].h = disk[p].ver
    <3>1. Faithful(cursorFile[p], p)
      BY <2>1 DEF RestInv
    <3>2. newCur[p].h = base[p].h \/ newCur[p].h = disk[p].ver
      BY <2>1, <2>2 DEF ScanInv
    <3> QED
      BY <1>1, <2>1, <2>2, <3>1, <3>2 DEF Faithful, StatMatches
  <2>4. \A q \in CurrentPaths \ (todo' \cup InFlight') : newCur[q].h = disk[q].ver
    BY <2>2, <2>3 DEF ScanInv, InFlight
  <2> HIDE DEF p
  <2> QED
    BY <1>1, <2>2, <2>4 DEF ScanInv, CurrentPaths
<1>6. CASE ReadBytes
  <2>1. /\ disk[cur].ver # 0 /\ pc = "read" /\ cur \in Paths
    BY <1>1, <1>6, NoneVanishes DEF ReadBytes, TypeOK
  <2>2. /\ pc' = IF HashMatches(cur, base[cur]) THEN "next" ELSE "parse"
        /\ UNCHANGED <<cursorFile, base, newCur, limit, result, todo, cur>>
    BY <1>6, <2>1 DEF ReadBytes
  <2>3. HashMatches(cur, base[cur]) => newCur[cur].h = disk[cur].ver
    <3>1. newCur[cur].h = base[cur].h \/ newCur[cur].h = disk[cur].ver
      BY <2>1 DEF ScanInv
    <3> QED
      BY <2>1, <3>1 DEF HashMatches
  <2>4. \A q \in CurrentPaths \ (todo' \cup InFlight') : newCur[q].h = disk[q].ver
    BY <2>1, <2>2, <2>3 DEF ScanInv, InFlight
  <2> QED
    BY <1>1, <2>1, <2>2, <2>4 DEF ScanInv, CurrentPaths
<1>7. CASE Parse
  <2>1. /\ disk[cur].ver # 0 /\ pc = "parse" /\ pc' = "frame"
        /\ UNCHANGED <<cursorFile, base, newCur, limit, result, todo, cur>>
    BY <1>7, NoneVanishes, NoLimits DEF Parse
  <2> QED
    BY <1>1, <2>1 DEF ScanInv, CurrentPaths, InFlight
<1>8. CASE WriteFrame
  BY <1>1, <1>8 DEF WriteFrame, ScanInv, CurrentPaths, InFlight
<1>9. CASE RecordDoc
  <2>1. /\ disk[cur].ver # 0 /\ pc = "frame" /\ cur \in Paths /\ newCur \in Cursors
    BY <1>1, <1>9, NoneVanishes DEF RecordDoc, TypeOK
  <2>2. /\ pc' = "next" /\ newCur' = [newCur EXCEPT ![cur] = [h |-> fp, mt |-> disk[cur].mt]]
        /\ UNCHANGED <<cursorFile, base, limit, result, todo, cur>>
    BY <1>9, <2>1 DEF RecordDoc
  <2>3. \A p \in Paths : newCur'[p] = newCur[p] \/ (p = cur /\ newCur'[p].h = disk[p].ver)
    BY <1>1, <2>1, <2>2 DEF Unmoved, Cursors
  <2>4. newCur'[cur].h = disk[cur].ver
    BY <1>1, <2>1, <2>2 DEF Unmoved, Cursors
  <2>5. \A q \in CurrentPaths \ (todo' \cup InFlight') : newCur'[q].h = disk[q].ver
    BY <2>1, <2>2, <2>3, <2>4 DEF ScanInv, InFlight, CurrentPaths
  <2> QED
    BY <1>1, <2>1, <2>2, <2>3, <2>5 DEF ScanInv, CurrentPaths
<1>10. CASE ScanDone \/ EndLoop \/ PruneGlob \/ PruneOne \/ PruneDone
  <2>1. /\ UNCHANGED <<cursorFile, base, newCur, limit, result, todo, cur>>
        /\ pc \in {"next", "end", "prune_glob", "prune"} /\ (pc = "next" => todo = {})
        /\ pc' \in {"end", "prune_glob", "prune", "trim"}
    BY <1>10, NoLimits DEF ScanDone, EndLoop, PruneGlob, PruneOne, PruneDone
  <2> QED
    BY <1>1, <2>1 DEF ScanInv, CurrentPaths, InFlight
<1>11. CASE Trim
  <2>1. \A p \in Paths : newCur'[p].h = disk[p].ver
    BY <1>11 DEF Trim, ScanInv, InFlight, CurrentPaths, NoEntry
  <2> QED
    BY <1>1, <1>11, <2>1 DEF Trim, ScanInv, InFlight, CurrentPaths
<1>12. CASE Save
  BY <1>1, <1>12 DEF Save, ScanInv
<1>13. CASE Finalize
  BY <1>1, <1>13, NoLimits DEF Finalize, EndRun, ScanInv
<1> QED
  BY <1>2, <1>3, <1>4, <1>5, <1>6, <1>7, <1>8, <1>9, <1>10, <1>11, <1>12, <1>13 DEF RunStep

LEMMA TableKept ==
    ASSUME WholeDocuments, WholeRuns, RestInv, ScanInv, TableInv, Start \/ RunStep
    PROVE  TableInv'
<1>1. /\ UNCHANGED disk /\ TypeOK /\ Unmoved
      /\ pc \notin {"idle", "finalize"} => base = cursorFile
      /\ pc = "idle" => todo = {}
  BY DEF RestInv, Start, RunStep, CreateTable, Glob, StatNext, ReadBytes, Parse, WriteFrame,
         RecordDoc, ScanDone, EndLoop, PruneGlob, PruneOne, PruneDone, Trim, Save, Finalize,
         FileVanished
<1>2. \A d \in DocKeys : chunks[d] = EmptyDoc \/ \E p \in Paths : d = <<IdOf[p], Whole>>
  BY DEF TableInv
<1>3. chunks' = chunks => \A p \in Paths : Shelved(p)' = Shelved(p)
  BY DEF Shelved
<1>4. CASE Start
  BY <1>1, <1>2, <1>3, <1>4 DEF Start, TableInv
<1>5. CASE CreateTable
  <2>1. UNCHANGED <<chunks, newCur>> /\ pc = "create" /\ pc' = "glob"
    BY <1>5 DEF CreateTable, WholeRuns
  <2> QED
    BY <1>2, <1>3, <2>1 DEF TableInv
<1>6. CASE Glob \/ StatNext \/ ReadBytes
  <2>1. /\ UNCHANGED <<chunks, newCur>> /\ pc \in {"glob", "next", "read"}
        /\ pc' \in {"next", "read", "parse"}
    BY <1>6, NoneVanishes DEF Glob, StatNext, ReadBytes
  <2> QED
    BY <1>2, <1>3, <2>1 DEF TableInv
<1>7. CASE Parse
  <2>1. /\ UNCHANGED <<chunks, newCur, cur>> /\ pc = "parse" /\ pc' = "frame" /\ ix' = 1
        /\ cur \in Paths
    BY <1>1, <1>7, NoneVanishes, NoLimits DEF Parse, TypeOK
  <2> QED
    BY <1>2, <1>3, <2>1 DEF TableInv
<1>8. CASE WriteFrame
  <2>1. /\ UNCHANGED <<newCur, cur, body>> /\ pc = "frame" /\ pc' = "frame" /\ ix' = 2
        /\ chunks' = [chunks EXCEPT ![<<IdOf[cur], Whole>>] = RowsOf(body)] /\ cur \in Paths
    BY <1>1, <1>8, WholeWrite DEF WriteFrame, TypeOK
  <2>2. /\ \A p \in Paths : Shelved(p)' = IF p = cur THEN RowsOf(body) ELSE Shelved(p)
        /\ \A d \in DocKeys : chunks'[d] = chunks[d] \/ d = <<IdOf[cur], Whole>>
    BY <1>1, <2>1, OneShelf
  <2>3. Shelved(cur)' = RowsOf(body)
    BY <2>1, <2>2 DEF Shelved
  <2> QED
    BY <1>2, <2>1, <2>2, <2>3 DEF TableInv
<1>9. CASE RecordDoc
  <2>1. /\ disk[cur].ver # 0 /\ pc = "frame" /\ cur \in Paths /\ newCur \in Cursors
        /\ body \in Versions /\ fp = body
    BY <1>1, <1>9, NoneVanishes DEF RecordDoc, TypeOK, Unmoved
  <2>2. /\ pc' = "next" /\ newCur' = [newCur EXCEPT ![cur] = [h |-> fp, mt |-> disk[cur].mt]]
        /\ UNCHANGED chunks /\ ix > Len(Frames[body])
    BY <1>9, <2>1 DEF RecordDoc
  <2>3. Shelved(cur) = RowsOf(body)
    BY <2>1, <2>2 DEF TableInv, WholeDocuments
  <2>4. \A p \in Paths : IF p = cur THEN newCur'[p].h = body ELSE newCur'[p] = newCur[p]
    BY <2>1, <2>2 DEF Cursors
  <2>5. \A p \in Paths : Shelved(p)' = Rows(newCur'[p].h)
    BY <1>3, <2>1, <2>2, <2>3, <2>4 DEF TableInv, Rows
  <2> QED
    BY <1>2, <2>2, <2>5 DEF TableInv
<1>10. CASE ScanDone \/ EndLoop
  <2>1. /\ UNCHANGED <<chunks, newCur>> /\ pc \in {"next", "end"} /\ pc' \in {"end", "prune_glob"}
    BY <1>10, NoLimits DEF ScanDone, EndLoop
  <2> QED
    BY <1>2, <1>3, <2>1 DEF TableInv
<1>11. CASE PruneGlob
  <2>1. /\ UNCHANGED <<chunks, newCur>> /\ pc = "prune_glob" /\ pc' = "prune"
        /\ dels' = {IdOf[p] : p \in {q \in Paths : base[q].h # 0 /\ q \notin CurrentPaths}}
    BY <1>11 DEF PruneGlob
  <2>2. ASSUME NEW p \in Paths, disk[p].ver = 0
        PROVE  Shelved(p) = EmptyDoc \/ IdOf[p] \in dels'
    <3>1. newCur[p].h = base[p].h /\ Shelved(p) = Rows(newCur[p].h)
      BY <2>1, <2>2 DEF ScanInv, TableInv
    <3> QED
      BY <2>1, <2>2, <3>1 DEF Rows, CurrentPaths
  <2>3. \A id \in dels' : \E p \in Paths : IdOf[p] = id /\ disk[p].ver = 0
    BY <2>1 DEF CurrentPaths
  <2> QED
    BY <1>1, <1>2, <1>3, <2>1, <2>2, <2>3 DEF TableInv
<1>12. CASE PruneOne
  <2>1. PICK id \in dels : /\ dels' = dels \ {id}
                           /\ chunks' = [chunks EXCEPT ![<<id, Whole>>] = EmptyDoc]
    BY <1>12 DEF PruneOne
  <2>2. pc = "prune" /\ pc' = "prune" /\ UNCHANGED newCur
    BY <1>12 DEF PruneOne
  <2>3. PICK q \in Paths : IdOf[q] = id /\ disk[q].ver = 0
    BY <2>1, <2>2 DEF TableInv
  <2>4. /\ \A p \in Paths : Shelved(p)' = IF p = q THEN EmptyDoc ELSE Shelved(p)
        /\ \A d \in DocKeys : chunks'[d] = chunks[d] \/ d = <<IdOf[q], Whole>>
    BY <1>1, <2>1, <2>3, OneShelf
  <2>5. \A p \in Paths : p # q => IdOf[p] # id
    BY <2>3 DEF WholeRuns
  <2>6. ASSUME NEW p \in Paths
        PROVE  IF disk[p].ver # 0 THEN Shelved(p)' = Rows(newCur[p].h)
               ELSE Shelved(p)' = EmptyDoc \/ IdOf[p] \in dels'
    BY <2>1, <2>2, <2>3, <2>4, <2>5 DEF TableInv
  <2>7. \A i \in dels' : \E p \in Paths : IdOf[p] = i /\ disk[p].ver = 0
    BY <2>1, <2>2 DEF TableInv
  <2> QED
    BY <1>1, <1>2, <2>2, <2>4, <2>6, <2>7 DEF TableInv
<1>13. CASE PruneDone
  <2>1. UNCHANGED <<chunks, newCur>> /\ pc = "prune" /\ pc' = "trim" /\ dels = {}
    BY <1>13 DEF PruneDone
  <2> QED
    BY <1>1, <1>2, <1>3, <2>1 DEF TableInv
<1>14. CASE Trim
  <2>1. /\ UNCHANGED chunks /\ pc = "trim" /\ pc' = "save"
        /\ \A p \in Paths : newCur'[p] = IF disk[p].ver # 0 THEN newCur[p] ELSE NoEntry
    BY <1>14 DEF Trim, CurrentPaths
  <2>2. \A p \in Paths : Shelved(p) = Rows(newCur'[p].h)
    BY <2>1 DEF TableInv, NoEntry, Rows
  <2> QED
    BY <1>2, <1>3, <2>1, <2>2 DEF TableInv
<1>15. CASE Save
  BY <1>2, <1>3, <1>15 DEF Save, TableInv
<1>16. CASE Finalize
  BY <1>2, <1>3, <1>16 DEF Finalize, EndRun, TableInv
<1> QED
  BY <1>4, <1>5, <1>6, <1>7, <1>8, <1>9, <1>10, <1>11, <1>12, <1>13, <1>14, <1>15, <1>16
  DEF RunStep

LEMMA ExactInit == Init => ExactInv
<1> SUFFICES ASSUME Init PROVE ExactInv
  OBVIOUS
<1>1. \A d \in DocKeys : chunks[d] = EmptyDoc
  BY DEF Init
<1>2. \A p \in Paths : <<IdOf[p], Whole>> \in DocKeys
  BY IdsAssumption DEF DocKeys
<1>3. \A p \in Paths : Shelved(p) = EmptyDoc /\ cursorFile[p].h = 0
  BY <1>1, <1>2 DEF Init, Shelved, NoCursor, NoEntry
<1>4. TableInv
  BY <1>1, <1>3 DEF Init, TableInv, Rows
<1>5. ScanInv
  BY DEF Init, ScanInv
<1> QED
  BY <1>4, <1>5, RestInit DEF ExactInv

LEMMA ExactStep ==
    Offline /\ WholeRuns /\ WholeDocuments /\ ExactInv /\ [Next]_vars => ExactInv'
<1> SUFFICES ASSUME Offline, WholeRuns, WholeDocuments, ExactInv, [Next]_vars PROVE ExactInv'
  OBVIOUS
<1>1. TypeOK /\ RestInv /\ ScanInv /\ TableInv /\ RestInv'
  BY RestStep DEF ExactInv, RestInv
<1>2. CASE UNCHANGED vars
  <2>1. TableInv'
    BY <1>1, <1>2 DEF vars, TableInv, Shelved
  <2>2. ScanInv'
    BY <1>1, <1>2 DEF vars, ScanInv, CurrentPaths, InFlight
  <2> QED
    BY <1>1, <2>1, <2>2 DEF ExactInv
<1>3. ASSUME pc = "idle", NEW p \in Paths, Delete(p) \/ \E v \in 1 .. clock + 1 : PutFile(p, v)
      PROVE  ExactInv'
  <2>1. /\ pc' = "idle" /\ quiet' = FALSE /\ todo = {}
        /\ UNCHANGED <<chunks, cursorFile, limit, todo>>
    BY <1>1, <1>3 DEF Delete, PutFile, RestInv
  <2>2. TableInv'
    BY <1>1, <1>3, <2>1 DEF TableInv, Shelved
  <2>3. ScanInv'
    BY <1>1, <1>3, <2>1 DEF ScanInv
  <2> QED
    BY <1>1, <2>2, <2>3 DEF ExactInv
<1>4. CASE Start \/ RunStep
  BY <1>1, <1>4, ScanKept, TableKept DEF ExactInv
<1> QED
  BY <1>1, <1>2, <1>3, <1>4, OfflineSteps

\* A complete run of an offline cell leaves the table equal to the directory,
\* whatever was created, edited, restored or deleted between the runs: for any
\* files and contents of one document each, and both detections.
THEOREM CompleteRunsMirror ==
    ASSUME Offline, WholeRuns, WholeDocuments PROVE Spec => []MirrorsAtCompletion
<1>1. Init => ExactInv
  BY ExactInit
<1>2. ExactInv /\ [Next]_vars => ExactInv'
  BY ExactStep
<1>3. ExactInv => MirrorsAtCompletion
  <2> SUFFICES ASSUME ExactInv, result = "complete", quiet, NEW d \in DocKeys, NEW s \in Seqs
               PROVE  chunks[d][s] =
                        IF \E p \in CurrentPaths : \E i \in DOMAIN Frames[disk[p].ver] :
                             /\ d = <<IdOf[p], Frames[disk[p].ver][i].key>>
                             /\ s < Frames[disk[p].ver][i].n
                        THEN disk[CHOOSE p \in CurrentPaths : IdOf[p] = d[1]].ver
                        ELSE 0
    BY DEF MirrorsAtCompletion, Mirrored
  <2>1. /\ TypeOK /\ pc = "idle" /\ \A p \in Paths : cursorFile[p].h = disk[p].ver
        /\ \A p \in Paths : Shelved(p) = Rows(disk[p].ver)
    BY DEF ExactInv, RestInv, ScanInv, TableInv
  <2>2. \A p \in CurrentPaths : /\ p \in Paths /\ disk[p].ver \in Versions
                                /\ DOMAIN Frames[disk[p].ver] = {1}
                                /\ Frames[disk[p].ver][1].key = Whole
    <3>1. \A p \in CurrentPaths : p \in Paths /\ disk[p].ver \in Versions
      BY <2>1, Components, BoundsAssumption DEF CurrentPaths
    <3>2. \A p \in CurrentPaths : DOMAIN Frames[disk[p].ver] = 1 .. 1
      BY <3>1, FrameIndex DEF WholeDocuments
    <3> QED
      BY <3>1, <3>2 DEF WholeDocuments
  <2>3. EmptyDoc[s] = 0
    BY DEF EmptyDoc
  <2>4. CASE \E p \in CurrentPaths : d = <<IdOf[p], Whole>>
    <3>1. PICK p \in CurrentPaths : d = <<IdOf[p], Whole>>
      BY <2>4
    <3>2. \A q \in CurrentPaths : IdOf[q] = d[1] => q = p
      BY <2>2, <3>1 DEF WholeRuns
    <3>3. (CHOOSE q \in CurrentPaths : IdOf[q] = d[1]) = p
      BY <3>1, <3>2
    <3>4. chunks[d] = RowsOf(disk[p].ver)
      BY <2>1, <2>2, <3>1 DEF Shelved, Rows, CurrentPaths
    <3>5. chunks[d][s] = IF s < Frames[disk[p].ver][1].n THEN disk[p].ver ELSE 0
      BY <3>4 DEF RowsOf
    <3>6. (\E q \in CurrentPaths : \E i \in DOMAIN Frames[disk[q].ver] :
               /\ d = <<IdOf[q], Frames[disk[q].ver][i].key>>
               /\ s < Frames[disk[q].ver][i].n)
          <=> s < Frames[disk[p].ver][1].n
      BY <2>2, <3>1, <3>2
    <3> QED
      BY <3>3, <3>5, <3>6
  <2>5. CASE ~ \E p \in CurrentPaths : d = <<IdOf[p], Whole>>
    <3>1. chunks[d] = EmptyDoc
      <4>1. \A p \in Paths : p \notin CurrentPaths => Shelved(p) = EmptyDoc
        BY <2>1 DEF CurrentPaths, Rows
      <4>2. chunks[d] = EmptyDoc \/ \E p \in Paths : d = <<IdOf[p], Whole>>
        BY DEF ExactInv, TableInv
      <4> QED
        BY <2>5, <4>1, <4>2 DEF Shelved
    <3>2. ~ \E p \in CurrentPaths : \E i \in DOMAIN Frames[disk[p].ver] :
               /\ d = <<IdOf[p], Frames[disk[p].ver][i].key>>
               /\ s < Frames[disk[p].ver][i].n
      BY <2>2, <2>5
    <3> QED
      BY <2>3, <3>1, <3>2
  <2> QED
    BY <2>4, <2>5
<1> QED
  BY <1>1, <1>2, <1>3, PTL DEF Spec
=============================================================================
