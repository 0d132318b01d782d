------------------------- MODULE SessionMemoryProofs -------------------------
(***************************************************************************)
(* Proofs about SessionMemory, for any events, sessions and facts, any     *)
(* framing, both cells, any number of runs and failures.                   *)
(***************************************************************************)
EXTENDS SessionMemory, FiniteSetTheorems, WellFoundedInduction, TLAPS

-----------------------------------------------------------------------------
(* Numbers: the least, the greatest and the k-th of a set.                 *)

LEMMA LeastExists ==
    ASSUME NEW S \in SUBSET Nat, S # {}
    PROVE  \E x \in S : \A y \in S : x <= y
<1> DEFINE R == OpToRel(<, Nat)
<1>1. IsWellFoundedOn(R, Nat)
  BY NatLessThanWellFounded
<1>2. PICK x \in S : \A y \in S : ~ (<<y, x>> \in R)
  <2> HIDE DEF R
  <2> QED
    BY <1>1, WFMin
<1>3. \A y \in S : ~ (y < x)
  BY <1>2 DEF OpToRel
<1> QED
  BY <1>3

\* A greatest member is one that the fewest others exceed.
LEMMA GreatestExists ==
    ASSUME NEW S \in SUBSET Nat, S # {}, IsFiniteSet(S)
    PROVE  \E x \in S : \A y \in S : y <= x
<1> DEFINE Above(e) == {x \in S : x > e}
           K == {Cardinality(Above(e)) : e \in S}
<1>1. \A e \in S : IsFiniteSet(Above(e)) /\ Cardinality(Above(e)) \in Nat
  <2> TAKE e \in S
  <2>1. Above(e) \subseteq S
    OBVIOUS
  <2> QED
    BY <2>1, FS_Subset, FS_CardinalityType
<1>2. K \in SUBSET Nat /\ K # {}
  BY <1>1
<1>3. PICK k \in K : \A j \in K : k <= j
  <2> HIDE DEF K
  <2> QED
    BY <1>2, LeastExists
<1>4. PICK e \in S : k = Cardinality(Above(e))
  BY <1>3
<1>5. ASSUME NEW y \in S, y > e
      PROVE  FALSE
  <2>1. \A z \in Above(y) : z \in Above(e)
    BY <1>5
  <2>2. y \in Above(e) /\ y \notin Above(y)
    BY <1>5
  <2>3. Cardinality(Above(y)) < Cardinality(Above(e))
    <3> HIDE DEF Above
    <3>1. Above(y) \subseteq Above(e) /\ Above(y) # Above(e)
      BY <2>1, <2>2
    <3> QED
      BY <1>1, <3>1, FS_Subset
  <2>4. Cardinality(Above(e)) <= Cardinality(Above(y))
    BY <1>3, <1>4
  <2> HIDE DEF Above
  <2> QED
    BY <1>1, <2>3, <2>4
<1> QED
  BY <1>5

\* First picks a member of a set of sessions that has one.
LEMMA FirstInSet ==
    ASSUME NEW S \in SUBSET Sessions, S # {}
    PROVE  First(S) \in S
<1>1. \E x \in S : \A y \in S : x <= y
  BY LeastExists, EventsAssumption
<1> QED
  BY <1>1 DEF First

LEMMA EventsFinite ==
    ASSUME NEW S \in SUBSET Events
    PROVE  S \in SUBSET Nat /\ IsFiniteSet(S) /\ Cardinality(S) \in Nat
  BY EventsAssumption, FS_Subset, FS_CardinalityType

\* Every rank below the cardinality is that of a member, so that InOrder is a
\* sequence of members.
LEMMA InOrderMembers ==
    ASSUME NEW S \in SUBSET Events
    PROVE  /\ Cardinality(S) \in Nat
           /\ DOMAIN InOrder(S) = 1 .. Cardinality(S)
           /\ \A i \in 1 .. Cardinality(S) : InOrder(S)[i] \in S
<1> DEFINE Below(e) == {x \in S : x < e}
           n == Cardinality(S)
           rank == [e \in S |-> Cardinality(Below(e))]
<1>1. S \in SUBSET Nat /\ IsFiniteSet(S) /\ n \in Nat
  BY EventsFinite
<1>2. \A e \in S : IsFiniteSet(Below(e)) /\ Cardinality(Below(e)) \in Nat
  <2> TAKE e \in S
  <2>1. Below(e) \subseteq S
    OBVIOUS
  <2> QED
    BY <1>1, <2>1, FS_Subset, FS_CardinalityType
<1>3. \A e \in S : rank[e] \in 0 .. n - 1
  <2> TAKE e \in S
  <2>1. Below(e) \subseteq S /\ e \notin Below(e)
    BY <1>1
  <2>2. Cardinality(Below(e)) < n
    <3> HIDE DEF Below
    <3> QED
      BY <1>1, <1>2, <2>1, FS_Subset
  <2> HIDE DEF Below
  <2> QED
    BY <1>1, <1>2, <2>2
<1>4. ASSUME NEW e \in S, NEW f \in S, e < f
      PROVE  rank[e] < rank[f]
  <2>1. \A z \in Below(e) : z \in Below(f)
    BY <1>1, <1>4
  <2>2. e \in Below(f) /\ e \notin Below(e)
    BY <1>1, <1>4
  <2> HIDE DEF Below
  <2>3. Below(e) \subseteq Below(f) /\ Below(e) # Below(f)
    BY <2>1, <2>2
  <2> QED
    BY <1>2, <2>3, FS_Subset
<1>5. rank \in Injection(S, 0 .. n - 1)
  <2>1. \A e, f \in S : rank[e] = rank[f] => e = f
    <3> SUFFICES ASSUME NEW e \in S, NEW f \in S, rank[e] = rank[f], e # f
                 PROVE  FALSE
      OBVIOUS
    <3>1. e < f \/ f < e
      BY <1>1
    <3>2. rank[e] \in Int /\ rank[f] \in Int
      BY <1>3
    <3> HIDE DEF rank
    <3> QED
      BY <1>4, <3>1, <3>2
  <2>2. rank \in [S -> 0 .. n - 1]
    BY <1>3
  <2> HIDE DEF rank
  <2> QED
    BY <2>1, <2>2 DEF Injection, IsInjective
<1>6. IsFiniteSet(0 .. n - 1) /\ Cardinality(0 .. n - 1) = n
  <2>1. 0 \in Int /\ n - 1 \in Int /\ (n = 0 \/ 0 <= n - 1)
    BY <1>1
  <2> HIDE DEF n
  <2> QED
    BY <1>1, <2>1, FS_Interval
<1>7. rank \in Surjection(S, 0 .. n - 1)
  <2> HIDE DEF rank
  <2> QED
    BY <1>5, <1>6, FS_Injection
<1>8. \A k \in 0 .. n - 1 : \E e \in S : rank[e] = k
  <2> HIDE DEF rank
  <2> QED
    BY <1>7 DEF Surjection
<1>9. ASSUME NEW i \in 1 .. n
      PROVE  InOrder(S)[i] \in S
  <2>1. i - 1 \in 0 .. n - 1
    BY <1>1, <1>9
  <2>2. \E e \in S : Cardinality({x \in S : x < e}) = i - 1
    BY <1>8, <2>1
  <2> QED
    BY <2>2 DEF InOrder
<1> QED
  BY <1>1, <1>9 DEF InOrder

-----------------------------------------------------------------------------
(* What a run computes: framed documents, their chunks and their rows.     *)

\* The time of an episode is that of its last event.
LEMMA EpisodeEndOfLast ==
    ASSUME stagedAt \in [Events -> Times], NEW evs \in SUBSET Events
    PROVE  /\ EpisodeEnd(evs) \in Times
           /\ evs # {} => \E e \in evs : /\ \A x \in evs : x <= e
                                         /\ EpisodeEnd(evs) = EventTime(e)
<1>1. CASE evs = {}
  BY <1>1, SettingsAssumption DEF EpisodeEnd, Times
<1>2. CASE evs # {}
  <2>1. \E e \in evs : \A x \in evs : x <= e
    BY <1>2, EventsFinite, GreatestExists
  <2>2. \A e \in evs : EventTime(e) \in Times
    BY EventsAssumption DEF EventTime, Times
  <2> QED
    BY <1>2, <2>1, <2>2 DEF EpisodeEnd
<1> QED
  BY <1>1, <1>2

\* What a document becomes, found being the facts of the consolidator.
Chunks(m, evs, found) ==
    IF m = "realtime" THEN Windows[evs] ELSE ConsolidatedChunks(evs, found)

\* The first chunk of an episode holds its events, every other one a fact.
ChunksOf(evs, found, cs) ==
    /\ Len(cs) \in Nat /\ Len(cs) >= 1 /\ DOMAIN cs = 1 .. Len(cs)
    /\ cs[1].evs = evs /\ cs[1].fact = NoFact
    /\ \A i \in 1 .. Len(cs) :
          /\ cs[i].evs \in {evs, {}}
          /\ i # 1 => \E e \in found : cs[i].fact = FactOf[e]
          /\ cs[i].from = EpisodeEnd(evs)
          /\ cs[i].live = TRUE

LEMMA ConsolidatedShape ==
    ASSUME NEW evs \in SUBSET Events, NEW found \in SUBSET Stating(evs),
           NEW cs, cs = ConsolidatedChunks(evs, found)
    PROVE  ChunksOf(evs, found, cs)
<1> DEFINE c(S, f) == [tier |-> "consolidated", evs |-> S, fact |-> f,
                       from |-> EpisodeEnd(evs), live |-> TRUE]
           fs == InOrder(found)
           n == Cardinality(found)
           t(i) == c({}, FactOf[fs[i]])
           facts == [i \in 1 .. n |-> t(i)]
<1>1. found \in SUBSET Events
  BY DEF Stating
<1>2. n \in Nat /\ DOMAIN fs = 1 .. n /\ \A i \in 1 .. n : fs[i] \in found
  BY <1>1, InOrderMembers
<1>3. facts \in Seq({t(i) : i \in 1 .. n}) /\ Len(facts) = n
  <2> HIDE DEF t, n
  <2> QED
    BY <1>2
<1>4. cs = <<c(evs, NoFact)>> \o facts
  BY <1>2 DEF ConsolidatedChunks, fs
<1> HIDE DEF fs, n
<1>5. Len(cs) = n + 1 /\ DOMAIN cs = 1 .. n + 1
  BY <1>2, <1>3, <1>4
<1>6. cs[1] = c(evs, NoFact)
  BY <1>3, <1>4
<1>7. \A i \in 2 .. n + 1 : cs[i] = c({}, FactOf[fs[i - 1]]) /\ fs[i - 1] \in found
  BY <1>2, <1>3, <1>4
<1>8. \A i \in 1 .. n + 1 : i # 1 => i \in 2 .. n + 1
  BY <1>2
<1>9. \A S, f : /\ c(S, f).evs = S /\ c(S, f).fact = f
                /\ c(S, f).from = EpisodeEnd(evs) /\ c(S, f).live = TRUE
  OBVIOUS
<1> HIDE DEF facts, c
<1>10. \A i \in 1 .. n + 1 :
         /\ cs[i].evs \in {evs, {}}
         /\ i # 1 => \E e \in found : cs[i].fact = FactOf[e]
         /\ cs[i].from = EpisodeEnd(evs)
         /\ cs[i].live = TRUE
  <2> TAKE i \in 1 .. n + 1
  <2>1. CASE i = 1
    BY <1>6, <1>9, <2>1
  <2>2. CASE i # 1
    BY <1>7, <1>8, <1>9, <2>2
  <2> QED
    BY <2>1, <2>2
<1> QED
  BY <1>2, <1>5, <1>6, <1>9, <1>10 DEF ChunksOf

\* The rows of a document are numbered from seq_base on, without a gap.
NumberedFrom(s, base, cs, new) ==
    /\ Len(cs) \in Nat /\ DOMAIN cs = 1 .. Len(cs)
    /\ new \subseteq Rows
    /\ \A x \in new : x.sid = s /\ x.seq \in base .. base + Len(cs) - 1
    /\ \A q \in base .. base + Len(cs) - 1 : \E x \in new : x.seq = q

LEMMA Numbering ==
    ASSUME NEW s, NEW base \in Nat, NEW cs, NEW row, NEW new,
           Len(cs) \in Nat, DOMAIN cs = 1 .. Len(cs),
           new = {row[i] : i \in 1 .. Len(cs)},
           \A i \in 1 .. Len(cs) : /\ row[i] \in Rows /\ row[i].sid = s
                                   /\ row[i].seq = base + i - 1
    PROVE  NumberedFrom(s, base, cs, new)
<1>1. ASSUME NEW x \in new
      PROVE  x \in Rows /\ x.sid = s /\ x.seq \in base .. base + Len(cs) - 1
  <2>1. PICK i \in 1 .. Len(cs) : x = row[i]
    OBVIOUS
  <2>2. base + i - 1 \in base .. base + Len(cs) - 1
    OBVIOUS
  <2> QED
    BY <2>1, <2>2
<1>2. ASSUME NEW q \in base .. base + Len(cs) - 1
      PROVE  \E x \in new : x.seq = q
  <2>1. q - base + 1 \in 1 .. Len(cs) /\ q = base + (q - base + 1) - 1
    OBVIOUS
  <2>2. row[q - base + 1] \in new /\ row[q - base + 1].seq = q
    BY <2>1
  <2> QED
    BY <2>2
<1> QED
  BY <1>1, <1>2 DEF NumberedFrom

LEMMA NewRowsShape ==
    ASSUME memory \subseteq Rows, stagedAt \in [Events -> Times],
           NEW m \in Modes, NEW s \in Sessions, NEW base \in Nat,
           NEW evs \in SUBSET Events, NEW found \in SUBSET Stating(evs),
           NEW cs, cs = Chunks(m, evs, found),
           NEW new, new = NewRows(m, s, base, cs)
    PROVE  NumberedFrom(s, base, cs, new)
<1>1. EpisodeEnd(evs) \in Times
  BY EpisodeEndOfLast
<1>2. Len(cs) \in Nat /\ DOMAIN cs = 1 .. Len(cs)
  <2>1. CASE m = "realtime"
    BY <2>1, CutsAssumption DEF Chunks
  <2>2. CASE m # "realtime"
    BY <2>2, ConsolidatedShape DEF Chunks, ChunksOf
  <2> QED
    BY <2>1, <2>2
<1>3. CASE m = "realtime"
  <2>1. cs \in Seq(SUBSET Events)
    BY <1>3, CutsAssumption DEF Chunks
  <2>2. \A i \in 1 .. Len(cs) : base + i - 1 \in Nat /\ cs[i] \in SUBSET Events
    BY <2>1, <1>2
  <2>3. ASSUME NEW q \in Nat, NEW S \in SUBSET Events
        PROVE  /\ ProvisionalRow(s, q, S) \in Rows
               /\ ProvisionalRow(s, q, S).sid = s /\ ProvisionalRow(s, q, S).seq = q
    <3> DEFINE old == {r \in memory : r.sid = s /\ r.seq = q}
    <3>1. CASE old = {}
      <4>1. ProvisionalRow(s, q, S) =
               [sid |-> s, seq |-> q, tier |-> "provisional", evs |-> S,
                fact |-> NoFact, from |-> 0, live |-> TRUE]
        BY <3>1 DEF ProvisionalRow
      <4> QED
        BY <4>1, SettingsAssumption DEF Rows, Times
    <3>2. CASE old # {}
      <4>1. PICK r \in old : ProvisionalRow(s, q, S) =
               [r EXCEPT !.tier = "provisional", !.evs = S]
        BY <3>2 DEF ProvisionalRow
      <4>2. r \in Rows /\ r.sid = s /\ r.seq = q
        OBVIOUS
      <4> QED
        BY <4>1, <4>2 DEF Rows
    <3> QED
      BY <3>1, <3>2
  <2> DEFINE row == [i \in 1 .. Len(cs) |-> ProvisionalRow(s, base + i - 1, cs[i])]
  <2>4. new = {row[i] : i \in 1 .. Len(cs)}
    BY <1>2, <1>3 DEF NewRows
  <2>5. \A i \in 1 .. Len(cs) : /\ row[i] \in Rows /\ row[i].sid = s
                                /\ row[i].seq = base + i - 1
    BY <2>2, <2>3
  <2> HIDE DEF row
  <2> QED
    BY <1>2, <2>4, <2>5, Numbering
<1>4. CASE m # "realtime"
  <2> DEFINE r(i) == [sid |-> s, seq |-> base + i - 1, tier |-> "consolidated",
                      evs |-> cs[i].evs, fact |-> cs[i].fact,
                      from |-> cs[i].from, live |-> TRUE]
             row == [i \in 1 .. Len(cs) |-> r(i)]
  <2>1. \A i \in 1 .. Len(cs) :
           /\ cs[i].evs \in SUBSET Events
           /\ cs[i].fact \in Facts \cup {NoFact}
           /\ cs[i].from \in Times
    <3>1. \A e \in Stating(evs) : FactOf[e] \in Facts \cup {NoFact}
      BY EventsAssumption DEF Stating
    <3>2. cs = ConsolidatedChunks(evs, found)
      BY <1>4 DEF Chunks
    <3> TAKE i \in 1 .. Len(cs)
    <3>3. ChunksOf(evs, found, cs)
      BY <3>2, ConsolidatedShape
    <3> QED
      BY <1>1, <3>1, <3>3 DEF ChunksOf
  <2>2. new = {row[i] : i \in 1 .. Len(cs)}
    BY <1>2, <1>4 DEF NewRows
  <2>3. \A i \in 1 .. Len(cs) : base + i - 1 \in Nat
    BY <1>2
  <2>4. \A i \in 1 .. Len(cs) : r(i) \in Rows
    BY <2>1, <2>3 DEF Rows
  <2>5. \A i \in 1 .. Len(cs) : r(i).sid = s /\ r(i).seq = base + i - 1
    OBVIOUS
  <2> HIDE DEF r
  <2>6. \A i \in 1 .. Len(cs) : /\ row[i] \in Rows /\ row[i].sid = s
                                /\ row[i].seq = base + i - 1
    BY <2>4, <2>5
  <2> HIDE DEF row
  <2> QED
    BY <1>2, <2>2, <2>6, Numbering
<1> QED
  BY <1>3, <1>4

-----------------------------------------------------------------------------
(* Typing.                                                                 *)

\* What is picked is what was selected, and a session at hand was picked, has
\* left the queue and has a document to write.
WellFormed(run) ==
    /\ run.queue \subseteq run.picked
    /\ run.picked = {SessionOf[e] : e \in run.batch}
    /\ run.pc \in {"write", "invalidate"} =>
          run.sid \in run.picked \ run.queue /\ run.frames # <<>>

TypeInv == TypeOK /\ \A m \in Modes : WellFormed(cell[m])

LEMMA IdleTyped == Idle \in Runs /\ WellFormed(Idle)
<1>1. Idle \in Runs
  BY SettingsAssumption DEF Idle, Runs, Times
<1> QED
  BY <1>1 DEF Idle, WellFormed

\* A step of cell m replaces its locals and leaves those of the other alone.
LEMMA CellChange ==
    ASSUME TypeInv, NEW m \in Modes, NEW run \in Runs, WellFormed(run),
           cell' = [cell EXCEPT ![m] = run]
    PROVE  cell' \in [Modes -> Runs] /\ \A o \in Modes : WellFormed(cell'[o])
  BY DEF TypeInv, TypeOK

LEMMA FramedTyped ==
    ASSUME NEW m \in Modes, NEW S \in SUBSET Events, S # {}
    PROVE  /\ Framed(m, S) \in Seq(SUBSET Events) /\ Framed(m, S) # <<>>
           /\ UNION {Framed(m, S)[i] : i \in DOMAIN Framed(m, S)} = S
<1>1. CASE m = "consolidate"
  <2>1. /\ Episodes[S] \in Seq(SUBSET Events)
        /\ UNION {Episodes[S][i] : i \in DOMAIN Episodes[S]} = S
    BY CutsAssumption
  <2>2. Episodes[S] # <<>>
    BY <2>1
  <2> QED
    BY <1>1, <2>1, <2>2 DEF Framed
<1>2. CASE m # "consolidate"
  <2>1. Framed(m, S) = <<S>>
    BY <1>2 DEF Framed
  <2>2. <<S>> \in Seq(SUBSET Events) /\ <<S>> # <<>>
    OBVIOUS
  <2>3. DOMAIN <<S>> = {1} /\ <<S>>[1] = S
    OBVIOUS
  <2>4. {<<S>>[i] : i \in DOMAIN <<S>>} = {S}
    BY <2>3
  <2> QED
    BY <2>1, <2>2, <2>4
<1> QED
  BY <1>1, <1>2

LEMMA TailTyped ==
    ASSUME NEW T, NEW q \in Seq(T), q # <<>>
    PROVE  /\ Head(q) \in T /\ Tail(q) \in Seq(T)
           /\ Len(q) > 1 <=> Tail(q) # <<>>
  OBVIOUS

LEMMA OpenTyped ==
    ASSUME TypeInv, NEW m \in Modes, Open(m)
    PROVE  TypeInv'
<1> DEFINE run == [cell[m] EXCEPT !.pc = "select", !.wm = clock]
<1>1. cell[m] \in Runs /\ clock \in Times
  BY DEF TypeInv, TypeOK
<1>2. run \in Runs
  BY <1>1 DEF Runs
<1>3. WellFormed(run)
  BY <1>1 DEF TypeInv, WellFormed, Runs
<1>4. cell' = [cell EXCEPT ![m] = run]
  BY <1>1 DEF Open, TypeInv, TypeOK
<1> HIDE DEF run
<1> QED
  BY <1>2, <1>3, <1>4, CellChange DEF TypeInv, TypeOK, Open

\* The cap of max_sessions on a run only leaves sessions out.
LEMMA CappedInSet ==
    ASSUME NEW S
    PROVE  Capped(S) \in SUBSET S
  BY DEF Capped

LEMMA SelectTyped ==
    ASSUME TypeInv, NEW m \in Modes, Select(m)
    PROVE  TypeInv'
<1> DEFINE batch == Selected(m, cell[m].wm)
           picked == {SessionOf[e] : e \in batch}
           run == [cell[m] EXCEPT !.pc = "next", !.batch = batch,
                                  !.picked = picked, !.queue = Capped(picked)]
<1>1. cell[m] \in Runs
  BY DEF TypeInv, TypeOK
<1>2. batch \in SUBSET Events
  BY DEF Selected, Committed
<1>4. cell' = [cell EXCEPT ![m] = run]
  BY <1>1 DEF Select, TypeInv, TypeOK
<1> HIDE DEF batch
<1>5. picked = {SessionOf[e] : e \in batch}
  OBVIOUS
<1> HIDE DEF picked
<1>3. picked \in SUBSET Sessions /\ Capped(picked) \in SUBSET picked
  <2>1. \A e \in batch : SessionOf[e] \in Sessions
    BY <1>2, EventsAssumption
  <2>2. picked \in SUBSET Sessions
    BY <1>5, <2>1
  <2>3. Capped(picked) \in SUBSET picked
    BY CappedInSet
  <2> QED
    BY <2>2, <2>3
<1>6. run \in Runs
  BY <1>1, <1>2, <1>3 DEF Runs
<1>7. WellFormed(run)
  BY <1>1, <1>3, <1>5 DEF WellFormed, Runs
<1> HIDE DEF run
<1> QED
  BY <1>4, <1>6, <1>7, CellChange DEF TypeInv, TypeOK, Select

LEMMA TakeTyped ==
    ASSUME TypeInv, NEW m \in Modes, Take(m)
    PROVE  TypeInv'
<1> DEFINE s == First(cell[m].queue)
           evs == {e \in cell[m].batch : SessionOf[e] = s}
           run == [cell[m] EXCEPT !.pc = "write", !.sid = s, !.queue = @ \ {s},
                                  !.frames = Framed(m, evs),
                                  !.base = 0, !.superseded = FALSE]
<1>1. cell[m] \in Runs /\ WellFormed(cell[m])
  BY DEF TypeInv, TypeOK
<1>2. s \in cell[m].queue /\ s \in cell[m].picked /\ s \in Sessions
  BY <1>1, FirstInSet DEF Take, Runs, WellFormed
<1>3. evs \in SUBSET Events /\ evs # {}
  BY <1>1, <1>2 DEF Runs, WellFormed
<1>4. Framed(m, evs) \in Seq(SUBSET Events) /\ Framed(m, evs) # <<>>
  BY <1>3, FramedTyped
<1>5. cell' = [cell EXCEPT ![m] = Idle] \/ cell' = [cell EXCEPT ![m] = run]
  BY <1>1 DEF Take, TypeInv, TypeOK
<1> HIDE DEF evs, s
<1>6. run \in Runs
  BY <1>1, <1>2, <1>4 DEF Runs
<1>7. WellFormed(run)
  BY <1>1, <1>2, <1>4 DEF WellFormed, Runs
<1> HIDE DEF run
<1> QED
  BY <1>5, <1>6, <1>7, CellChange, IdleTyped DEF TypeInv, TypeOK, Take

LEMMA SupersedeTyped ==
    ASSUME TypeInv, NEW m \in Modes, Supersede(m)
    PROVE  TypeInv'
<1> DEFINE run == [cell[m] EXCEPT !.superseded = TRUE]
<1>1. cell[m] \in Runs /\ WellFormed(cell[m])
  BY DEF TypeInv, TypeOK
<1>2. run \in Runs
  BY <1>1 DEF Runs
<1>3. WellFormed(run)
  BY <1>1 DEF WellFormed, Runs
<1>4. cell' = [cell EXCEPT ![m] = run]
  BY <1>1 DEF Supersede, TypeInv, TypeOK
<1>5. memory' \subseteq Rows
  BY DEF Supersede, TypeInv, TypeOK
<1> HIDE DEF run
<1> QED
  BY <1>2, <1>3, <1>4, <1>5, CellChange DEF TypeInv, TypeOK, Supersede

\* Advance leaves the session for the next one, or for its next document.
LEMMA AdvanceFields ==
    ASSUME NEW run \in Runs
    PROVE  /\ Advance(run).pc = IF Len(run.frames) > 1 THEN "write" ELSE "next"
           /\ Advance(run).frames = Tail(run.frames)
           /\ Advance(run).wm = run.wm /\ Advance(run).batch = run.batch
           /\ Advance(run).picked = run.picked /\ Advance(run).queue = run.queue
           /\ Advance(run).sid = run.sid /\ Advance(run).base = run.base
           /\ Advance(run).superseded = run.superseded
  BY DEF Advance, Runs

LEMMA AdvanceTyped ==
    ASSUME NEW run \in Runs, WellFormed(run), run.frames # <<>>,
           run.sid \in run.picked \ run.queue
    PROVE  Advance(run) \in Runs /\ WellFormed(Advance(run))
<1>1. /\ run.frames \in Seq(SUBSET Events)
      /\ Tail(run.frames) \in Seq(SUBSET Events)
      /\ Len(run.frames) > 1 => Tail(run.frames) # <<>>
  BY TailTyped DEF Runs
<1>2. Advance(run) \in Runs
  BY <1>1 DEF Advance, Runs
<1>3. WellFormed(Advance(run))
  BY <1>1 DEF Advance, Runs, WellFormed
<1> QED
  BY <1>2, <1>3

\* What Insert does: it upserts the rows of the next document.
Inserts(m, evs, found, cs, new, next) ==
    /\ evs = Head(cell[m].frames) /\ evs \in SUBSET Events
    /\ found \in {Stating(evs), {}}
    /\ cs = Chunks(m, evs, found)
    /\ new = NewRows(m, cell[m].sid, cell[m].base, cs)
    /\ NumberedFrom(cell[m].sid, cell[m].base, cs, new)
    /\ memory' = Upserted(new, cell[m].sid, Len(cs))
    /\ next = [cell[m] EXCEPT !.base = cell[m].base + Len(cs)]
    /\ next \in Runs /\ WellFormed(next)
    /\ cell' = [cell EXCEPT ![m] =
           IF m = "realtime" \/ found = {} THEN Advance(next)
           ELSE [next EXCEPT !.pc = "invalidate"]]

\* The locals of the run after Insert.
AfterInsert(run, n, found, after) ==
    /\ after.wm = run.wm /\ after.batch = run.batch
    /\ after.picked = run.picked /\ after.queue = run.queue
    /\ after.sid = run.sid /\ after.base = run.base + n
    /\ after.superseded = run.superseded
    /\ \/ /\ found = {}
          /\ after.pc = IF Len(run.frames) > 1 THEN "write" ELSE "next"
          /\ after.frames = Tail(run.frames)
       \/ /\ found # {}
          /\ after.pc = "invalidate" /\ after.frames = run.frames

LEMMA InsertEffect ==
    ASSUME TypeInv, NEW m \in Modes, Insert(m)
    PROVE  \E evs, found, cs, new, next : Inserts(m, evs, found, cs, new, next)
<1>1. cell[m] \in Runs /\ WellFormed(cell[m]) /\ memory \subseteq Rows
      /\ stagedAt \in [Events -> Times] /\ cell \in [Modes -> Runs]
  BY DEF TypeInv, TypeOK
<1>2. /\ cell[m].frames \in Seq(SUBSET Events) /\ cell[m].frames # <<>>
      /\ cell[m].sid \in Sessions /\ cell[m].base \in Nat
  BY <1>1 DEF Runs, WellFormed, Insert
<1> DEFINE evs == Head(cell[m].frames)
           next(n) == [cell[m] EXCEPT !.base = cell[m].base + n]
<1>3. evs \in SUBSET Events
  BY <1>2, TailTyped
<1>4. PICK found \in {Stating(evs), {}} :
         LET cs == Chunks(m, evs, found)
         IN /\ memory' = Upserted(NewRows(m, cell[m].sid, cell[m].base, cs),
                                  cell[m].sid, Len(cs))
            /\ cell' = [cell EXCEPT ![m] =
                   IF m = "realtime" \/ found = {} THEN Advance(next(Len(cs)))
                   ELSE [next(Len(cs)) EXCEPT !.pc = "invalidate"]]
  BY <1>1 DEF Insert, Chunks
<1>5. found \in SUBSET Stating(evs)
  OBVIOUS
<1> DEFINE cs == Chunks(m, evs, found)
           new == NewRows(m, cell[m].sid, cell[m].base, cs)
<1>6. NumberedFrom(cell[m].sid, cell[m].base, cs, new)
  BY <1>1, <1>2, <1>3, <1>5, NewRowsShape
<1>7. Len(cs) \in Nat
  BY <1>6 DEF NumberedFrom
<1>8. ASSUME NEW n \in Nat
      PROVE  next(n) \in Runs /\ WellFormed(next(n))
  <2>1. cell[m].base + n \in Nat
    BY <1>2
  <2>2. next(n) \in Runs
    BY <1>1, <2>1 DEF Runs
  <2> QED
    BY <1>1, <2>2 DEF WellFormed, Runs
<1>9. Inserts(m, evs, found, cs, new, next(Len(cs)))
  BY <1>3, <1>4, <1>6, <1>7, <1>8 DEF Inserts
<1> QED
  BY <1>9

LEMMA InsertTyped ==
    ASSUME TypeInv, NEW m \in Modes, Insert(m)
    PROVE  TypeInv'
<1>1. PICK evs, found, cs, new, next : Inserts(m, evs, found, cs, new, next)
  BY InsertEffect
<1>2. memory' \subseteq Rows
  BY <1>1 DEF Inserts, NumberedFrom, Upserted, TypeInv, TypeOK
<1>3. cell[m] \in Runs /\ WellFormed(cell[m]) /\ cell[m].pc = "write"
  BY DEF TypeInv, TypeOK, Insert
<1>4. /\ next \in Runs /\ WellFormed(next)
      /\ next.frames # <<>> /\ next.sid \in next.picked \ next.queue
  BY <1>1, <1>3 DEF Inserts, WellFormed, Runs
<1>5. Advance(next) \in Runs /\ WellFormed(Advance(next))
  BY <1>4, AdvanceTyped
<1> DEFINE run == [next EXCEPT !.pc = "invalidate"]
<1>6. run \in Runs
  BY <1>4 DEF Runs
<1>7. WellFormed(run)
  BY <1>4 DEF WellFormed, Runs
<1> HIDE DEF run
<1>8. cell' = [cell EXCEPT ![m] = Advance(next)] \/ cell' = [cell EXCEPT ![m] = run]
  BY <1>1 DEF Inserts, run
<1> QED
  BY <1>2, <1>5, <1>6, <1>7, <1>8, CellChange DEF TypeInv, TypeOK, Insert

LEMMA InvalidateTyped ==
    ASSUME TypeInv, NEW m \in Modes, Invalidate(m)
    PROVE  TypeInv'
<1>1. cell[m] \in Runs /\ WellFormed(cell[m]) /\ cell[m].pc = "invalidate"
  BY DEF TypeInv, TypeOK, Invalidate
<1>2. Advance(cell[m]) \in Runs /\ WellFormed(Advance(cell[m]))
  BY <1>1, AdvanceTyped DEF WellFormed
<1>3. memory' \subseteq Rows
  <2> DEFINE evs == Head(cell[m].frames)
             row(r) == [r EXCEPT !.live = r.live /\ ~Contradicted(r, evs)]
  <2>1. memory' = {row(r) : r \in memory}
    BY DEF Invalidate
  <2>2. ASSUME NEW r \in Rows
        PROVE  row(r) \in Rows
    <3>1. (r.live /\ ~Contradicted(r, evs)) \in BOOLEAN
      OBVIOUS
    <3> QED
      BY <3>1 DEF Rows
  <2> HIDE DEF row
  <2> QED
    BY <2>1, <2>2 DEF TypeInv, TypeOK
<1> QED
  BY <1>2, <1>3, CellChange DEF TypeInv, TypeOK, Invalidate

LEMMA MarkTyped ==
    ASSUME TypeInv, NEW m \in Modes, Mark(m)
    PROVE  TypeInv'
<1>1. cell' = [cell EXCEPT ![m] = Idle]
  BY DEF Mark
<1>2. consumed' \in [Modes -> [Events -> Times]]
  <2>1. /\ consumed \in [Modes -> [Events -> Times]] /\ cell[m].wm \in Times
        /\ cell \in [Modes -> Runs]
    BY DEF TypeInv, TypeOK, Runs
  <2> DEFINE marks == [e \in Events |->
                 IF e \in Committed /\ SessionOf[e] \in cell[m].picked
                 THEN cell[m].wm ELSE consumed[m][e]]
  <2>2. marks \in [Events -> Times]
    BY <2>1
  <2>3. consumed' = [consumed EXCEPT ![m] = marks]
    BY <2>1 DEF Mark
  <2> QED
    BY <2>1, <2>2, <2>3
<1> QED
  BY <1>1, <1>2, CellChange, IdleTyped DEF TypeInv, TypeOK, Mark

LEMMA FailTyped ==
    ASSUME TypeInv, NEW m \in Modes, Fail(m)
    PROVE  TypeInv'
<1>1. faults' \in 0 .. MaxFaults
  BY SettingsAssumption DEF Fail, TypeInv, TypeOK
<1> QED
  BY <1>1, CellChange, IdleTyped DEF TypeInv, TypeOK, Fail

LEMMA StagingTyped ==
    ASSUME TypeInv,
           \/ Tick
           \/ \E e \in Events : BeginStage(e) \/ CommitStage(e)
           \/ \E t \in 1 .. clock : Prune(t)
    PROVE  TypeInv'
<1>1. CASE Tick
  BY <1>1, SettingsAssumption DEF Tick, TypeInv, TypeOK, Times
<1>2. ASSUME NEW e \in Events, BeginStage(e)
      PROVE  TypeInv'
  <2>1. clock + 1 \in Times /\ 0 \in Times
    BY <1>2, SettingsAssumption DEF BeginStage, TypeInv, TypeOK, Times
  <2>2. /\ staged' \in [Events -> {"absent", "open", "committed"}]
        /\ stagedAt' \in [Events -> Times]
    BY <1>2, <2>1 DEF BeginStage, TypeInv, TypeOK
  <2>3. consumed' \in [Modes -> [Events -> Times]]
    BY <1>2, <2>1 DEF BeginStage, TypeInv, TypeOK
  <2> QED
    BY <1>2, <2>1, <2>2, <2>3 DEF BeginStage, TypeInv, TypeOK
<1>3. ASSUME NEW e \in Events, CommitStage(e)
      PROVE  TypeInv'
  BY <1>3 DEF CommitStage, TypeInv, TypeOK
<1>4. ASSUME NEW t \in 1 .. clock, Prune(t)
      PROVE  TypeInv'
  BY <1>4 DEF Prune, TypeInv, TypeOK
<1> QED
  BY <1>1, <1>2, <1>3, <1>4

LEMMA TypeInit == Init => TypeInv
<1> SUFFICES ASSUME Init PROVE TypeInv
  OBVIOUS
<1>1. 0 \in Times /\ 1 \in Times /\ 0 \in 0 .. MaxFaults
  BY SettingsAssumption DEF Times
<1>2. \A m \in Modes : cell[m] = Idle
  BY DEF Init
<1>3. cell \in [Modes -> Runs]
  BY IdleTyped DEF Init
<1> QED
  BY <1>1, <1>2, <1>3, IdleTyped DEF Init, TypeInv, TypeOK

LEMMA TypeStep == TypeInv /\ [Next]_vars => TypeInv'
<1> SUFFICES ASSUME TypeInv, [Next]_vars
             PROVE  TypeInv'
  OBVIOUS
<1>1. ASSUME NEW m \in Cells, RunStep(m) \/ Fail(m)
      PROVE  TypeInv'
  <2>1. m \in Modes
    BY SettingsAssumption
  <2> QED
    BY <1>1, <2>1, OpenTyped, SelectTyped, TakeTyped, SupersedeTyped,
       InsertTyped, InvalidateTyped, MarkTyped, FailTyped DEF RunStep
<1>2. CASE UNCHANGED vars
  BY <1>2 DEF vars, TypeInv, TypeOK
<1> QED
  BY <1>1, <1>2, StagingTyped DEF Next

\* Every variable keeps its type, in every configuration.
THEOREM Typing == Spec => []TypeOK
<1>1. TypeInv => TypeOK
  BY DEF TypeInv
<1> QED
  BY <1>1, TypeInit, TypeStep, PTL DEF Spec

LEMMA InsertRun ==
    ASSUME TypeInv, NEW m \in Modes,
           NEW evs, NEW found, NEW cs, NEW new, NEW next,
           Inserts(m, evs, found, cs, new, next)
    PROVE  /\ AfterInsert(cell[m], Len(cs), IF m = "realtime" THEN {} ELSE found,
                          cell'[m])
           /\ \A o \in Modes \ {m} : cell'[o] = cell[o]
<1>1. cell[m] \in Runs /\ cell \in [Modes -> Runs]
  BY DEF TypeInv, TypeOK
<1>2. /\ next = [cell[m] EXCEPT !.base = cell[m].base + Len(cs)]
      /\ next \in Runs
      /\ cell' = [cell EXCEPT ![m] =
             IF m = "realtime" \/ found = {} THEN Advance(next)
             ELSE [next EXCEPT !.pc = "invalidate"]]
  BY DEF Inserts
<1>3. /\ next.wm = cell[m].wm /\ next.batch = cell[m].batch
      /\ next.picked = cell[m].picked /\ next.queue = cell[m].queue
      /\ next.sid = cell[m].sid /\ next.base = cell[m].base + Len(cs)
      /\ next.superseded = cell[m].superseded /\ next.frames = cell[m].frames
  BY <1>1, <1>2 DEF Runs
<1>4. CASE m = "realtime" \/ found = {}
  <2>1. cell'[m] = Advance(next)
    BY <1>1, <1>2, <1>4
  <2> QED
    BY <1>1, <1>2, <1>3, <1>4, <2>1, AdvanceFields DEF AfterInsert
<1>5. CASE ~(m = "realtime" \/ found = {})
  <2>1. cell'[m] = [next EXCEPT !.pc = "invalidate"]
    BY <1>1, <1>2, <1>5
  <2>2. /\ cell'[m].wm = next.wm /\ cell'[m].batch = next.batch
        /\ cell'[m].picked = next.picked /\ cell'[m].queue = next.queue
        /\ cell'[m].sid = next.sid /\ cell'[m].base = next.base
        /\ cell'[m].superseded = next.superseded
        /\ cell'[m].frames = next.frames /\ cell'[m].pc = "invalidate"
    <3>1. next \in Runs
      BY <1>2
    <3> QED
      BY <2>1, <3>1 DEF Runs
  <2> QED
    BY <1>1, <1>2, <1>3, <1>5, <2>2 DEF AfterInsert
<1> QED
  BY <1>4, <1>5

-----------------------------------------------------------------------------
(* The numbering of a session's rows.                                      *)

\* The realtime cell writes one document per session, from number 0.  Before
\* the consolidate cell has superseded a session it has written none of its
\* rows; afterwards the row before seq_base is in the table.
NumberedRun(m) ==
    /\ m = "realtime" => cell[m].pc # "invalidate"
    /\ m = "realtime" /\ cell[m].pc = "write" =>
          cell[m].base = 0 /\ Len(cell[m].frames) = 1
    /\ m = "consolidate" /\ cell[m].pc \in {"write", "invalidate"} =>
          IF cell[m].superseded
          THEN cell[m].base # 0 =>
                  \E r \in memory : /\ r.sid = cell[m].sid
                                    /\ r.seq = cell[m].base - 1
          ELSE cell[m].base = 0

NumberedInv == TypeInv /\ RowsContiguous /\ \A m \in Modes : NumberedRun(m)

\* No number of a session disappears.
NumbersKept ==
    \A r \in memory : \E q \in memory' : q.sid = r.sid /\ q.seq = r.seq

LEMMA OtherRunNumbered ==
    ASSUME NumberedInv, NEW m \in Modes, NumbersKept, cell'[m] = cell[m]
    PROVE  NumberedRun(m)'
  BY DEF NumberedInv, NumberedRun, NumbersKept

LEMMA NumberedInit == Init => NumberedInv
  BY TypeInit DEF Init, Idle, NumberedInv, NumberedRun, RowsContiguous

\* A step that changes no row but the run of m.
LEMMA NumberedLocally ==
    ASSUME NumberedInv, TypeInv', NEW m \in Modes, NumberedRun(m)',
           \A o \in Modes \ {m} : cell'[o] = cell[o], memory' = memory
    PROVE  NumberedInv'
<1>1. NumbersKept
  BY DEF NumbersKept
<1>2. ASSUME NEW o \in Modes
      PROVE  NumberedRun(o)'
  BY <1>1, OtherRunNumbered
<1>3. RowsContiguous'
  BY DEF NumberedInv, RowsContiguous
<1> QED
  BY <1>2, <1>3 DEF NumberedInv

LEMMA TakeNumbered ==
    ASSUME NumberedInv, NEW m \in Modes, Take(m)
    PROVE  NumberedInv'
<1>1. TypeInv'
  BY TakeTyped DEF NumberedInv
<1>2. cell \in [Modes -> Runs]
  BY DEF NumberedInv, TypeInv, TypeOK
<1>3. memory' = memory /\ \A o \in Modes \ {m} : cell'[o] = cell[o]
  BY <1>2 DEF Take
<1>4. PICK S : \/ cell'[m] = Idle
               \/ cell'[m] = [cell[m] EXCEPT !.pc = "write",
                                 !.sid = First(cell[m].queue),
                                 !.queue = @ \ {First(cell[m].queue)},
                                 !.frames = Framed(m, S),
                                 !.base = 0, !.superseded = FALSE]
  BY <1>2 DEF Take
<1>5. CASE cell'[m] = Idle
  <2>1. NumberedRun(m)'
    BY <1>5 DEF NumberedRun, Idle
  <2> QED
    BY <1>1, <1>3, <2>1, NumberedLocally
<1>6. CASE cell'[m] # Idle
  <2>1. /\ cell'[m].pc = "write" /\ cell'[m].base = 0 /\ ~cell'[m].superseded
        /\ cell'[m].frames = Framed(m, S)
    BY <1>2, <1>4, <1>6 DEF Runs
  <2>2. m = "realtime" => Len(cell'[m].frames) = 1
    BY <2>1 DEF Framed
  <2>3. NumberedRun(m)'
    BY <2>1, <2>2 DEF NumberedRun
  <2> QED
    BY <1>1, <1>3, <2>3, NumberedLocally
<1> QED
  BY <1>5, <1>6

LEMMA SupersedeNumbered ==
    ASSUME NumberedInv, NEW m \in Modes, Supersede(m)
    PROVE  NumberedInv'
<1>1. TypeInv'
  BY SupersedeTyped DEF NumberedInv
<1>2. cell \in [Modes -> Runs] /\ cell[m] \in Runs
  BY DEF NumberedInv, TypeInv, TypeOK
<1>3. m = "consolidate" /\ cell[m].base = 0
  BY DEF NumberedInv, NumberedRun, Supersede, MustSupersede
<1>4. /\ cell'[m].base = 0 /\ cell'[m].superseded
      /\ cell'["realtime"] = cell["realtime"]
  BY <1>2, <1>3 DEF Supersede, Runs, Modes
<1>5. NumberedRun(m)'
  BY <1>3, <1>4 DEF NumberedRun
<1>6. NumberedRun("realtime")'
  BY <1>4 DEF NumberedInv, NumberedRun, Modes
<1>7. RowsContiguous'
  BY DEF Supersede, NumberedInv, RowsContiguous
<1> QED
  BY <1>1, <1>3, <1>5, <1>6, <1>7 DEF NumberedInv, Modes

LEMMA InsertNumbered ==
    ASSUME NumberedInv, ~DeleteOrphans, NEW m \in Modes, Insert(m)
    PROVE  NumberedInv'
<1>1. TypeInv' /\ TypeInv
  BY InsertTyped DEF NumberedInv
<1>2. cell \in [Modes -> Runs] /\ cell[m] \in Runs /\ memory \subseteq Rows
  BY DEF NumberedInv, TypeInv, TypeOK
<1>3. PICK evs, found, cs, new, next : Inserts(m, evs, found, cs, new, next)
  BY <1>1, InsertEffect
<1> DEFINE s == cell[m].sid
           b == cell[m].base
<1>4. /\ Len(cs) \in Nat /\ b \in Nat
      /\ new \subseteq Rows
      /\ \A x \in new : x.sid = s /\ x.seq \in b .. b + Len(cs) - 1
      /\ \A q \in b .. b + Len(cs) - 1 : \E x \in new : x.seq = q
  BY <1>2, <1>3 DEF Inserts, NumberedFrom, Runs
<1>5. memory' = {r \in memory : ~ \E x \in new : x.sid = r.sid /\ x.seq = r.seq} \cup new
  BY <1>3 DEF Inserts, Upserted
<1>6. NumbersKept
  BY <1>5 DEF NumbersKept
<1>7. b # 0 => \E r \in memory : r.sid = s /\ r.seq = b - 1
  BY DEF NumberedInv, NumberedRun, Insert, MustSupersede, Modes
<1>8. RowsContiguous'
  <2> SUFFICES ASSUME NEW r \in memory', r.seq # 0
               PROVE  \E q \in memory' : q.sid = r.sid /\ q.seq = r.seq - 1
    BY DEF RowsContiguous
  <2>1. CASE r \in memory
    <3>1. PICK q \in memory : q.sid = r.sid /\ q.seq = r.seq - 1
      BY <2>1 DEF NumberedInv, RowsContiguous
    <3> QED
      BY <1>6, <3>1 DEF NumbersKept
  <2>2. CASE r \in new /\ r.seq = b
    <3>1. PICK q \in memory : q.sid = s /\ q.seq = b - 1
      BY <1>7, <2>2
    <3> QED
      BY <1>4, <1>6, <2>2, <3>1 DEF NumbersKept
  <2>3. CASE r \in new /\ r.seq # b
    <3>1. r.seq - 1 \in b .. b + Len(cs) - 1
      BY <1>4, <2>3
    <3> QED
      BY <1>4, <1>5, <2>3, <3>1
  <2> QED
    BY <1>5, <2>1, <2>2, <2>3
<1>9. /\ AfterInsert(cell[m], Len(cs), IF m = "realtime" THEN {} ELSE found, cell'[m])
      /\ \A o \in Modes \ {m} : cell'[o] = cell[o]
  BY <1>1, <1>3, InsertRun
<1>10. NumberedRun(m)'
  <2>1. CASE m = "realtime"
    <3>1. cell[m].pc = "write" /\ Len(cell[m].frames) = 1
      BY <2>1 DEF NumberedInv, NumberedRun, Insert
    <3>2. cell'[m].pc = "next"
      BY <1>9, <2>1, <3>1 DEF AfterInsert
    <3> QED
      BY <2>1, <3>2 DEF NumberedRun
  <2>2. CASE m = "consolidate"
    <3>1. cell[m].superseded
      BY <2>2 DEF Insert, MustSupersede
    <3>2. cell'[m].superseded /\ cell'[m].base = b + Len(cs) /\ cell'[m].sid = s
      BY <1>9, <3>1 DEF AfterInsert
    <3>3. b + Len(cs) # 0 =>
             \E r \in memory' : r.sid = s /\ r.seq = b + Len(cs) - 1
      <4>1. CASE Len(cs) = 0
        BY <1>4, <1>6, <1>7, <4>1 DEF NumbersKept
      <4>2. CASE Len(cs) # 0
        <5>1. b + Len(cs) - 1 \in b .. b + Len(cs) - 1
          BY <1>4, <4>2
        <5> QED
          BY <1>4, <1>5, <5>1
      <4> QED
        BY <4>1, <4>2
    <3>4. cell'[m].base # 0 =>
             \E r \in memory' : r.sid = cell'[m].sid /\ r.seq = cell'[m].base - 1
      BY <1>4, <3>2, <3>3
    <3>5. m # "realtime"
      BY <2>2
    <3> QED
      BY <3>2, <3>4, <3>5 DEF NumberedRun
  <2> QED
    BY <2>1, <2>2 DEF Modes
<1>11. ASSUME NEW o \in Modes
       PROVE  NumberedRun(o)'
  BY <1>6, <1>9, <1>10, OtherRunNumbered
<1> QED
  BY <1>1, <1>8, <1>11 DEF NumberedInv

LEMMA InvalidateNumbered ==
    ASSUME NumberedInv, NEW m \in Modes, Invalidate(m)
    PROVE  NumberedInv'
<1>1. TypeInv'
  BY InvalidateTyped DEF NumberedInv
<1>2. cell \in [Modes -> Runs] /\ cell[m] \in Runs /\ memory \subseteq Rows
  BY DEF NumberedInv, TypeInv, TypeOK
<1> DEFINE row(r) == [r EXCEPT !.live = r.live /\ ~Contradicted(r, Head(cell[m].frames))]
<1>3. memory' = {row(r) : r \in memory}
  BY DEF Invalidate
<1>4. \A r \in memory : row(r).sid = r.sid /\ row(r).seq = r.seq
  BY <1>2 DEF Rows
<1> HIDE DEF row
<1>5. NumbersKept
  BY <1>3, <1>4 DEF NumbersKept
<1>6. RowsContiguous'
  <2> SUFFICES ASSUME NEW r \in memory, row(r).seq # 0
               PROVE  \E q \in memory' : q.sid = row(r).sid /\ q.seq = row(r).seq - 1
    BY <1>3 DEF RowsContiguous
  <2>1. PICK q \in memory : q.sid = r.sid /\ q.seq = r.seq - 1
    BY <1>4 DEF NumberedInv, RowsContiguous
  <2> QED
    BY <1>3, <1>4, <2>1
<1>7. m = "consolidate"
  BY DEF NumberedInv, NumberedRun, Invalidate, Modes
<1>8. cell'[m] = Advance(cell[m]) /\ \A o \in Modes \ {m} : cell'[o] = cell[o]
  BY <1>2 DEF Invalidate
<1>9. /\ cell'[m].superseded = cell[m].superseded
      /\ cell'[m].base = cell[m].base /\ cell'[m].sid = cell[m].sid
  BY <1>2, <1>8 DEF Advance, Runs
<1>10. NumberedRun(m)'
  <2>1. IF cell[m].superseded
        THEN cell[m].base # 0 =>
                \E r \in memory : r.sid = cell[m].sid /\ r.seq = cell[m].base - 1
        ELSE cell[m].base = 0
    BY <1>7 DEF NumberedInv, NumberedRun, Invalidate
  <2> QED
    BY <1>5, <1>7, <1>9, <2>1 DEF NumberedRun, NumbersKept
<1>11. ASSUME NEW o \in Modes
       PROVE  NumberedRun(o)'
  BY <1>5, <1>8, <1>10, OtherRunNumbered
<1> QED
  BY <1>1, <1>6, <1>11 DEF NumberedInv

LEMMA NumberedStep ==
    ASSUME ~DeleteOrphans PROVE NumberedInv /\ [Next]_vars => NumberedInv'
<1> SUFFICES ASSUME NumberedInv, [Next]_vars
             PROVE  NumberedInv'
  OBVIOUS
<1>1. TypeInv' /\ cell \in [Modes -> Runs]
  BY TypeStep DEF NumberedInv, TypeInv, TypeOK
<1>2. ASSUME NEW m \in Cells, RunStep(m) \/ Fail(m)
      PROVE  NumberedInv'
  <2>1. m \in Modes
    BY SettingsAssumption
  <2>2. ASSUME Open(m) \/ Select(m) \/ Mark(m) \/ Fail(m)
        PROVE  NumberedInv'
    <3>1. /\ memory' = memory /\ \A o \in Modes \ {m} : cell'[o] = cell[o]
          /\ cell'[m].pc \in {"idle", "select", "next"}
      <4>1. CASE Open(m)
        BY <1>1, <2>1, <4>1 DEF Open, Runs
      <4>2. CASE Select(m)
        BY <1>1, <2>1, <4>2 DEF Select, Runs
      <4>3. CASE Mark(m) \/ Fail(m)
        BY <1>1, <2>1, <4>3 DEF Mark, Fail, Idle
      <4> QED
        BY <2>2, <4>1, <4>2, <4>3
    <3>2. NumberedRun(m)'
      BY <3>1 DEF NumberedRun
    <3> QED
      BY <1>1, <2>1, <3>1, <3>2, NumberedLocally
  <2> QED
    BY <1>2, <2>1, <2>2, TakeNumbered, SupersedeNumbered, InsertNumbered,
       InvalidateNumbered DEF RunStep
<1>3. ASSUME memory' = memory, cell' = cell
      PROVE  NumberedInv'
  BY <1>1, <1>3 DEF NumberedInv, NumberedRun, RowsContiguous
<1> QED
  BY <1>2, <1>3 DEF Next, Tick, BeginStage, CommitStage, Prune, vars

\* Without delete_orphans the rows of every session are numbered from 0
\* without a gap, whatever the two cells do at the same time and whichever of
\* their runs fail.
THEOREM RowsStayContiguous ==
    ASSUME ~DeleteOrphans PROVE Spec => []RowsContiguous
<1>1. NumberedInv => RowsContiguous
  BY DEF NumberedInv
<1> QED
  BY <1>1, NumberedInit, NumberedStep, PTL DEF Spec

-----------------------------------------------------------------------------
(* What the consolidate cell is done with is in consolidated memory.       *)

\* The configurations of the guarantee: only the consolidate cell writes the
\* table, staging transactions end before a later cell reads, no session is
\* left behind by max_sessions and delete_orphans is off.
GuaranteedDelivery ==
    /\ Cells \subseteq {"consolidate"}
    /\ MaxSessions = NoCap
    /\ ~DeleteOrphans /\ ~Straddle

Run == cell["consolidate"]
Working == Run.pc \in {"next", "write", "invalidate"}
InSession == Run.pc \in {"write", "invalidate"}
BatchOf(s) == {e \in Run.batch : SessionOf[e] = s}
EventsIn(frames) == UNION {frames[i] : i \in DOMAIN frames}

\* Sessions the run has written every document of.
Finished(s) == Working /\ s \in Run.picked \ Run.queue /\ (InSession => s # Run.sid)

\* The batch has all that was staged of its sessions by the watermark, and the
\* sessions stay to be looked at until the run marks them.
SelectionInv ==
    Working => /\ \A s \in Run.picked : ~Retired(s)
               /\ \A e \in Committed :
                     SessionOf[e] \in Run.picked /\ stagedAt[e] <= Run.wm
                        => e \in Run.batch

\* The stamps in a session were all given by its last run.
OneStamp ==
    \A e, f \in Committed :
        /\ SessionOf[e] = SessionOf[f]
        /\ consumed["consolidate"][e] # 0 /\ consumed["consolidate"][f] # 0
        => consumed["consolidate"][e] = consumed["consolidate"][f]

\* Of the session at hand the documents that are yet to be written hold what
\* is not in memory, and the next one gets numbers no row has.
SessionInv ==
    /\ InSession =>
          /\ EventsIn(Run.frames) \subseteq BatchOf(Run.sid)
          /\ IF Run.superseded
             THEN \A r \in memory : r.sid = Run.sid => r.seq < Run.base
             ELSE Run.base = 0
    /\ Run.pc = "write" =>
          BatchOf(Run.sid) \subseteq
              EventsIn(Run.frames) \cup
              (IF Run.superseded THEN Remembered(Run.sid) ELSE {})
    /\ Run.pc = "invalidate" =>
          /\ Run.superseded
          /\ BatchOf(Run.sid) \subseteq
                 EventsIn(Tail(Run.frames)) \cup Remembered(Run.sid)

RememberedInv ==
    /\ TypeInv
    /\ \A r \in memory : r.tier = "consolidated"
    /\ \A e \in Events : staged[e] # "open" /\ stagedAt[e] <= clock
    /\ Run.wm <= clock
    /\ RetiredIsRemembered
    /\ SelectionInv
    /\ SessionInv
    /\ \A s \in Sessions : Finished(s) => BatchOf(s) \subseteq Remembered(s)

LEMMA SameStaging ==
    ASSUME UNCHANGED <<staged, stagedAt, consumed>>
    PROVE  /\ Committed' = Committed
           /\ \A s : /\ RowsOf(s)' = RowsOf(s)
                     /\ HasNews(s)' <=> HasNews(s)
                     /\ Retired(s)' <=> Retired(s)
  BY DEF Committed, RowsOf, HasNews, Retired

\* Sessions only gain what a reader finds when rows are only added.
LEMMA RowsKeptRemember ==
    ASSUME NEW s,
           \A r \in memory : r.sid = s =>
              \E q \in memory' : q.sid = s /\ q.tier = r.tier /\ q.evs = r.evs
    PROVE  Remembered(s) \subseteq Remembered(s)'
<1> SUFFICES ASSUME NEW e \in Remembered(s)
             PROVE  e \in Remembered(s)'
  OBVIOUS
<1>1. PICK r \in memory : r.sid = s /\ r.tier = "consolidated" /\ e \in r.evs
  BY DEF Remembered
<1>2. PICK q \in memory' : q.sid = s /\ q.tier = "consolidated" /\ e \in q.evs
  BY <1>1
<1> QED
  BY <1>2 DEF Remembered

LEMMA RememberedInit == Init => RememberedInv
<1> SUFFICES ASSUME Init PROVE RememberedInv
  OBVIOUS
<1>1. TypeInv
  BY TypeInit
<1>2. Run = Idle /\ memory = {} /\ clock = 1
  BY DEF Init, Run, Modes
<1>3. ~Working /\ ~InSession /\ Run.pc = "idle" /\ Run.wm = 0
  BY <1>2 DEF Working, InSession, Idle
<1>4. \A s \in Sessions : RowsOf(s) = {}
  BY DEF Init, RowsOf, Committed
<1>5. RetiredIsRemembered
  BY <1>4 DEF RetiredIsRemembered, Retired
<1>6. \A e \in Events : staged[e] # "open" /\ stagedAt[e] <= clock
  BY DEF Init
<1> QED
  BY <1>1, <1>2, <1>3, <1>5, <1>6
  DEF RememberedInv, SelectionInv, SessionInv, Finished

\* Staging an event makes its session one to look at, and is later than the
\* watermark of a run under way.
LEMMA BeginStageRemembers ==
    ASSUME GuaranteedDelivery, RememberedInv, NEW e \in Events, BeginStage(e)
    PROVE  RememberedInv'
<1>1. TypeInv'
  BY StagingTyped DEF RememberedInv
<1>2. /\ clock \in Nat /\ Run.wm \in Nat
      /\ staged \in [Events -> {"absent", "open", "committed"}]
      /\ stagedAt \in [Events -> Times] /\ consumed \in [Modes -> [Events -> Times]]
  BY DEF RememberedInv, TypeInv, TypeOK, Times, Run, Modes, Runs
<1>3. /\ clock' = clock + 1 /\ memory' = memory /\ Run' = Run
      /\ staged' = [staged EXCEPT ![e] = "committed"]
      /\ stagedAt' = [stagedAt EXCEPT ![e] = clock + 1]
      /\ consumed' = [m \in Modes |-> [consumed[m] EXCEPT ![e] = 0]]
      /\ staged[e] = "absent"
  BY DEF BeginStage, GuaranteedDelivery, Run
<1>4. \A f \in Events : f # e =>
         /\ staged'[f] = staged[f] /\ stagedAt'[f] = stagedAt[f]
         /\ consumed'["consolidate"][f] = consumed["consolidate"][f]
  BY <1>2, <1>3 DEF Modes
<1>5. /\ staged'[e] = "committed" /\ stagedAt'[e] = clock + 1
      /\ consumed'["consolidate"][e] = 0
  BY <1>2, <1>3 DEF Modes
<1>6. Committed' = Committed \cup {e} /\ e \notin Committed
  BY <1>3, <1>4, <1>5 DEF Committed
<1>7. \A s \in Sessions : s # SessionOf[e] =>
         RowsOf(s)' = RowsOf(s) /\ (HasNews(s)' <=> HasNews(s))
  <2> TAKE s \in Sessions
  <2> HAVE s # SessionOf[e]
  <2>1. RowsOf(s)' = RowsOf(s) /\ e \notin RowsOf(s) /\ RowsOf(s) \subseteq Events
    BY <1>6 DEF RowsOf, Committed
  <2>2. \A f \in RowsOf(s) :
           /\ stagedAt'[f] = stagedAt[f]
           /\ consumed'["consolidate"][f] = consumed["consolidate"][f]
    BY <1>4, <2>1
  <2> QED
    BY <2>1, <2>2 DEF HasNews
<1>8. HasNews(SessionOf[e])'
  <2>1. e \in RowsOf(SessionOf[e])'
    BY <1>6 DEF RowsOf
  <2> QED
    BY <1>5, <2>1 DEF HasNews
<1>9. RetiredIsRemembered'
  BY <1>3, <1>7, <1>8
  DEF RememberedInv, RetiredIsRemembered, Retired, Remembered
<1>10. SelectionInv'
  <2> SUFFICES ASSUME Working
               PROVE  /\ \A s \in Run.picked : ~Retired(s)'
                      /\ \A f \in Committed' :
                            SessionOf[f] \in Run.picked /\ stagedAt'[f] <= Run.wm
                              => f \in Run.batch
    BY <1>3 DEF SelectionInv, Working
  <2>1. Run.picked \subseteq Sessions
    BY DEF RememberedInv, TypeInv, TypeOK, Run, Modes, Runs
  <2>2. ~ (stagedAt'[e] <= Run.wm)
    BY <1>2, <1>5 DEF RememberedInv
  <2>3. \A f \in Committed : f # e /\ f \in Events
    BY <1>6 DEF Committed
  <2>4. ASSUME NEW s \in Run.picked
        PROVE  ~Retired(s)'
    BY <1>7, <1>8, <2>1 DEF RememberedInv, SelectionInv, Retired
  <2> QED
    BY <1>4, <1>6, <2>2, <2>3, <2>4 DEF RememberedInv, SelectionInv
<1>11. SessionInv' /\ \A s \in Sessions : (Finished(s) => BatchOf(s) \subseteq Remembered(s))'
  BY <1>3 DEF RememberedInv, SessionInv, Finished, BatchOf, Remembered, InSession,
              Working
<1>12. \A f \in Events : staged'[f] # "open" /\ stagedAt'[f] <= clock'
  <2>1. \A f \in Events : stagedAt[f] \in Int /\ staged[f] # "open" /\ stagedAt[f] <= clock
    BY <1>2 DEF RememberedInv, Times
  <2> QED
    BY <1>2, <1>3, <1>4, <1>5, <2>1
<1>13. Run'.wm <= clock'
  BY <1>2, <1>3 DEF RememberedInv
<1> QED
  BY <1>1, <1>3, <1>9, <1>10, <1>11, <1>12, <1>13 DEF RememberedInv

LEMMA RunTyped ==
    ASSUME TypeInv
    PROVE  Run \in Runs /\ WellFormed(Run) /\ "consolidate" \in Modes
  BY DEF TypeInv, TypeOK, Run, Modes

\* A run that has ended is of no session.
LEMMA IdleRemembers ==
    ASSUME RememberedInv, TypeInv', Run'.pc \in {"idle", "select"}, Run'.wm <= clock',
           UNCHANGED <<staged, stagedAt, consumed, memory, clock>>
    PROVE  RememberedInv'
<1>1. ~Working' /\ ~InSession'
  BY DEF Working, InSession
<1>2. RetiredIsRemembered'
  BY SameStaging DEF RememberedInv, RetiredIsRemembered, Remembered
<1> QED
  BY <1>1, <1>2 DEF RememberedInv, SelectionInv, SessionInv, Finished

LEMMA SelectEffect ==
    ASSUME GuaranteedDelivery, TypeInv, Select("consolidate")
    PROVE  LET batch == Selected("consolidate", Run.wm)
           IN /\ Run'.pc = "next" /\ Run'.wm = Run.wm /\ Run'.batch = batch
              /\ Run'.picked = {SessionOf[e] : e \in batch}
              /\ Run'.queue = Run'.picked
<1> DEFINE batch == Selected("consolidate", Run.wm)
<1>1. Run \in Runs
  BY RunTyped
<1>2. Capped({SessionOf[e] : e \in batch}) = {SessionOf[e] : e \in batch}
  BY DEF Capped, GuaranteedDelivery
<1>3. Run' = [Run EXCEPT !.pc = "next", !.batch = batch,
                         !.picked = {SessionOf[e] : e \in batch},
                         !.queue = Capped({SessionOf[e] : e \in batch})]
  BY <1>1 DEF Select, Run, TypeInv, TypeOK, Modes
<1> HIDE DEF batch
<1>4. /\ Run'.pc = "next" /\ Run'.wm = Run.wm /\ Run'.batch = batch
      /\ Run'.picked = {SessionOf[e] : e \in batch} /\ Run'.queue = Run'.picked
  BY <1>1, <1>2, <1>3 DEF Runs
<1> QED
  BY <1>4 DEF batch

LEMMA SelectRemembers ==
    ASSUME GuaranteedDelivery, RememberedInv, Select("consolidate")
    PROVE  RememberedInv'
<1>1. TypeInv' /\ TypeInv /\ Run \in Runs
  BY SelectTyped, RunTyped DEF RememberedInv
<1> DEFINE batch == Selected("consolidate", Run.wm)
<1>2. /\ Run'.pc = "next" /\ Run'.wm = Run.wm /\ Run'.batch = batch
      /\ Run'.picked = {SessionOf[e] : e \in batch} /\ Run'.queue = Run'.picked
  BY <1>1, SelectEffect
<1>3. batch = {e \in Committed : Quiet(SessionOf[e], Run.wm) /\ HasNews(SessionOf[e])}
  BY DEF Selected
<1>4. SelectionInv'
  <2>1. \A s \in {SessionOf[e] : e \in batch} : ~Retired(s)
    BY <1>3 DEF Retired
  <2>2. \A e \in Committed : SessionOf[e] \in {SessionOf[f] : f \in batch} => e \in batch
    BY <1>3
  <2> QED
    BY <1>2, <1>3, <2>1, <2>2, SameStaging DEF SelectionInv, Select
<1>5. SessionInv' /\ \A s \in Sessions : ~Finished(s)'
  BY <1>2 DEF SessionInv, Finished, InSession
<1>6. RetiredIsRemembered'
  BY SameStaging DEF RememberedInv, RetiredIsRemembered, Remembered, Select
<1> QED
  BY <1>1, <1>2, <1>4, <1>5, <1>6 DEF RememberedInv, Select

\* Either doc_limit ends the run, or the first session of the queue is framed.
LEMMA TakeEffect ==
    ASSUME TypeInv, Take("consolidate")
    PROVE  \/ Run' = Idle
           \/ /\ Run.pc = "next" /\ Run'.pc = "write"
              /\ Run'.wm = Run.wm /\ Run'.batch = Run.batch
              /\ Run'.picked = Run.picked
              /\ Run'.sid \in Run.queue /\ Run'.queue = Run.queue \ {Run'.sid}
              /\ Run'.frames = Framed("consolidate", BatchOf(Run'.sid))
              /\ EventsIn(Run'.frames) = BatchOf(Run'.sid)
              /\ Run'.base = 0 /\ ~Run'.superseded
<1>1. Run \in Runs /\ WellFormed(Run) /\ cell \in [Modes -> Runs]
  BY RunTyped DEF TypeInv, TypeOK
<1> DEFINE s == First(Run.queue)
<1>2. Run.pc = "next" /\ s \in Run.queue /\ s \in Run.picked
  BY <1>1, FirstInSet DEF Take, Runs, WellFormed, Run
<1>3. \/ Run' = Idle
      \/ Run' = [Run EXCEPT !.pc = "write", !.sid = s, !.queue = Run.queue \ {s},
                            !.frames = Framed("consolidate", BatchOf(s)),
                            !.base = 0, !.superseded = FALSE]
  BY <1>1 DEF Take, Run, Modes, BatchOf
<1> HIDE DEF s
<1>4. BatchOf(s) \in SUBSET Events /\ BatchOf(s) # {}
  BY <1>1, <1>2 DEF BatchOf, WellFormed, Runs
<1>5. EventsIn(Framed("consolidate", BatchOf(s))) = BatchOf(s)
  BY <1>4, FramedTyped DEF EventsIn, Modes
<1>6. CASE Run' = [Run EXCEPT !.pc = "write", !.sid = s, !.queue = Run.queue \ {s},
                              !.frames = Framed("consolidate", BatchOf(s)),
                              !.base = 0, !.superseded = FALSE]
  <2>1. /\ Run'.pc = "write" /\ Run'.wm = Run.wm /\ Run'.batch = Run.batch
        /\ Run'.picked = Run.picked /\ Run'.sid = s /\ Run'.queue = Run.queue \ {s}
        /\ Run'.frames = Framed("consolidate", BatchOf(s))
        /\ Run'.base = 0 /\ ~Run'.superseded
    BY <1>1, <1>6 DEF Runs
  <2> QED
    BY <1>2, <1>5, <2>1
<1> QED
  BY <1>3, <1>6

LEMMA TakeRemembers ==
    ASSUME RememberedInv, Take("consolidate")
    PROVE  RememberedInv'
<1>1. TypeInv' /\ TypeInv
  BY TakeTyped, RunTyped DEF RememberedInv
<1>2. UNCHANGED <<staged, stagedAt, consumed, memory, clock>>
  BY DEF Take
<1>3. CASE Run' = Idle
  <2>1. Run'.pc = "idle" /\ Run'.wm = 0 /\ 0 <= clock'
    BY <1>1, <1>3 DEF Idle, TypeInv, TypeOK, Times
  <2> QED
    BY <1>1, <1>2, <2>1, IdleRemembers
<1>4. CASE Run' # Idle
  <2>1. /\ Run.pc = "next" /\ Run'.pc = "write"
        /\ Run'.wm = Run.wm /\ Run'.batch = Run.batch /\ Run'.picked = Run.picked
        /\ Run'.sid \in Run.queue /\ Run'.queue = Run.queue \ {Run'.sid}
        /\ EventsIn(Run'.frames) = BatchOf(Run'.sid)
        /\ Run'.base = 0 /\ ~Run'.superseded
    BY <1>1, <1>4, TakeEffect
  <2>2. \A s : BatchOf(s)' = BatchOf(s) /\ Remembered(s)' = Remembered(s)
    BY <1>2, <2>1 DEF BatchOf, Remembered
  <2>3. SelectionInv'
    BY <1>2, <2>1, SameStaging DEF RememberedInv, SelectionInv, Working
  <2>4. SessionInv'
    BY <2>1, <2>2 DEF SessionInv, InSession
  <2>5. \A s \in Sessions : (Finished(s) => BatchOf(s) \subseteq Remembered(s))'
    BY <2>1, <2>2 DEF RememberedInv, Finished, InSession, Working
  <2>6. RetiredIsRemembered'
    BY <1>2, <2>2, SameStaging DEF RememberedInv, RetiredIsRemembered
  <2> QED
    BY <1>1, <1>2, <2>1, <2>3, <2>4, <2>5, <2>6 DEF RememberedInv
<1> QED
  BY <1>3, <1>4

\* Mark retires a session only when its rows are those of the batch.
LEMMA MarkRemembers ==
    ASSUME RememberedInv, Mark("consolidate")
    PROVE  RememberedInv'
<1>1. TypeInv' /\ TypeInv /\ Run \in Runs /\ consumed \in [Modes -> [Events -> Times]]
      /\ stagedAt \in [Events -> Times]
  BY MarkTyped, RunTyped DEF RememberedInv, TypeInv, TypeOK
<1>2. /\ Run' = Idle /\ UNCHANGED <<clock, staged, stagedAt, memory>>
      /\ Run.pc = "next" /\ Run.queue = {}
      /\ consumed'["consolidate"] = [e \in Events |->
             IF e \in Committed /\ SessionOf[e] \in Run.picked
             THEN Run.wm ELSE consumed["consolidate"][e]]
  BY <1>1 DEF Mark, Run, Modes, TypeInv, TypeOK
<1>3. Committed' = Committed /\ \A s : RowsOf(s)' = RowsOf(s) /\ Remembered(s)' = Remembered(s)
  BY <1>2 DEF Committed, RowsOf, Remembered
<1>4. ~Working' /\ ~InSession' /\ Run'.wm = 0 /\ Run'.pc = "idle"
  BY <1>2 DEF Working, InSession, Idle
<1>5. RetiredIsRemembered'
  <2> SUFFICES ASSUME NEW s \in Sessions, Retired(s)'
               PROVE  RowsOf(s) \subseteq Remembered(s)
    BY <1>3 DEF RetiredIsRemembered
  <2>0. RowsOf(s) # {} /\ ~HasNews(s)' /\ RowsOf(s) \subseteq Events
    BY <1>3 DEF Retired, RowsOf, Committed
  <2>1. CASE s \in Run.picked
    <3>1. \A e \in RowsOf(s) : consumed'["consolidate"][e] = Run.wm /\ e \in Committed
                               /\ SessionOf[e] = s
      BY <1>2, <2>1 DEF RowsOf, Committed
    <3>2. \A e \in RowsOf(s) : ~ (stagedAt[e] > Run.wm)
      BY <1>2, <1>3, <2>0, <3>1 DEF HasNews
    <3>3. \A e \in RowsOf(s) : stagedAt[e] \in Int /\ Run.wm \in Int
      BY <1>1, <2>0 DEF Times, Runs
    <3>4. RowsOf(s) \subseteq BatchOf(s)
      BY <1>2, <2>1, <3>1, <3>2, <3>3 DEF RememberedInv, SelectionInv, Working, BatchOf
    <3>5. Finished(s)
      BY <1>2, <2>1 DEF Finished, Working, InSession
    <3> QED
      BY <3>4, <3>5 DEF RememberedInv
  <2>2. CASE s \notin Run.picked
    <3>1. \A e \in RowsOf(s) : consumed'["consolidate"][e] = consumed["consolidate"][e]
      BY <1>2, <2>0, <2>2 DEF RowsOf
    <3>2. ~HasNews(s)
      BY <1>2, <1>3, <2>0, <3>1 DEF HasNews
    <3> QED
      BY <2>0, <3>2 DEF RememberedInv, RetiredIsRemembered, Retired
  <2> QED
    BY <2>1, <2>2
<1>6. 0 <= clock'
  BY <1>1 DEF TypeInv, TypeOK, Times
<1> QED
  BY <1>1, <1>2, <1>4, <1>5, <1>6 DEF RememberedInv, SelectionInv, SessionInv, Finished

\* The supersede DELETE takes from memory only a session that the cell still
\* has reason to look at.
LEMMA SupersedeRemembers ==
    ASSUME RememberedInv, Supersede("consolidate")
    PROVE  RememberedInv'
<1>1. TypeInv' /\ TypeInv /\ Run \in Runs /\ WellFormed(Run) /\ memory \subseteq Rows
  BY SupersedeTyped, RunTyped DEF RememberedInv, TypeInv, TypeOK
<1>2. UNCHANGED <<clock, staged, stagedAt, consumed>> /\ Run.pc = "write" /\ ~Run.superseded
  BY DEF Supersede, MustSupersede, Run
<1>3. /\ Run'.pc = "write" /\ Run'.wm = Run.wm /\ Run'.batch = Run.batch
      /\ Run'.picked = Run.picked /\ Run'.queue = Run.queue /\ Run'.sid = Run.sid
      /\ Run'.frames = Run.frames /\ Run'.base = Run.base /\ Run'.superseded
  <2>1. Run' = [Run EXCEPT !.superseded = TRUE]
    BY <1>1 DEF Supersede, Run, Modes, TypeInv, TypeOK
  <2> QED
    BY <1>1, <1>2, <2>1 DEF Runs
<1>4. memory' = {r \in memory : r.sid # Run.sid}
  BY DEF Supersede, Run
<1>5. \A s : s # Run.sid => Remembered(s)' = Remembered(s)
  <2> SUFFICES ASSUME NEW s, s # Run.sid
               PROVE  {x \in memory' : x.sid = s /\ x.tier = "consolidated"}
                    = {x \in memory : x.sid = s /\ x.tier = "consolidated"}
    BY DEF Remembered
  <2> QED
    BY <1>4
<1>6. ~Retired(Run.sid) /\ Run.sid \in Run.picked /\ Run.base = 0
      /\ EventsIn(Run.frames) \subseteq BatchOf(Run.sid)
      /\ BatchOf(Run.sid) \subseteq EventsIn(Run.frames)
  BY <1>1, <1>2 DEF RememberedInv, SelectionInv, SessionInv, Working, InSession, WellFormed
<1>7. RetiredIsRemembered'
  BY <1>2, <1>5, <1>6, SameStaging DEF RememberedInv, RetiredIsRemembered
<1>8. SelectionInv'
  BY <1>2, <1>3, SameStaging DEF RememberedInv, SelectionInv, Working
<1>9. \A s : BatchOf(s)' = BatchOf(s)
  BY <1>3 DEF BatchOf
<1>10. SessionInv'
  BY <1>3, <1>4, <1>6, <1>9 DEF SessionInv
<1>11. \A s \in Sessions : (Finished(s) => BatchOf(s) \subseteq Remembered(s))'
  BY <1>2, <1>3, <1>5, <1>9 DEF RememberedInv, Finished, InSession, Working
<1> QED
  BY <1>1, <1>2, <1>3, <1>4, <1>7, <1>8, <1>10, <1>11 DEF RememberedInv

\* The rows of an episode: one holds its events, the others facts, all as
\* of the last of the events.
EpisodeRows(evs, found, new) ==
    /\ \E x \in new : x.evs = evs
    /\ \A x \in new : /\ x.tier = "consolidated"
                      /\ x.from = EpisodeEnd(evs)
                      /\ x.fact # NoFact => \E e \in found : x.fact = FactOf[e]

LEMMA EpisodeRowsShape ==
    ASSUME NEW s, NEW base, NEW evs \in SUBSET Events,
           NEW found \in SUBSET Stating(evs), NEW cs, NEW new,
           cs = Chunks("consolidate", evs, found),
           new = NewRows("consolidate", s, base, cs)
    PROVE  EpisodeRows(evs, found, new)
<1> DEFINE row(i) == [sid |-> s, seq |-> base + i - 1, tier |-> "consolidated",
                      evs |-> cs[i].evs, fact |-> cs[i].fact,
                      from |-> cs[i].from, live |-> TRUE]
<1>1. ChunksOf(evs, found, cs)
  BY ConsolidatedShape DEF Chunks
<1>2. new = {row(i) : i \in 1 .. Len(cs)}
  BY <1>1 DEF NewRows, ChunksOf
<1>3. \A i \in 1 .. Len(cs) :
         /\ row(i).tier = "consolidated" /\ row(i).evs = cs[i].evs
         /\ row(i).fact = cs[i].fact /\ row(i).from = cs[i].from
  OBVIOUS
<1> HIDE DEF row
<1>4. 1 \in 1 .. Len(cs) /\ cs[1].evs = evs /\ cs[1].fact = NoFact
  BY <1>1 DEF ChunksOf
<1>5. row(1) \in new /\ row(1).evs = evs
  BY <1>2, <1>3, <1>4
<1>6. ASSUME NEW i \in 1 .. Len(cs)
      PROVE  /\ row(i).tier = "consolidated" /\ row(i).from = EpisodeEnd(evs)
             /\ row(i).fact # NoFact => \E e \in found : row(i).fact = FactOf[e]
  <2>1. /\ cs[i].from = EpisodeEnd(evs)
        /\ i # 1 => \E e \in found : cs[i].fact = FactOf[e]
    BY <1>1 DEF ChunksOf
  <2> QED
    BY <1>3, <1>4, <2>1
<1> QED
  BY <1>2, <1>5, <1>6 DEF EpisodeRows

\* Insert adds the rows of the episode to those of the session, all of which
\* have lower numbers.
LEMMA InsertAdds ==
    ASSUME GuaranteedDelivery, RememberedInv, Insert("consolidate")
    PROVE  \E evs, found, new :
              /\ evs = Head(Run.frames) /\ evs \in SUBSET Events
              /\ found \in {Stating(evs), {}}
              /\ EpisodeRows(evs, found, new)
              /\ \A x \in new : x.sid = Run.sid /\ x.seq < Run'.base
              /\ memory' = memory \cup new
              /\ Run.base <= Run'.base /\ Run'.base \in Nat
              /\ \E n : AfterInsert(Run, n, found, Run')
<1> DEFINE m == "consolidate"
<1>1. TypeInv /\ Run \in Runs /\ m \in Modes /\ memory \subseteq Rows
  BY RunTyped DEF RememberedInv, TypeInv, TypeOK
<1>2. PICK evs, found, cs, new, next : Inserts(m, evs, found, cs, new, next)
  BY <1>1, InsertEffect
<1>3. /\ evs = Head(Run.frames) /\ evs \in SUBSET Events
      /\ found \in {Stating(evs), {}} /\ found \in SUBSET Stating(evs)
      /\ cs = Chunks(m, evs, found)
      /\ new = NewRows(m, Run.sid, Run.base, cs)
      /\ NumberedFrom(Run.sid, Run.base, cs, new)
      /\ memory' = Upserted(new, Run.sid, Len(cs))
  BY <1>2 DEF Inserts, Run
<1>4. EpisodeRows(evs, found, new)
  BY <1>3, EpisodeRowsShape
<1>5. AfterInsert(Run, Len(cs), found, Run')
  BY <1>1, <1>2, InsertRun DEF Run
<1>6. Len(cs) \in Nat /\ Run.base \in Nat /\ Run'.base = Run.base + Len(cs)
  BY <1>1, <1>3, <1>5 DEF NumberedFrom, AfterInsert, Runs
<1>7. \A x \in new : /\ x.sid = Run.sid /\ x.seq \in Run.base .. Run.base + Len(cs) - 1
                     /\ x.seq \in Int
  BY <1>3, <1>6 DEF NumberedFrom
<1>8. \A r \in memory : r.sid = Run.sid => r.seq < Run.base /\ r.seq \in Nat
  <2>1. Run.superseded /\ InSession
    BY DEF Insert, MustSupersede, Run, InSession
  <2> QED
    BY <1>1, <2>1 DEF RememberedInv, SessionInv, Rows
<1>9. \A r \in memory : ~ \E x \in new : x.sid = r.sid /\ x.seq = r.seq
  <2> SUFFICES ASSUME NEW r \in memory, NEW x \in new, x.sid = r.sid, x.seq = r.seq
               PROVE  FALSE
    OBVIOUS
  <2>1. r.seq < Run.base /\ r.seq \in Nat /\ r.seq >= Run.base
    BY <1>6, <1>7, <1>8
  <2> QED
    BY <1>6, <2>1
<1>10. memory' = memory \cup new
  BY <1>3, <1>9 DEF Upserted, GuaranteedDelivery
<1>11. \A x \in new : x.seq < Run'.base
  BY <1>6, <1>7
<1>12. Run.base <= Run'.base /\ Run'.base \in Nat
  BY <1>6
<1> HIDE DEF m
<1> QED
  BY <1>3, <1>4, <1>5, <1>7, <1>10, <1>11, <1>12

\* The frames that are left, and the one that has been written.
LEMMA EventsOfFrames ==
    ASSUME NEW frames \in Seq(SUBSET Events), frames # <<>>
    PROVE  /\ EventsIn(frames) = Head(frames) \cup EventsIn(Tail(frames))
           /\ Len(frames) <= 1 => EventsIn(Tail(frames)) = {}
<1>1. /\ Len(frames) \in Nat /\ Len(frames) >= 1 /\ DOMAIN frames = 1 .. Len(frames)
      /\ Head(frames) = frames[1]
      /\ DOMAIN Tail(frames) = 1 .. Len(frames) - 1
      /\ \A i \in 1 .. Len(frames) - 1 : Tail(frames)[i] = frames[i + 1]
  OBVIOUS
<1>2. ASSUME NEW e \in EventsIn(frames)
      PROVE  e \in Head(frames) \cup EventsIn(Tail(frames))
  <2>1. PICK i \in 1 .. Len(frames) : e \in frames[i]
    BY <1>1 DEF EventsIn
  <2>2. CASE i = 1
    BY <1>1, <2>1, <2>2
  <2>3. CASE i # 1
    <3>1. i - 1 \in 1 .. Len(frames) - 1 /\ (i - 1) + 1 = i
      BY <1>1, <2>3
    <3>2. i - 1 \in DOMAIN Tail(frames) /\ Tail(frames)[i - 1] = frames[i]
      BY <1>1, <3>1
    <3> QED
      BY <2>1, <3>2 DEF EventsIn
  <2> QED
    BY <2>2, <2>3
<1>3. ASSUME NEW e \in Head(frames) \cup EventsIn(Tail(frames))
      PROVE  e \in EventsIn(frames)
  <2>1. CASE e \in Head(frames)
    <3>1. 1 \in DOMAIN frames
      BY <1>1
    <3> QED
      BY <1>1, <2>1, <3>1 DEF EventsIn
  <2>2. CASE e \in EventsIn(Tail(frames))
    <3>1. PICK i \in 1 .. Len(frames) - 1 : e \in Tail(frames)[i]
      BY <1>1, <2>2 DEF EventsIn
    <3>2. i + 1 \in DOMAIN frames /\ e \in frames[i + 1]
      BY <1>1, <3>1
    <3> QED
      BY <3>2 DEF EventsIn
  <2> QED
    BY <2>1, <2>2
<1>4. Len(frames) <= 1 => DOMAIN Tail(frames) = {}
  BY <1>1
<1> QED
  BY <1>2, <1>3, <1>4 DEF EventsIn

LEMMA InsertRemembers ==
    ASSUME GuaranteedDelivery, RememberedInv, Insert("consolidate")
    PROVE  RememberedInv'
<1>1. TypeInv' /\ TypeInv /\ Run \in Runs /\ WellFormed(Run)
  BY InsertTyped, RunTyped DEF RememberedInv
<1>2. PICK evs, found, new, n :
         /\ evs = Head(Run.frames) /\ evs \in SUBSET Events
         /\ found \in {Stating(evs), {}}
         /\ EpisodeRows(evs, found, new)
         /\ \A x \in new : x.sid = Run.sid /\ x.seq < Run'.base
         /\ memory' = memory \cup new
         /\ Run.base <= Run'.base /\ Run'.base \in Nat
         /\ AfterInsert(Run, n, found, Run')
  BY InsertAdds
<1>3. /\ UNCHANGED <<clock, staged, stagedAt, consumed>>
      /\ Run.pc = "write" /\ Run.superseded /\ InSession /\ Working
  BY DEF Insert, MustSupersede, Run, InSession, Working
<1>4. /\ Run'.wm = Run.wm /\ Run'.batch = Run.batch /\ Run'.picked = Run.picked
      /\ Run'.queue = Run.queue /\ Run'.sid = Run.sid /\ Run'.superseded
      /\ \/ /\ found = {} /\ Run'.frames = Tail(Run.frames)
            /\ Run'.pc = IF Len(Run.frames) > 1 THEN "write" ELSE "next"
         \/ Run'.pc = "invalidate" /\ Run'.frames = Run.frames
  BY <1>2, <1>3 DEF AfterInsert
<1>5. Run.frames \in Seq(SUBSET Events) /\ Run.frames # <<>>
  BY <1>1, <1>3 DEF WellFormed, Runs
<1>6. /\ EventsIn(Run.frames) = evs \cup EventsIn(Tail(Run.frames))
      /\ Len(Run.frames) <= 1 => EventsIn(Tail(Run.frames)) = {}
  BY <1>2, <1>5, EventsOfFrames
<1>7. \A s : BatchOf(s)' = BatchOf(s) /\ Remembered(s) \subseteq Remembered(s)'
  BY <1>2, <1>4, RowsKeptRemember DEF BatchOf
<1>8. evs \subseteq Remembered(Run.sid)'
  <2>1. PICK x \in new : x.evs = evs /\ x.tier = "consolidated" /\ x.sid = Run.sid
    BY <1>2 DEF EpisodeRows
  <2>2. x \in memory'
    BY <1>2
  <2> QED
    BY <1>4, <2>1, <2>2 DEF Remembered
<1>9. BatchOf(Run.sid) \subseteq EventsIn(Tail(Run.frames)) \cup Remembered(Run.sid)'
  <2>1. BatchOf(Run.sid) \subseteq EventsIn(Run.frames) \cup Remembered(Run.sid)
    BY <1>3 DEF RememberedInv, SessionInv
  <2> QED
    BY <1>4, <1>6, <1>7, <1>8, <2>1
<1>10. RetiredIsRemembered'
  BY <1>3, <1>7, SameStaging DEF RememberedInv, RetiredIsRemembered
<1>11. SelectionInv'
  BY <1>3, <1>4, SameStaging DEF RememberedInv, SelectionInv
<1>12. \A r \in memory' : r.sid = Run.sid => r.seq < Run'.base
  <2>1. \A r \in memory : r.sid = Run.sid => r.seq < Run.base /\ r.seq \in Int
    BY <1>1, <1>3 DEF RememberedInv, SessionInv, TypeInv, TypeOK, Rows
  <2>2. Run.base \in Int
    BY <1>1 DEF Runs
  <2> QED
    BY <1>2, <2>1, <2>2
<1>13. EventsIn(Run.frames) \subseteq BatchOf(Run.sid)
       /\ EventsIn(Tail(Run.frames)) \subseteq BatchOf(Run.sid)
  BY <1>3, <1>6 DEF RememberedInv, SessionInv
<1>14. SessionInv'
  BY <1>4, <1>7, <1>9, <1>12, <1>13 DEF SessionInv
<1>15. ASSUME NEW s \in Sessions, Finished(s)'
       PROVE  BatchOf(s)' \subseteq Remembered(s)'
  <2>1. CASE s # Run.sid
    BY <1>3, <1>4, <1>7, <1>15, <2>1 DEF RememberedInv, Finished
  <2>2. CASE s = Run.sid
    <3>1. Run'.pc = "next" /\ Len(Run.frames) <= 1
      BY <1>4, <1>5, <1>15, <2>2 DEF Finished, InSession
    <3> QED
      BY <1>4, <1>6, <1>7, <1>9, <2>2, <3>1
  <2> QED
    BY <2>1, <2>2
<1>16. \A r \in memory' : r.tier = "consolidated"
  BY <1>2 DEF RememberedInv, EpisodeRows
<1> QED
  BY <1>1, <1>3, <1>4, <1>10, <1>11, <1>14, <1>15, <1>16 DEF RememberedInv

\* Retracting facts changes no row's events.
LEMMA InvalidateEffect ==
    ASSUME TypeInv, NEW m \in Modes, Invalidate(m)
    PROVE  \E f \in [memory -> memory'] :
              /\ memory' = {f[r] : r \in memory}
              /\ \A r \in memory :
                    /\ f[r].sid = r.sid /\ f[r].seq = r.seq /\ f[r].tier = r.tier
                    /\ f[r].evs = r.evs /\ f[r].fact = r.fact /\ f[r].from = r.from
                    /\ f[r].live <=> (r.live /\ ~Contradicted(r, Head(cell[m].frames)))
<1> DEFINE row(r) == [r EXCEPT !.live = r.live /\ ~Contradicted(r, Head(cell[m].frames))]
           f == [r \in memory |-> row(r)]
<1>1. memory' = {row(r) : r \in memory}
  BY DEF Invalidate
<1>2. \A r \in memory :
         /\ row(r).sid = r.sid /\ row(r).seq = r.seq /\ row(r).tier = r.tier
         /\ row(r).evs = r.evs /\ row(r).fact = r.fact /\ row(r).from = r.from
         /\ row(r).live <=> (r.live /\ ~Contradicted(r, Head(cell[m].frames)))
  BY DEF TypeInv, TypeOK, Rows
<1> HIDE DEF row
<1>3. f \in [memory -> memory'] /\ memory' = {f[r] : r \in memory}
  BY <1>1
<1>4. \A r \in memory : f[r] = row(r)
  OBVIOUS
<1> HIDE DEF f
<1> QED
  BY <1>2, <1>3, <1>4

LEMMA InvalidateRemembers ==
    ASSUME RememberedInv, Invalidate("consolidate")
    PROVE  RememberedInv'
<1>1. TypeInv' /\ TypeInv /\ Run \in Runs /\ WellFormed(Run) /\ "consolidate" \in Modes
  BY InvalidateTyped, RunTyped DEF RememberedInv
<1>2. PICK f \in [memory -> memory'] :
         /\ memory' = {f[r] : r \in memory}
         /\ \A r \in memory : /\ f[r].sid = r.sid /\ f[r].seq = r.seq
                              /\ f[r].tier = r.tier /\ f[r].evs = r.evs
  BY <1>1, InvalidateEffect
<1>3. /\ UNCHANGED <<clock, staged, stagedAt, consumed>>
      /\ Run.pc = "invalidate" /\ InSession /\ Working
  BY DEF Invalidate, Run, InSession, Working
<1>4. /\ Run'.wm = Run.wm /\ Run'.batch = Run.batch /\ Run'.picked = Run.picked
      /\ Run'.queue = Run.queue /\ Run'.sid = Run.sid /\ Run'.base = Run.base
      /\ Run'.superseded = Run.superseded /\ Run'.frames = Tail(Run.frames)
      /\ Run'.pc = IF Len(Run.frames) > 1 THEN "write" ELSE "next"
  <2>1. Run' = Advance(Run)
    BY <1>1 DEF Invalidate, Run, TypeInv, TypeOK
  <2> QED
    BY <1>1, <2>1, AdvanceFields
<1>5. Run.frames \in Seq(SUBSET Events) /\ Run.frames # <<>>
  BY <1>1, <1>3 DEF WellFormed, Runs
<1>6. /\ EventsIn(Run.frames) = Head(Run.frames) \cup EventsIn(Tail(Run.frames))
      /\ Len(Run.frames) <= 1 => EventsIn(Tail(Run.frames)) = {}
  BY <1>5, EventsOfFrames
<1>7. \A s : BatchOf(s)' = BatchOf(s) /\ Remembered(s) \subseteq Remembered(s)'
  BY <1>2, <1>4, RowsKeptRemember DEF BatchOf
<1>8. /\ Run.superseded
      /\ BatchOf(Run.sid) \subseteq EventsIn(Tail(Run.frames)) \cup Remembered(Run.sid)
      /\ EventsIn(Run.frames) \subseteq BatchOf(Run.sid)
      /\ \A r \in memory : r.sid = Run.sid => r.seq < Run.base
  BY <1>3 DEF RememberedInv, SessionInv
<1>9. RetiredIsRemembered'
  BY <1>3, <1>7, SameStaging DEF RememberedInv, RetiredIsRemembered
<1>10. SelectionInv'
  BY <1>3, <1>4, SameStaging DEF RememberedInv, SelectionInv
<1>11. \A r \in memory' : (r.sid = Run.sid => r.seq < Run.base) /\ r.tier = "consolidated"
  BY <1>2, <1>8 DEF RememberedInv
<1>12. BatchOf(Run.sid) \subseteq EventsIn(Tail(Run.frames)) \cup Remembered(Run.sid)'
  BY <1>4, <1>7, <1>8
<1>13. EventsIn(Tail(Run.frames)) \subseteq BatchOf(Run.sid)
  BY <1>6, <1>8
<1>14. SessionInv'
  BY <1>4, <1>7, <1>8, <1>11, <1>12, <1>13 DEF SessionInv
<1>15. ASSUME NEW s \in Sessions, Finished(s)'
       PROVE  BatchOf(s)' \subseteq Remembered(s)'
  <2>1. CASE s # Run.sid
    BY <1>3, <1>4, <1>7, <1>15, <2>1 DEF RememberedInv, Finished
  <2>2. CASE s = Run.sid
    <3>1. Len(Run.frames) <= 1
      BY <1>4, <1>5, <1>15, <2>2 DEF Finished, InSession
    <3> QED
      BY <1>4, <1>6, <1>7, <1>12, <2>2, <3>1
  <2> QED
    BY <2>1, <2>2
<1> QED
  BY <1>1, <1>3, <1>4, <1>9, <1>10, <1>11, <1>14, <1>15 DEF RememberedInv

LEMMA StampsStep ==
    ASSUME GuaranteedDelivery
    PROVE  RememberedInv /\ OneStamp /\ [Next]_vars => OneStamp'
<1> SUFFICES ASSUME RememberedInv, OneStamp, [Next]_vars
             PROVE  OneStamp'
  OBVIOUS
<1>1. /\ consumed \in [Modes -> [Events -> Times]] /\ "consolidate" \in Modes
      /\ staged \in [Events -> {"absent", "open", "committed"}]
  BY DEF RememberedInv, TypeInv, TypeOK, Modes
<1>2. ASSUME UNCHANGED consumed, Committed' \subseteq Committed
      PROVE  OneStamp'
  BY <1>2 DEF OneStamp
<1>3. ASSUME NEW e \in Events, BeginStage(e)
      PROVE  OneStamp'
  <2>1. staged' = [staged EXCEPT ![e] = "committed"]
        /\ consumed' = [m \in Modes |-> [consumed[m] EXCEPT ![e] = 0]]
    BY <1>3 DEF BeginStage, GuaranteedDelivery
  <2>2. /\ consumed'["consolidate"][e] = 0
        /\ \A f \in Events \ {e} :
              consumed'["consolidate"][f] = consumed["consolidate"][f]
    BY <1>1, <2>1
  <2>3. Committed' \subseteq Committed \cup {e} /\ Committed' \subseteq Events
    BY <1>1, <2>1 DEF Committed
  <2> QED
    BY <2>2, <2>3 DEF OneStamp
<1>4. CASE Mark("consolidate")
  <2>1. UNCHANGED staged
        /\ consumed'["consolidate"] = [e \in Events |->
               IF e \in Committed /\ SessionOf[e] \in Run.picked
               THEN Run.wm ELSE consumed["consolidate"][e]]
    BY <1>1, <1>4 DEF Mark, Run
  <2>2. Committed' = Committed /\ Committed \subseteq Events
    BY <2>1 DEF Committed
  <2>3. \A e \in Committed :
           consumed'["consolidate"][e] = IF SessionOf[e] \in Run.picked
                                         THEN Run.wm ELSE consumed["consolidate"][e]
    BY <2>1, <2>2
  <2> QED
    BY <2>2, <2>3 DEF OneStamp
<1>5. ASSUME NEW m \in Cells, RunStep(m) \/ Fail(m), ~Mark(m)
      PROVE  OneStamp'
  BY <1>2, <1>5 DEF RunStep, Open, Select, Take, Supersede, Insert, Invalidate, Fail,
     Committed
<1>6. ASSUME NEW e \in Events, CommitStage(e)
      PROVE  FALSE
  BY <1>6 DEF CommitStage, RememberedInv
<1>7. ASSUME NEW t \in 1 .. clock, Prune(t)
      PROVE  OneStamp'
  <2>1. UNCHANGED consumed /\ Committed' \subseteq Committed
    BY <1>1, <1>7 DEF Prune, Committed
  <2> QED
    BY <1>2, <2>1
<1>8. CASE Tick \/ UNCHANGED vars
  BY <1>2, <1>8 DEF Tick, vars, Committed
<1> QED
  BY <1>3, <1>4, <1>5, <1>6, <1>7, <1>8 DEF Next, GuaranteedDelivery

\* Pruning takes the oldest rows of a session, and all rows a run has stamped
\* have one stamp: if a row newer than that was among those taken, so is every
\* row that stays, and the session is still to be looked at.
LEMMA PruneRemembers ==
    ASSUME RememberedInv, OneStamp, NEW t \in 1 .. clock, Prune(t)
    PROVE  RememberedInv'
<1> DEFINE stamp(e) == consumed["consolidate"][e]
<1>1. TypeInv' /\ TypeInv /\ Run \in Runs
  BY StagingTyped, RunTyped DEF RememberedInv
<1>2. /\ staged \in [Events -> {"absent", "open", "committed"}]
      /\ t \in Int /\ \A e \in Events : stagedAt[e] \in Int /\ stamp(e) \in Int
  BY <1>1 DEF TypeInv, TypeOK, Times, Modes
<1>3. UNCHANGED <<clock, stagedAt, consumed, memory, cell>> /\ Run' = Run
  BY DEF Prune, Run
<1>4. staged' = [e \in Events |->
          IF e \in Committed /\ stagedAt[e] < t /\ stamp(e) # 0
          THEN "absent" ELSE staged[e]]
  BY DEF Prune
<1>5. Committed' = {e \in Committed : stagedAt[e] >= t \/ stamp(e) = 0}
  BY <1>2, <1>4 DEF Committed
<1>6. ASSUME NEW s \in Sessions, Retired(s)'
      PROVE  Retired(s) /\ RowsOf(s)' \subseteq RowsOf(s)
  <2>1. /\ RowsOf(s) \subseteq Events /\ RowsOf(s) \subseteq Committed
        /\ \A e \in RowsOf(s) : SessionOf[e] = s
        /\ RowsOf(s)' = {e \in RowsOf(s) : stagedAt[e] >= t \/ stamp(e) = 0}
    BY <1>5 DEF RowsOf, Committed
  <2>2. PICK h \in RowsOf(s) : h \in RowsOf(s)'
    BY <1>6, <2>1 DEF Retired
  <2>3. /\ \A e \in RowsOf(s)' : stamp(e) # 0
        /\ \A e, f \in RowsOf(s)' : ~ (stagedAt[e] > stamp(f))
    BY <1>3, <1>6 DEF Retired, HasNews
  <2>4. \A e \in RowsOf(s) : stamp(e) # 0
    BY <2>1, <2>3
  <2>5. \A f \in RowsOf(s) : stamp(f) = stamp(h)
    BY <2>1, <2>2, <2>4 DEF OneStamp
  <2>6. ASSUME NEW e \in RowsOf(s), NEW f \in RowsOf(s), stagedAt[e] > stamp(f)
        PROVE  FALSE
    <3>1. stagedAt[e] > stamp(h)
      BY <2>5, <2>6
    <3>2. CASE e \in RowsOf(s)'
      BY <2>2, <2>3, <3>1, <3>2
    <3>3. CASE e \notin RowsOf(s)'
      <4>1. /\ stagedAt[e] \in Int /\ stagedAt[h] \in Int /\ stamp(h) \in Int
            /\ e \in RowsOf(s) /\ h \in RowsOf(s)
        BY <1>2, <2>1, <2>2
      <4>2. ~ (stagedAt[e] >= t) /\ stagedAt[h] >= t
        BY <2>1, <2>2, <2>3, <3>3
      <4>3. ~ (stagedAt[h] > stamp(h))
        BY <2>2, <2>3
      <4> HIDE DEF stamp
      <4> QED
        BY <1>2, <3>1, <4>1, <4>2, <4>3
    <3> QED
      BY <3>2, <3>3
  <2> QED
    BY <2>1, <2>2, <2>4, <2>6 DEF Retired, HasNews
<1>7. \A s : BatchOf(s)' = BatchOf(s) /\ Remembered(s)' = Remembered(s)
  BY <1>3 DEF BatchOf, Remembered
<1>8. RetiredIsRemembered'
  BY <1>6, <1>7 DEF RememberedInv, RetiredIsRemembered
<1>9. SelectionInv'
  <2>1. Run.picked \subseteq Sessions /\ (Working' <=> Working)
    BY <1>1, <1>3 DEF Runs, Working
  <2>2. \A s \in Sessions : Retired(s)' => Retired(s)
    BY <1>6
  <2> QED
    BY <1>3, <1>5, <2>1, <2>2 DEF RememberedInv, SelectionInv
<1>10. SessionInv'
  BY <1>3, <1>7 DEF RememberedInv, SessionInv, InSession
<1>11. \A s \in Sessions : (Finished(s) => BatchOf(s) \subseteq Remembered(s))'
  BY <1>3, <1>7 DEF RememberedInv, Finished, Working, InSession
<1>12. \A e \in Events : staged'[e] # "open" /\ stagedAt'[e] <= clock'
  BY <1>3, <1>4 DEF RememberedInv
<1> QED
  BY <1>1, <1>3, <1>8, <1>9, <1>10, <1>11, <1>12 DEF RememberedInv

LEMMA RememberedStep ==
    ASSUME GuaranteedDelivery
    PROVE  RememberedInv /\ OneStamp /\ [Next]_vars => RememberedInv'
<1> SUFFICES ASSUME RememberedInv, OneStamp, [Next]_vars
             PROVE  RememberedInv'
  OBVIOUS
<1>1. TypeInv' /\ TypeInv /\ Run \in Runs
  BY TypeStep, RunTyped DEF RememberedInv
<1>2. ASSUME NEW m \in Cells, RunStep(m) \/ Fail(m)
      PROVE  RememberedInv'
  <2>1. m = "consolidate"
    BY DEF GuaranteedDelivery
  <2>2. CASE Open(m) \/ Fail(m)
    <3>1. Run'.pc \in {"idle", "select"} /\ Run'.wm <= clock
      <4>1. clock \in Nat
        BY <1>1 DEF TypeInv, TypeOK, Times
      <4>2. CASE Open(m)
        BY <1>1, <2>1, <4>1, <4>2 DEF Open, Run, TypeInv, TypeOK, Modes, Runs
      <4>3. CASE Fail(m)
        BY <1>1, <2>1, <4>1, <4>3 DEF Fail, Run, Idle, TypeInv, TypeOK, Modes
      <4> QED
        BY <2>2, <4>2, <4>3
    <3> QED
      BY <1>1, <2>2, <3>1, IdleRemembers DEF Open, Fail
  <2> QED
    BY <1>2, <2>1, <2>2, SelectRemembers, TakeRemembers, SupersedeRemembers,
       InsertRemembers, InvalidateRemembers, MarkRemembers DEF RunStep
<1>3. CASE Tick \/ UNCHANGED vars
  <2>1. UNCHANGED <<staged, stagedAt, consumed, memory, cell>> /\ clock <= clock'
    BY <1>1, <1>3 DEF Tick, vars, TypeInv, TypeOK, Times
  <2>2. /\ \A s : BatchOf(s)' = BatchOf(s) /\ Remembered(s)' = Remembered(s)
        /\ Run' = Run
    BY <2>1 DEF BatchOf, Remembered, Run
  <2>3. RetiredIsRemembered' /\ SelectionInv' /\ SessionInv'
    BY <2>1, <2>2, SameStaging
    DEF RememberedInv, RetiredIsRemembered, SelectionInv, SessionInv, Working, InSession
  <2>4. \A s \in Sessions : (Finished(s) => BatchOf(s) \subseteq Remembered(s))'
    BY <2>2 DEF RememberedInv, Finished, Working, InSession
  <2>5. Run'.wm <= clock' /\ \A e \in Events : staged'[e] # "open" /\ stagedAt'[e] <= clock'
    <3>1. /\ Run.wm \in Int /\ clock \in Int /\ clock' \in Int
          /\ \A e \in Events : stagedAt[e] \in Int
      BY <1>1 DEF Runs, TypeInv, TypeOK, Times
    <3> QED
      BY <2>1, <2>2, <3>1 DEF RememberedInv
  <2> QED
    BY <1>1, <2>1, <2>2, <2>3, <2>4, <2>5 DEF RememberedInv
<1>4. ASSUME NEW e \in Events, CommitStage(e)
      PROVE  FALSE
  BY <1>4 DEF CommitStage, RememberedInv
<1> QED
  BY <1>2, <1>3, <1>4, BeginStageRemembers, PruneRemembers DEF Next

\* Guaranteed delivery: whatever runs fail, whenever events arrive, however
\* the framer cuts a session, wherever doc_limit ends a run and whatever
\* prune_staging takes away meanwhile, the
\* consolidate cell is done with a session only when its every staged event
\* is found in consolidated memory.
THEOREM DeliveryIsGuaranteed ==
    ASSUME GuaranteedDelivery PROVE Spec => []RetiredIsRemembered
<1>1. RememberedInv => RetiredIsRemembered
  BY DEF RememberedInv
<1>2. Init => OneStamp
  BY DEF Init, OneStamp, Committed
<1> QED
  BY <1>1, <1>2, RememberedInit, RememberedStep, StampsStep, PTL DEF Spec

-----------------------------------------------------------------------------
(* Of the facts of one session only the newest are live.                   *)

\* No event of an earlier episode comes after one of a later episode, as
\* framers/session_episode.py cuts the ordered events of a session.
Ordered(frames) ==
    \A i, j \in DOMAIN frames : i < j =>
        \A a \in frames[i], b \in frames[j] : a <= b

EpisodesInOrder == \A S \in SUBSET Events : Ordered(Episodes[S])

FactRows(s) == {x \in memory : x.sid = s /\ x.fact # NoFact}

Settled(s) ==
    \A r1, r2 \in FactRows(s) :
        r1.fact = r2.fact /\ r1.from < r2.from => ~r1.live

\* Nothing remembered of s is newer than any document that is left.
Newer(s, frames) ==
    \A r \in memory, i \in DOMAIN frames :
        r.sid = s /\ frames[i] # {} => r.from <= EpisodeEnd(frames[i])

\* Between the insert and the invalidation of an episode only what it states
\* is unsettled.
SettledBut(s, evs) ==
    \A r1, r2 \in FactRows(s) :
        r1.fact = r2.fact /\ r1.from < r2.from =>
            \/ ~r1.live
            \/ /\ r2.from = EpisodeEnd(evs)
               /\ \E e \in Stating(evs) : r2.fact = FactOf[e]

StagedInOrder ==
    /\ \A e \in Events : stagedAt[e] > 0 <=> staged[e] = "committed"
    /\ \A e, f \in Committed :
          SessionOf[e] = SessionOf[f] /\ e <= f => EventTime(e) <= EventTime(f)

BatchStaged == Working => Run.batch \subseteq Committed

FactsInv ==
    /\ RememberedInv
    /\ BatchStaged
    /\ StagedInOrder
    /\ \A s \in Sessions : Retired(s) \/ Finished(s) => Settled(s)
    /\ InSession => Ordered(Run.frames)
    /\ InSession /\ Run.superseded => Newer(Run.sid, Run.frames)
    /\ Run.pc = "write" /\ Run.superseded => Settled(Run.sid)
    /\ Run.pc = "invalidate" => SettledBut(Run.sid, Head(Run.frames))

\* An episode of the run holds committed events of the session.
LEMMA FramesCommitted ==
    ASSUME RememberedInv, BatchStaged, InSession, NEW i \in DOMAIN Run.frames
    PROVE  /\ Run.frames[i] \in SUBSET Events
           /\ \A e \in Run.frames[i] : e \in Committed /\ SessionOf[e] = Run.sid
<1>1. Run.frames[i] \subseteq BatchOf(Run.sid)
  BY DEF RememberedInv, SessionInv, EventsIn
<1>2. Run.batch \subseteq Committed
  BY DEF BatchStaged, InSession, Working
<1> QED
  BY <1>1, <1>2 DEF BatchOf, Committed

LEMMA EpisodeEndKept ==
    ASSUME NEW evs \in SUBSET Events, \A e \in evs : stagedAt'[e] = stagedAt[e]
    PROVE  EpisodeEnd(evs)' = EpisodeEnd(evs)
<1>1. CASE evs = {}
  BY <1>1 DEF EpisodeEnd
<1>2. CASE evs # {}
  <2>1. \E e \in evs : \A x \in evs : x <= e
    BY <1>2, EventsFinite, GreatestExists
  <2>2. (CHOOSE e \in evs : \A x \in evs : x <= e) \in evs
    BY <2>1
  <2> QED
    BY <1>2, <2>2 DEF EpisodeEnd, EventTime
<1> QED
  BY <1>1, <1>2

\* Later episodes end later.
LEMMA EpisodesEndInOrder ==
    ASSUME FactsInv, InSession, NEW i \in DOMAIN Run.frames,
           Run.frames[i] # {}
    PROVE  EpisodeEnd(Head(Run.frames)) <= EpisodeEnd(Run.frames[i])
<1> DEFINE F == Run.frames[1]
           G == Run.frames[i]
<1>1. TypeInv /\ Run.frames \in Seq(SUBSET Events) /\ Run.frames # <<>>
      /\ stagedAt \in [Events -> Times]
  BY RunTyped
  DEF FactsInv, RememberedInv, InSession, WellFormed, Runs, TypeInv, TypeOK
<1>2. 1 \in DOMAIN Run.frames /\ Head(Run.frames) = F /\ i \in Nat /\ i >= 1
  BY <1>1
<1>3. /\ F \in SUBSET Events /\ G \in SUBSET Events
      /\ \A e \in F \cup G : e \in Committed /\ SessionOf[e] = Run.sid
  BY <1>2, FramesCommitted DEF FactsInv
<1>4. /\ EpisodeEnd(F) \in Times /\ EpisodeEnd(G) \in Times
      /\ F # {} => \E e \in F : (\A x \in F : x <= e) /\ EpisodeEnd(F) = EventTime(e)
      /\ G # {} => \E e \in G : (\A x \in G : x <= e) /\ EpisodeEnd(G) = EventTime(e)
  BY <1>1, <1>3, EpisodeEndOfLast
<1>5. CASE i = 1
  BY <1>2, <1>4, <1>5 DEF Times
<1>6. CASE F = {}
  BY <1>2, <1>4, <1>6 DEF EpisodeEnd, Times
<1>7. CASE F # {} /\ i # 1
  <2>1. PICK a \in F : EpisodeEnd(F) = EventTime(a)
    BY <1>4, <1>7
  <2>2. PICK b \in G : EpisodeEnd(G) = EventTime(b)
    BY <1>4
  <2>3. a <= b
    BY <1>2, <1>7, <2>1, <2>2 DEF FactsInv, Ordered
  <2>4. EventTime(a) <= EventTime(b)
    BY <1>3, <2>1, <2>2, <2>3 DEF FactsInv, StagedInOrder
  <2> QED
    BY <1>2, <2>1, <2>2, <2>4
<1> QED
  BY <1>5, <1>6, <1>7

LEMMA BatchStep ==
    ASSUME GuaranteedDelivery, ~Prunes
    PROVE  RememberedInv /\ BatchStaged /\ [Next]_vars => BatchStaged'
<1> SUFFICES ASSUME RememberedInv, BatchStaged, [Next]_vars
             PROVE  BatchStaged'
  OBVIOUS
<1>1. TypeInv /\ Run \in Runs /\ cell \in [Modes -> Runs]
  BY RunTyped DEF RememberedInv, TypeInv, TypeOK
<1>2. ASSUME Committed \subseteq Committed',
             Working' => Working /\ Run'.batch = Run.batch
      PROVE  BatchStaged'
  BY <1>2 DEF BatchStaged
<1>3. CASE RunStep("consolidate") \/ Fail("consolidate")
  <2>1. UNCHANGED <<staged>> /\ Committed' = Committed
    BY <1>3 DEF RunStep, Open, Select, Take, Supersede, Insert, Invalidate, Mark, Fail,
       Committed
  <2>2. CASE Select("consolidate")
    BY <1>1, <2>1, <2>2, SelectEffect DEF BatchStaged, Selected
  <2>3. CASE ~Select("consolidate")
    <3>1. CASE Open("consolidate") \/ Mark("consolidate") \/ Fail("consolidate")
      <4>1. Run'.pc \in {"idle", "select"}
        BY <1>1, <3>1 DEF Open, Mark, Fail, Idle, Run, Runs, Modes
      <4> QED
        BY <4>1 DEF BatchStaged, Working
    <3>2. CASE Take("consolidate")
      <4>1. Working' => Run.pc = "next" /\ Run'.batch = Run.batch
        BY <1>1, <3>2, TakeEffect DEF Working, Idle
      <4> QED
        BY <1>2, <2>1, <4>1 DEF Working
    <3>3. CASE Supersede("consolidate") \/ Insert("consolidate") \/ Invalidate("consolidate")
      <4>1. \/ Run' = [Run EXCEPT !.superseded = TRUE]
            \/ \E k : \/ Run' = Advance([Run EXCEPT !.base = k])
                     \/ Run' = [[Run EXCEPT !.base = k] EXCEPT !.pc = "invalidate"]
            \/ Run' = Advance(Run)
        BY <1>1, <3>3 DEF Supersede, Insert, Invalidate, Run, Modes
      <4>2. Run'.batch = Run.batch
        BY <1>1, <4>1 DEF Advance, Runs
      <4>3. Working
        BY <3>3 DEF Supersede, Insert, Invalidate, Working, Run
      <4> QED
        BY <1>2, <2>1, <4>2, <4>3
    <3> QED
      BY <1>3, <2>3, <3>1, <3>2, <3>3 DEF RunStep
  <2> QED
    BY <2>2, <2>3
<1>4. ASSUME NEW e \in Events, BeginStage(e) \/ CommitStage(e)
      PROVE  BatchStaged'
  <2>1. Committed \subseteq Committed' /\ Run' = Run
    BY <1>1, <1>4 DEF BeginStage, CommitStage, Committed, Run, TypeInv, TypeOK
  <2> QED
    BY <1>2, <2>1 DEF Working, BatchStaged
<1>5. CASE Tick \/ UNCHANGED vars
  <2>1. Committed' = Committed /\ Run' = Run
    BY <1>5 DEF Tick, vars, Committed, Run
  <2> QED
    BY <2>1 DEF Working, BatchStaged
<1> QED
  BY <1>3, <1>4, <1>5 DEF Next, Prune, GuaranteedDelivery

LEMMA FactsInit == Init => FactsInv
<1> SUFFICES ASSUME Init PROVE FactsInv
  OBVIOUS
<1>1. Run.pc = "idle" /\ memory = {}
  BY DEF Init, Run, Modes, Idle
<1>2. StagedInOrder
  BY DEF Init, StagedInOrder, Committed
<1> QED
  BY <1>1, <1>2, RememberedInit
  DEF FactsInv, BatchStaged, Working, InSession, Settled, FactRows

\* Staging in the order of seq keeps the rows of a session in order of time.
LEMMA BeginStageSettles ==
    ASSUME GuaranteedDelivery, Monotone, FactsInv, NEW e \in Events, BeginStage(e)
    PROVE  FactsInv'
<1>1. RememberedInv /\ RememberedInv' /\ TypeInv /\ BatchStaged
  BY BeginStageRemembers DEF FactsInv, RememberedInv
<1>2. /\ clock \in Nat /\ staged \in [Events -> {"absent", "open", "committed"}]
      /\ stagedAt \in [Events -> Times] /\ consumed \in [Modes -> [Events -> Times]]
  BY <1>1 DEF TypeInv, TypeOK, Times
<1>3. /\ clock' = clock + 1 /\ memory' = memory /\ Run' = Run
      /\ staged' = [staged EXCEPT ![e] = "committed"]
      /\ stagedAt' = [stagedAt EXCEPT ![e] = clock + 1]
      /\ consumed' = [m \in Modes |-> [consumed[m] EXCEPT ![e] = 0]]
      /\ staged[e] = "absent"
      /\ \A f \in Events : SessionOf[f] = SessionOf[e] /\ stagedAt[f] # 0
             => f <= e /\ EventTime(f) <= EventTime(e)'
  BY DEF BeginStage, GuaranteedDelivery, Run
<1>4. /\ staged'[e] = "committed" /\ stagedAt'[e] = clock + 1
      /\ \A f \in Events : f # e => staged'[f] = staged[f] /\ stagedAt'[f] = stagedAt[f]
  BY <1>2, <1>3
<1>5. Committed' = Committed \cup {e} /\ e \notin Committed
  BY <1>3, <1>4 DEF Committed
<1>6. \A f \in Events : stagedAt[f] \in Nat /\ stagedAt[f] <= clock
  BY <1>1, <1>2 DEF RememberedInv, Times
<1>7. StagedInOrder'
  <2>1. \A f \in Events : stagedAt'[f] > 0 <=> staged'[f] = "committed"
    BY <1>2, <1>4 DEF FactsInv, StagedInOrder
  <2>2. ASSUME NEW f \in Committed', NEW g \in Committed',
               SessionOf[f] = SessionOf[g], f <= g
        PROVE  EventTime(f)' <= EventTime(g)'
    <3>1. f \in Events /\ g \in Events /\ f \in Nat /\ g \in Nat
      BY EventsAssumption DEF Committed
    <3>2. CASE f # e /\ g # e
      BY <1>4, <1>5, <2>2, <3>1, <3>2 DEF FactsInv, StagedInOrder, EventTime
    <3>3. CASE g = e /\ f # e
      <4>1. stagedAt[f] > 0 /\ EventTime(f)' = EventTime(f)
        BY <1>4, <1>5, <3>1, <3>3 DEF FactsInv, StagedInOrder, Committed, EventTime
      <4> QED
        BY <1>3, <1>6, <2>2, <3>1, <3>3, <4>1
    <3>5. CASE g = e /\ f = e
      <4>1. EventTime(e)' \in Int
        BY <1>2, <1>4, EventsAssumption, SettingsAssumption DEF EventTime
      <4> QED
        BY <3>5, <4>1
    <3>4. CASE f = e /\ g # e
      <4>1. g > e /\ stagedAt[g] > 0
        BY <1>5, <2>2, <3>1, <3>4 DEF FactsInv, StagedInOrder, Committed
      <4> QED
        BY <1>3, <1>6, <2>2, <3>1, <3>4, <4>1
    <3> QED
      BY <3>2, <3>3, <3>4, <3>5
  <2> QED
    BY <2>1, <2>2 DEF StagedInOrder
<1>8. ASSUME NEW s \in Sessions, Retired(s)'
      PROVE  Retired(s)
  <2>1. consumed'["consolidate"][e] = 0
    BY <1>2, <1>3 DEF Modes
  <2>2. s # SessionOf[e]
    <3>1. e \in RowsOf(SessionOf[e])'
      BY <1>5 DEF RowsOf
    <3> QED
      BY <1>8, <2>1, <3>1 DEF Retired, HasNews
  <2>3. RowsOf(s)' = RowsOf(s) /\ \A f \in RowsOf(s) : f \in Events /\ f # e
    BY <1>5, <2>2 DEF RowsOf, Committed
  <2>4. \A f \in RowsOf(s) :
           /\ stagedAt'[f] = stagedAt[f]
           /\ consumed'["consolidate"][f] = consumed["consolidate"][f]
    BY <1>2, <1>3, <1>4, <2>3 DEF Modes
  <2> QED
    BY <1>8, <2>3, <2>4 DEF Retired, HasNews
<1>9. \A s : (Settled(s)' <=> Settled(s)) /\ (Finished(s)' <=> Finished(s))
  BY <1>3 DEF Settled, FactRows, Finished, Working, InSession
<1>10. ASSUME InSession, NEW i \in DOMAIN Run.frames
       PROVE  EpisodeEnd(Run.frames[i])' = EpisodeEnd(Run.frames[i])
  <2>1. /\ Run.frames[i] \in SUBSET Events
        /\ \A f \in Run.frames[i] : f \in Committed
    BY <1>1, <1>10, FramesCommitted
  <2>2. \A f \in Run.frames[i] : stagedAt'[f] = stagedAt[f]
    BY <1>4, <1>5, <2>1 DEF Committed
  <2>3. ASSUME NEW S \in SUBSET Events, \A f \in S : stagedAt'[f] = stagedAt[f]
        PROVE  EpisodeEnd(S)' = EpisodeEnd(S)
    BY <2>3, EpisodeEndKept
  <2> QED
    BY <1>3, <2>1, <2>2, <2>3
<1>11. InSession => 1 \in DOMAIN Run.frames /\ Head(Run.frames) = Run.frames[1]
  BY <1>1, RunTyped DEF InSession, WellFormed, Runs
<1>12. (InSession /\ Run.superseded => Newer(Run.sid, Run.frames))'
  BY <1>3, <1>10 DEF FactsInv, Newer, InSession
<1>13. (Run.pc = "invalidate" => SettledBut(Run.sid, Head(Run.frames)))'
  <2>1. Run.pc = "invalidate" => InSession
    BY DEF InSession
  <2> QED
    BY <1>3, <1>10, <1>11, <2>1 DEF FactsInv, SettledBut, FactRows, Stating
<1>14. (InSession => Ordered(Run.frames))'
       /\ (Run.pc = "write" /\ Run.superseded => Settled(Run.sid))'
  BY <1>3, <1>9 DEF FactsInv, InSession, Ordered
<1>15. BatchStaged'
  BY <1>1, <1>3, <1>5 DEF BatchStaged, Working
<1> QED
  BY <1>1, <1>7, <1>8, <1>9, <1>12, <1>13, <1>14, <1>15 DEF FactsInv

\* A step that changes neither the rows of the memory table nor the staging
\* table, and ends no session.
LEMMA QuietSettles ==
    ASSUME FactsInv, RememberedInv', BatchStaged',
           UNCHANGED <<staged, stagedAt, consumed, memory>>,
           \/ ~InSession'
           \/ Run'.pc = "write" /\ ~Run'.superseded /\ Ordered(Run'.frames)
           \/ Run' = Run,
           \A s \in Sessions : Finished(s)' => Finished(s)
    PROVE  FactsInv'
<1>1. StagedInOrder'
  BY SameStaging DEF FactsInv, StagedInOrder, EventTime
<1>2. \A s : Settled(s)' <=> Settled(s)
  BY DEF Settled, FactRows
<1>3. \A s \in Sessions : (Retired(s) \/ Finished(s) => Settled(s))'
  BY <1>2, SameStaging DEF FactsInv
<1>4. CASE ~InSession'
  BY <1>1, <1>3, <1>4 DEF FactsInv, InSession
<1>5. CASE Run'.pc = "write" /\ ~Run'.superseded /\ Ordered(Run'.frames)
  BY <1>1, <1>3, <1>5 DEF FactsInv, Ordered
<1>6. CASE Run' = Run
  <2>1. (InSession => Ordered(Run.frames))'
    BY <1>6 DEF FactsInv, InSession, Ordered
  <2>2. (InSession /\ Run.superseded => Newer(Run.sid, Run.frames))'
    BY <1>6 DEF FactsInv, InSession, Newer, EpisodeEnd, EventTime
  <2>3. (Run.pc = "write" /\ Run.superseded => Settled(Run.sid))'
    BY <1>6 DEF FactsInv, Settled, FactRows
  <2>4. (Run.pc = "invalidate" => SettledBut(Run.sid, Head(Run.frames)))'
    BY <1>6 DEF FactsInv, SettledBut, FactRows, EpisodeEnd, EventTime, Stating
  <2> QED
    BY <1>1, <1>3, <2>1, <2>2, <2>3, <2>4 DEF FactsInv
<1> QED
  BY <1>4, <1>5, <1>6

LEMMA TakeSettles ==
    ASSUME EpisodesInOrder, FactsInv, RememberedInv', BatchStaged', Take("consolidate")
    PROVE  FactsInv'
<1>1. TypeInv /\ UNCHANGED <<staged, stagedAt, consumed, memory>>
      /\ Run \in Runs /\ WellFormed(Run)
  BY RunTyped DEF FactsInv, RememberedInv, Take
<1>2. CASE Run' = Idle
  <2>1. ~InSession' /\ ~Working'
    BY <1>2 DEF InSession, Working, Idle
  <2> QED
    BY <1>1, <2>1, QuietSettles DEF Finished
<1>3. CASE Run' # Idle
  <2>1. /\ Run.pc = "next" /\ Run'.pc = "write" /\ Run'.batch = Run.batch
        /\ Run'.picked = Run.picked
        /\ Run'.sid \in Run.queue /\ Run'.queue = Run.queue \ {Run'.sid}
        /\ Run'.frames = Framed("consolidate", BatchOf(Run'.sid))
        /\ ~Run'.superseded
    BY <1>1, <1>3, TakeEffect
  <2>2. BatchOf(Run'.sid) \in SUBSET Events
    BY <1>1 DEF BatchOf, Runs
  <2>3. Ordered(Run'.frames)
    BY <2>1, <2>2 DEF Framed, EpisodesInOrder
  <2>4. \A s \in Sessions : Finished(s)' => Finished(s)
    BY <2>1 DEF Finished, Working, InSession
  <2> QED
    BY <1>1, <2>1, <2>3, <2>4, QuietSettles
<1> QED
  BY <1>2, <1>3

LEMMA MarkSettles ==
    ASSUME FactsInv, RememberedInv', BatchStaged', Mark("consolidate")
    PROVE  FactsInv'
<1>1. TypeInv /\ Run \in Runs /\ consumed \in [Modes -> [Events -> Times]]
  BY RunTyped DEF FactsInv, RememberedInv, TypeInv, TypeOK
<1>2. /\ Run' = Idle /\ UNCHANGED <<clock, staged, stagedAt, memory>>
      /\ Run.pc = "next" /\ Run.queue = {}
      /\ consumed'["consolidate"] = [e \in Events |->
             IF e \in Committed /\ SessionOf[e] \in Run.picked
             THEN Run.wm ELSE consumed["consolidate"][e]]
  BY <1>1 DEF Mark, Run, Modes, TypeInv, TypeOK
<1>3. Committed' = Committed /\ \A s : RowsOf(s)' = RowsOf(s) /\ Settled(s)' = Settled(s)
  BY <1>2 DEF Committed, RowsOf, Settled, FactRows
<1>4. ~Working' /\ ~InSession' /\ Run'.pc = "idle"
  BY <1>2 DEF Working, InSession, Idle
<1>5. ASSUME NEW s \in Sessions, Retired(s)'
      PROVE  Settled(s)
  <2>1. CASE s \in Run.picked
    BY <1>2, <2>1 DEF FactsInv, Finished, Working, InSession
  <2>2. CASE s \notin Run.picked
    <3>1. \A e \in RowsOf(s) : e \in Events
             /\ consumed'["consolidate"][e] = consumed["consolidate"][e]
      BY <1>2, <2>2 DEF RowsOf, Committed
    <3>2. Retired(s)
      BY <1>2, <1>3, <1>5, <3>1 DEF Retired, HasNews
    <3> QED
      BY <3>2 DEF FactsInv
  <2> QED
    BY <2>1, <2>2
<1>6. StagedInOrder'
  BY <1>2, <1>3 DEF FactsInv, StagedInOrder, EventTime
<1> QED
  BY <1>3, <1>4, <1>5, <1>6 DEF FactsInv, Finished

LEMMA SupersedeSettles ==
    ASSUME FactsInv, RememberedInv', BatchStaged', Supersede("consolidate")
    PROVE  FactsInv'
<1>1. TypeInv /\ Run \in Runs /\ WellFormed(Run) /\ memory \subseteq Rows
  BY RunTyped DEF FactsInv, RememberedInv, TypeInv, TypeOK
<1>2. UNCHANGED <<clock, staged, stagedAt, consumed>> /\ Run.pc = "write"
  BY DEF Supersede, Run
<1>3. /\ Run'.pc = "write" /\ Run'.batch = Run.batch
      /\ Run'.picked = Run.picked /\ Run'.queue = Run.queue /\ Run'.sid = Run.sid
      /\ Run'.frames = Run.frames
  <2>1. Run' = [Run EXCEPT !.superseded = TRUE]
    BY <1>1 DEF Supersede, Run, Modes, TypeInv, TypeOK
  <2> QED
    BY <1>1, <1>2, <2>1 DEF Runs
<1>4. memory' = {r \in memory : r.sid # Run.sid}
  BY DEF Supersede, Run
<1>5. \A s : Settled(s) => Settled(s)'
  BY <1>4 DEF Settled, FactRows
<1>6. \A s \in Sessions : (Retired(s) \/ Finished(s) => Settled(s))'
  BY <1>2, <1>3, <1>5, SameStaging DEF FactsInv, Finished, Working, InSession
<1>7. Settled(Run.sid)' /\ Newer(Run.sid, Run.frames)'
  BY <1>3, <1>4 DEF Settled, FactRows, Newer
<1>8. StagedInOrder'
  BY <1>2, SameStaging DEF FactsInv, StagedInOrder, EventTime
<1>9. Ordered(Run.frames)'
  BY <1>2, <1>3 DEF FactsInv, InSession, Ordered
<1> QED
  BY <1>3, <1>6, <1>7, <1>8, <1>9 DEF FactsInv

\* What is left after an episode is in order, and not older than the episode.
LEMMA TailInOrder ==
    ASSUME NEW frames \in Seq(SUBSET Events), frames # <<>>, Ordered(frames)
    PROVE  /\ Ordered(Tail(frames))
           /\ \A i \in DOMAIN Tail(frames) :
                 i + 1 \in DOMAIN frames /\ Tail(frames)[i] = frames[i + 1]
<1>1. /\ Len(frames) \in Nat /\ Len(frames) >= 1 /\ DOMAIN frames = 1 .. Len(frames)
      /\ DOMAIN Tail(frames) = 1 .. Len(frames) - 1
      /\ \A i \in 1 .. Len(frames) - 1 : Tail(frames)[i] = frames[i + 1]
  OBVIOUS
<1>2. \A i \in 1 .. Len(frames) - 1 : i + 1 \in 1 .. Len(frames)
  BY <1>1
<1>3. Ordered(Tail(frames))
  <2> SUFFICES ASSUME NEW i \in 1 .. Len(frames) - 1, NEW j \in 1 .. Len(frames) - 1,
                      i < j, NEW a \in Tail(frames)[i], NEW b \in Tail(frames)[j]
               PROVE  a <= b
    BY <1>1 DEF Ordered
  <2>1. i + 1 < j + 1 /\ i + 1 \in DOMAIN frames /\ j + 1 \in DOMAIN frames
    BY <1>1, <1>2
  <2>2. a \in frames[i + 1] /\ b \in frames[j + 1]
    BY <1>1
  <2> QED
    BY <2>1, <2>2 DEF Ordered
<1> QED
  BY <1>1, <1>2, <1>3

LEMMA InsertSettles ==
    ASSUME GuaranteedDelivery, FactsInv, RememberedInv', BatchStaged', Insert("consolidate")
    PROVE  FactsInv'
<1>1. /\ RememberedInv /\ TypeInv /\ Run \in Runs /\ WellFormed(Run)
      /\ memory \subseteq Rows /\ stagedAt \in [Events -> Times]
  BY RunTyped DEF FactsInv, RememberedInv, TypeInv, TypeOK
<1>2. PICK evs, found, new, n :
         /\ evs = Head(Run.frames) /\ evs \in SUBSET Events
         /\ found \in {Stating(evs), {}}
         /\ EpisodeRows(evs, found, new)
         /\ \A x \in new : x.sid = Run.sid
         /\ memory' = memory \cup new
         /\ AfterInsert(Run, n, found, Run')
  BY <1>1, InsertAdds
<1>3. /\ UNCHANGED <<clock, staged, stagedAt, consumed>>
      /\ Run.pc = "write" /\ Run.superseded /\ InSession /\ Working
  BY DEF Insert, MustSupersede, Run, InSession, Working
<1>4. /\ Run'.picked = Run.picked /\ Run'.queue = Run.queue /\ Run'.sid = Run.sid
      /\ Run'.superseded
      /\ \/ /\ found = {} /\ Run'.frames = Tail(Run.frames)
            /\ Run'.pc = IF Len(Run.frames) > 1 THEN "write" ELSE "next"
         \/ found # {} /\ Run'.pc = "invalidate" /\ Run'.frames = Run.frames
  BY <1>2, <1>3 DEF AfterInsert
<1>5. /\ Run.frames \in Seq(SUBSET Events) /\ Run.frames # <<>>
      /\ 1 \in DOMAIN Run.frames /\ evs = Run.frames[1]
  BY <1>1, <1>2, <1>3 DEF WellFormed, Runs
<1>6. /\ Ordered(Run.frames) /\ Ordered(Tail(Run.frames))
      /\ \A i \in DOMAIN Tail(Run.frames) :
            i + 1 \in DOMAIN Run.frames /\ Tail(Run.frames)[i] = Run.frames[i + 1]
  BY <1>3, <1>5, TailInOrder DEF FactsInv
<1>7. Newer(Run.sid, Run.frames) /\ Settled(Run.sid)
  BY <1>3 DEF FactsInv
<1>8. \A S : EpisodeEnd(S)' = EpisodeEnd(S)
  BY <1>3 DEF EpisodeEnd, EventTime
<1>9. \A r \in memory', i \in DOMAIN Run.frames :
         r.sid = Run.sid /\ Run.frames[i] # {} => r.from <= EpisodeEnd(Run.frames[i])
  <2> SUFFICES ASSUME NEW r \in new, NEW i \in DOMAIN Run.frames, Run.frames[i] # {}
               PROVE  r.from <= EpisodeEnd(Run.frames[i])
    BY <1>2, <1>7 DEF Newer
  <2> QED
    BY <1>2, <1>3, EpisodesEndInOrder DEF EpisodeRows
<1>10. Ordered(Run'.frames) /\ Newer(Run.sid, Run.frames)'
  <2>1. CASE Run'.frames = Run.frames
    BY <1>4, <1>6, <1>8, <1>9, <2>1 DEF Newer
  <2>2. CASE Run'.frames = Tail(Run.frames)
    BY <1>4, <1>6, <1>8, <1>9, <2>2 DEF Newer
  <2> QED
    BY <1>4, <2>1, <2>2
<1>11. \A s : s # Run.sid => FactRows(s)' = FactRows(s)
  BY <1>2 DEF FactRows
<1>12. found = {} => Settled(Run.sid)'
  <2> SUFFICES ASSUME found = {}
               PROVE  FactRows(Run.sid)' = FactRows(Run.sid)
    BY <1>4, <1>7 DEF Settled
  <2>1. \A x \in new : x.fact = NoFact
    BY <1>2 DEF EpisodeRows
  <2> QED
    BY <1>2, <1>4, <2>1 DEF FactRows
<1>13. found # {} => SettledBut(Run.sid, Head(Run.frames))'
  <2> SUFFICES ASSUME found # {}, NEW r1 \in memory', NEW r2 \in memory',
                      r1.sid = Run.sid, r2.sid = Run.sid,
                      r1.fact # NoFact, r2.fact # NoFact,
                      r1.fact = r2.fact, r1.from < r2.from
               PROVE  \/ ~r1.live
                      \/ /\ r2.from = EpisodeEnd(evs)
                         /\ \E e \in Stating(evs) : r2.fact = FactOf[e]
    BY <1>2, <1>4, <1>8 DEF SettledBut, FactRows, Stating
  <2>1. found = Stating(evs) /\ evs # {}
    BY <1>2 DEF Stating
  <2>2. CASE r2 \in new
    BY <1>2, <2>1, <2>2 DEF EpisodeRows
  <2>3. CASE r2 \in memory /\ r1 \in memory
    BY <1>7, <2>3 DEF Settled, FactRows
  <2>4. CASE r2 \in memory /\ r1 \in new
    <3>1. r2.from <= EpisodeEnd(evs) /\ r1.from = EpisodeEnd(evs)
      BY <1>2, <1>5, <1>7, <2>1, <2>4 DEF Newer, EpisodeRows
    <3>2. r2.from \in Int /\ EpisodeEnd(evs) \in Int
      BY <1>1, <1>2, <2>4, EpisodeEndOfLast DEF Rows, Times
    <3> QED
      BY <3>1, <3>2
  <2> QED
    BY <1>2, <2>2, <2>3, <2>4
<1>14. ASSUME NEW s \in Sessions, Retired(s)' \/ Finished(s)'
       PROVE  Settled(s)'
  <2>1. CASE s # Run.sid
    <3>1. Retired(s) \/ Finished(s)
      BY <1>3, <1>4, <1>14, <2>1, SameStaging DEF Finished
    <3> QED
      BY <1>11, <2>1, <3>1 DEF FactsInv, Settled
  <2>2. CASE s = Run.sid
    <3>1. ~Retired(Run.sid)
      BY <1>1, <1>3 DEF RememberedInv, SelectionInv, WellFormed
    <3>2. ~Retired(s)'
      BY <1>3, <2>2, <3>1, SameStaging
    <3>3. found = {}
      BY <1>4, <1>14, <2>2, <3>2 DEF Finished, InSession
    <3> QED
      BY <1>4, <1>12, <2>2, <3>3
  <2> QED
    BY <2>1, <2>2
<1>15. StagedInOrder'
  BY <1>3, SameStaging DEF FactsInv, StagedInOrder, EventTime
<1> QED
  BY <1>4, <1>10, <1>12, <1>13, <1>14, <1>15 DEF FactsInv, InSession

\* The invalidation retracts what the episode contradicts, and nothing else
\* was unsettled.
LEMMA InvalidateSettles ==
    ASSUME FactsInv, RememberedInv', BatchStaged', Invalidate("consolidate")
    PROVE  FactsInv'
<1>1. /\ RememberedInv /\ TypeInv /\ Run \in Runs /\ WellFormed(Run)
      /\ "consolidate" \in Modes
  BY RunTyped DEF FactsInv, RememberedInv
<1> DEFINE evs == Head(Run.frames)
<1>2. PICK f \in [memory -> memory'] :
         /\ memory' = {f[r] : r \in memory}
         /\ \A r \in memory : /\ f[r].sid = r.sid /\ f[r].fact = r.fact
                              /\ f[r].from = r.from
                              /\ f[r].live <=> (r.live /\ ~Contradicted(r, evs))
  BY <1>1, InvalidateEffect DEF Run
<1>3. /\ UNCHANGED <<clock, staged, stagedAt, consumed>>
      /\ Run.pc = "invalidate" /\ InSession /\ Working
  BY DEF Invalidate, Run, InSession, Working
<1>4. /\ Run'.picked = Run.picked /\ Run'.queue = Run.queue /\ Run'.sid = Run.sid
      /\ Run'.frames = Tail(Run.frames)
      /\ Run'.pc = IF Len(Run.frames) > 1 THEN "write" ELSE "next"
  <2>1. Run' = Advance(Run)
    BY <1>1 DEF Invalidate, Run, TypeInv, TypeOK
  <2> QED
    BY <1>1, <2>1, AdvanceFields
<1>5. Run.frames \in Seq(SUBSET Events) /\ Run.frames # <<>>
  BY <1>1, <1>3 DEF WellFormed, Runs
<1>6. /\ Ordered(Tail(Run.frames))
      /\ \A i \in DOMAIN Tail(Run.frames) :
            i + 1 \in DOMAIN Run.frames /\ Tail(Run.frames)[i] = Run.frames[i + 1]
  BY <1>3, <1>5, TailInOrder DEF FactsInv
<1>7. /\ Run.superseded /\ Newer(Run.sid, Run.frames) /\ SettledBut(Run.sid, evs)
  BY <1>1, <1>3 DEF FactsInv, RememberedInv, SessionInv
<1>8. \A S : EpisodeEnd(S)' = EpisodeEnd(S)
  BY <1>3 DEF EpisodeEnd, EventTime
<1> HIDE DEF evs
<1>9. Newer(Run.sid, Run.frames)'
  BY <1>2, <1>4, <1>6, <1>7, <1>8 DEF Newer
<1>10. ASSUME NEW s, Settled(s)
       PROVE  Settled(s)'
  <2> SUFFICES ASSUME NEW r1 \in memory, NEW r2 \in memory,
                      f[r1].sid = s, f[r2].sid = s,
                      f[r1].fact # NoFact, f[r2].fact # NoFact,
                      f[r1].fact = f[r2].fact, f[r1].from < f[r2].from
               PROVE  ~f[r1].live
    BY <1>2 DEF Settled, FactRows
  <2>1. r1 \in FactRows(s) /\ r2 \in FactRows(s)
        /\ r1.fact = r2.fact /\ r1.from < r2.from
    BY <1>2 DEF FactRows
  <2> QED
    BY <1>2, <1>10, <2>1 DEF Settled
<1>11. Settled(Run.sid)'
  <2> SUFFICES ASSUME NEW r1 \in memory, NEW r2 \in memory,
                      f[r1].sid = Run.sid, f[r2].sid = Run.sid,
                      f[r1].fact # NoFact, f[r2].fact # NoFact,
                      f[r1].fact = f[r2].fact, f[r1].from < f[r2].from
               PROVE  ~f[r1].live
    BY <1>2, <1>4 DEF Settled, FactRows
  <2>1. r1 \in FactRows(Run.sid) /\ r2 \in FactRows(Run.sid)
        /\ r1.fact = r2.fact /\ r1.from < r2.from
    BY <1>2 DEF FactRows
  <2>2. \/ ~r1.live
        \/ r2.from = EpisodeEnd(evs) /\ \E e \in Stating(evs) : r2.fact = FactOf[e]
    BY <1>7, <2>1 DEF SettledBut
  <2>3. CASE ~r1.live
    BY <1>2, <2>3
  <2>4. CASE r2.from = EpisodeEnd(evs) /\ \E e \in Stating(evs) : r2.fact = FactOf[e]
    <3>1. Contradicted(r1, evs)
      BY <2>1, <2>4 DEF Contradicted
    <3> QED
      BY <1>2, <3>1
  <2> QED
    BY <2>2, <2>3, <2>4
<1>12. ASSUME NEW s \in Sessions, Retired(s)' \/ Finished(s)'
       PROVE  Settled(s)'
  <2>1. CASE s # Run.sid
    <3>1. Retired(s) \/ Finished(s)
      BY <1>3, <1>4, <1>12, <2>1, SameStaging DEF Finished
    <3> QED
      BY <1>10, <3>1 DEF FactsInv
  <2>2. CASE s = Run.sid
    BY <1>4, <1>11, <2>2
  <2> QED
    BY <2>1, <2>2
<1>13. StagedInOrder'
  BY <1>3, SameStaging DEF FactsInv, StagedInOrder, EventTime
<1> QED
  BY <1>4, <1>6, <1>9, <1>11, <1>12, <1>13 DEF FactsInv, Ordered

LEMMA FactsStep ==
    ASSUME GuaranteedDelivery, ~Prunes, Monotone, EpisodesInOrder
    PROVE  FactsInv /\ OneStamp /\ [Next]_vars => FactsInv'
<1> SUFFICES ASSUME FactsInv, OneStamp, [Next]_vars
             PROVE  FactsInv'
  OBVIOUS
<1>1. RememberedInv' /\ BatchStaged' /\ RememberedInv /\ TypeInv /\ Run \in Runs
  BY RememberedStep, BatchStep, RunTyped DEF FactsInv, RememberedInv
<1>2. ASSUME NEW m \in Cells, RunStep(m) \/ Fail(m)
      PROVE  FactsInv'
  <2>1. m = "consolidate" /\ cell \in [Modes -> Runs] /\ m \in Modes
    BY <1>1 DEF GuaranteedDelivery, TypeInv, TypeOK, Modes
  <2>2. CASE Open(m) \/ Select(m) \/ Fail(m)
    <3>1. ~InSession' /\ \A s \in Sessions : ~Finished(s)'
      <4>1. CASE Open(m)
        BY <2>1, <4>1 DEF Open, Run, InSession, Finished, Working, Runs
      <4>2. CASE Select(m)
        BY <1>1, <2>1, <4>2, SelectEffect DEF InSession, Finished
      <4>3. CASE Fail(m)
        BY <2>1, <4>3 DEF Fail, Idle, Run, InSession, Finished, Working
      <4> QED
        BY <2>2, <4>1, <4>2, <4>3
    <3> QED
      BY <1>1, <2>2, <3>1, QuietSettles DEF Open, Select, Fail
  <2> QED
    BY <1>1, <1>2, <2>1, <2>2, TakeSettles, SupersedeSettles, InsertSettles,
       InvalidateSettles, MarkSettles DEF RunStep
<1>3. CASE Tick \/ UNCHANGED vars
  <2>1. UNCHANGED <<staged, stagedAt, consumed, memory>> /\ Run' = Run
    BY <1>3 DEF Tick, vars, Run
  <2>2. \A s : Finished(s)' <=> Finished(s)
    BY <2>1 DEF Finished, Working, InSession
  <2> QED
    BY <1>1, <2>1, <2>2, QuietSettles
<1>4. ASSUME NEW e \in Events, CommitStage(e)
      PROVE  FALSE
  BY <1>1, <1>4 DEF CommitStage, RememberedInv
<1> QED
  BY <1>2, <1>3, <1>4, BeginStageSettles DEF Next, Prune

\* When events are staged in the order of their numbers and episodes follow
\* one another, of the facts a retired session states about one pair only the
\* newest are live, however often the session was consolidated and whichever
\* transactions failed.
THEOREM FactsSettle ==
    ASSUME GuaranteedDelivery, ~Prunes, Monotone, EpisodesInOrder
    PROVE  Spec => []FactsOfSessionSettled
<1>1. FactsInv => FactsOfSessionSettled
  BY DEF FactsInv, FactsOfSessionSettled, Settled, FactRows
<1>2. Init => OneStamp
  BY DEF Init, OneStamp, Committed
<1>3. FactsInv => RememberedInv
  BY DEF FactsInv
<1> QED
  BY <1>1, <1>2, <1>3, FactsInit, FactsStep, StampsStep, PTL DEF Spec
=============================================================================
