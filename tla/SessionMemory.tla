---------------------------- MODULE SessionMemory ----------------------------
(***************************************************************************)
(* Agent memory: events of a conversation are staged in a table            *)
(* (memory/staging.py); a realtime and a consolidate cell read it through  *)
(* sources/session_staging.py and write the memory table through           *)
(* sinks/memory_pg.py, each as a run_cell of its own, at its own pace.     *)
(*                                                                         *)
(* An event is its number, which is also its seq in its session.  Time is  *)
(* the clock of the one PostgreSQL server: now() is the start of the       *)
(* transaction, for the default of staged_at as for the watermark.         *)
(***************************************************************************)
EXTENDS Integers, Sequences, FiniteSets

CONSTANTS
    Events,         \* positive integers
    Sessions,       \* positive integers: ORDER BY session_id
    SessionOf,      \* [Events -> Sessions]
    Facts,          \* (subject, predicate) pairs
    NoFact,
    FactOf,         \* the pair an event states something about, or NoFact
    EventTs,        \* event_ts as the client gave it, 0 for NULL
    Episodes,       \* [SUBSET Events -> Seq(SUBSET Events)], the episode framer
    Windows,        \* the same for the chunker of the realtime cell
    Cells,          \* the cells that are scheduled
    MinAge,         \* source.min_age_seconds
    MaxSessions,    \* source.max_sessions, NoCap for None
    DocLimit,       \* runtime.doc_limit, NoCap for None
    DeleteOrphans,  \* target.delete_orphans
    MaxTime,        \* bound: the clock
    MaxFaults,      \* bound: failed runs and process deaths altogether
    Monotone,       \* events of a session are staged, and dated, in the order
                    \* of their seq
    Straddle,       \* staging transactions may be in flight while a cell reads
    Prunes          \* somebody calls prune_staging

NoCap == 0
Modes == {"realtime", "consolidate"}

ASSUME EventsAssumption ==
    /\ Events \subseteq Nat \ {0} /\ IsFiniteSet(Events)
    /\ Sessions \subseteq Nat \ {0} /\ IsFiniteSet(Sessions)
    /\ SessionOf \in [Events -> Sessions]
    /\ NoFact \notin Facts /\ FactOf \in [Events -> Facts \cup {NoFact}]
    /\ EventTs \in [Events -> 0 .. MaxTime]
\* Framer and chunker drop no event of what they are given.
ASSUME CutsAssumption ==
    /\ Episodes \in [SUBSET Events -> Seq(SUBSET Events)]
    /\ Windows \in [SUBSET Events -> Seq(SUBSET Events)]
    /\ \A S \in SUBSET Events :
          /\ UNION {Episodes[S][i] : i \in DOMAIN Episodes[S]} = S
          /\ UNION {Windows[S][i] : i \in DOMAIN Windows[S]} = S
ASSUME SettingsAssumption ==
    /\ Cells \subseteq Modes
    /\ MinAge \in Nat /\ MaxSessions \in Nat /\ DocLimit \in Nat
    /\ MaxTime \in Nat \ {0} /\ MaxFaults \in Nat
    /\ DeleteOrphans \in BOOLEAN /\ Prunes \in BOOLEAN
    /\ Monotone \in BOOLEAN /\ Straddle \in BOOLEAN

VARIABLES
    clock,
    staged,     \* staged[e]: "absent", "open" (uncommitted) or "committed"
    stagedAt,   \* staged_at of e's row
    consumed,   \* consumed[m][e]: the watermark in the JSON column, or 0
    memory,     \* the rows of the memory table
    cell,       \* cell[m]: the locals of the run of cell m
    faults

vars == <<clock, staged, stagedAt, consumed, memory, cell, faults>>

Times == 0 .. MaxTime

Rows == [sid : Sessions, seq : Nat, tier : {"provisional", "consolidated"},
         evs : SUBSET Events, fact : Facts \cup {NoFact}, from : Times,
         live : BOOLEAN]

\* pc, watermark, rows, sessions, what the generator has yet to yield, and of
\* the session at hand: framed documents to write, seq_base, superseded.
Idle == [pc |-> "idle", wm |-> 0, batch |-> {}, picked |-> {}, queue |-> {},
         sid |-> 0, frames |-> <<>>, base |-> 0, superseded |-> FALSE]

Runs == [pc : {"idle", "select", "next", "write", "invalidate"}, wm : Times,
         batch : SUBSET Events, picked : SUBSET Sessions,
         queue : SUBSET Sessions, sid : Sessions \cup {0},
         frames : Seq(SUBSET Events), base : Nat, superseded : BOOLEAN]

TypeOK ==
    /\ clock \in Times
    /\ staged \in [Events -> {"absent", "open", "committed"}]
    /\ stagedAt \in [Events -> Times]
    /\ consumed \in [Modes -> [Events -> Times]]
    /\ memory \subseteq Rows
    /\ cell \in [Modes -> Runs]
    /\ faults \in 0 .. MaxFaults

Init ==
    /\ clock = 1
    /\ staged = [e \in Events |-> "absent"]
    /\ stagedAt = [e \in Events |-> 0]
    /\ consumed = [m \in Modes |-> [e \in Events |-> 0]]
    /\ memory = {}
    /\ cell = [m \in Modes |-> Idle]
    /\ faults = 0

Tick ==
    /\ clock < MaxTime
    /\ clock' = clock + 1
    /\ UNCHANGED <<staged, stagedAt, consumed, memory, cell, faults>>

-----------------------------------------------------------------------------
(* The staging table: memory/staging.py.                                   *)

Committed == {e \in Events : staged[e] = "committed"}
RowsOf(s) == {e \in Committed : SessionOf[e] = s}

\* coalesce(event_ts, staged_at): when e happened, for all the code knows.
EventTime(e) == IF EventTs[e] # 0 THEN EventTs[e] ELSE stagedAt[e]

\* stage_event opens its transaction; time is left for e to become quiet.
BeginStage(e) ==
    /\ staged[e] = "absent"
    /\ clock + 1 + MinAge < MaxTime
    /\ EventTs[e] + MinAge < MaxTime
    /\ clock' = clock + 1
    /\ staged' = [staged EXCEPT ![e] = IF Straddle THEN "open" ELSE "committed"]
    /\ stagedAt' = [stagedAt EXCEPT ![e] = clock + 1]
    /\ Monotone => \A f \in Events :
          SessionOf[f] = SessionOf[e] /\ stagedAt[f] # 0
              => f <= e /\ EventTime(f) <= EventTime(e)'
    /\ consumed' = [m \in Modes |-> [consumed[m] EXCEPT ![e] = 0]]
    /\ UNCHANGED <<memory, cell, faults>>

CommitStage(e) ==
    /\ staged[e] = "open"
    /\ staged' = [staged EXCEPT ![e] = "committed"]
    /\ UNCHANGED <<clock, stagedAt, consumed, memory, cell, faults>>

\* prune_staging(older_than=t, only_consolidated=True).
Prune(t) ==
    /\ Prunes
    /\ LET old == {e \in Committed : /\ stagedAt[e] < t
                                     /\ consumed["consolidate"][e] # 0}
       IN /\ old # {}
          /\ staged' = [e \in Events |-> IF e \in old THEN "absent" ELSE staged[e]]
    /\ UNCHANGED <<clock, stagedAt, consumed, memory, cell, faults>>

-----------------------------------------------------------------------------
(* The source: sources/session_staging.py.                                 *)

\* max(coalesce(event_ts, staged_at)) < now() - min_age_seconds.
Quiet(s, now) == \A e \in RowsOf(s) : EventTime(e) + MinAge < now

\* Some row was never consolidated, or the newest row is newer than the
\* oldest watermark of the session.
HasNews(s) ==
    \/ \E e \in RowsOf(s) : consumed["consolidate"][e] = 0
    \/ \E e, f \in RowsOf(s) : stagedAt[e] > consumed["consolidate"][f]

\* Faulty variant of Selected: the consolidate cell selects rows, not sessions.
SelectedByRow(m, now) ==
    IF m = "realtime"
    THEN {e \in Committed : consumed[m][e] = 0 \/ stagedAt[e] > consumed[m][e]}
    ELSE {e \in Committed : /\ Quiet(SessionOf[e], now)
                            /\ consumed[m][e] = 0 \/ stagedAt[e] > consumed[m][e]}

\* The WHERE clauses: rows in realtime mode, whole sessions in the other.
Selected(m, now) ==
    IF m = "realtime"
    THEN {e \in Committed : consumed[m][e] = 0 \/ stagedAt[e] > consumed[m][e]}
    ELSE {e \in Committed : Quiet(SessionOf[e], now) /\ HasNews(SessionOf[e])}

\* items[: max_sessions], in the order of session_id.
Capped(S) ==
    {s \in S : MaxSessions = NoCap \/ Cardinality({t \in S : t < s}) < MaxSessions}

\* Faulty variant of Open: the watermark is rounded up.
OpenAhead(m) ==
    /\ m \in Cells
    /\ cell[m].pc = "idle"
    /\ cell' = [cell EXCEPT ![m].pc = "select", ![m].wm = clock + 1]
    /\ UNCHANGED <<clock, staged, stagedAt, consumed, memory, faults>>

\* SELECT now(): the transaction of the source begins, and stays open.
Open(m) ==
    /\ m \in Cells
    /\ cell[m].pc = "idle"
    /\ cell' = [cell EXCEPT ![m].pc = "select", ![m].wm = clock]
    /\ UNCHANGED <<clock, staged, stagedAt, consumed, memory, faults>>

Select(m) ==
    /\ cell[m].pc = "select"
    /\ LET batch == Selected(m, cell[m].wm)
           picked == {SessionOf[e] : e \in batch}
       IN cell' = [cell EXCEPT ![m].pc = "next", ![m].batch = batch,
                               ![m].picked = picked,
                               ![m].queue = Capped(picked)]
    /\ UNCHANGED <<clock, staged, stagedAt, consumed, memory, faults>>

First(S) == CHOOSE s \in S : \A t \in S : s <= t

LimitReached(m) ==
    /\ DocLimit # NoCap
    /\ Cardinality(Capped(cell[m].picked) \ cell[m].queue) >= DocLimit

\* Framing of a session's events: episodes, or the whole under IdentityFramer.
Framed(m, evs) == IF m = "consolidate" THEN Episodes[evs] ELSE <<evs>>

\* The generator yields the next session; run_cell leaves the loop, and the
\* generator never reaches its UPDATE, when doc_limit has been reached.
Take(m) ==
    /\ cell[m].pc = "next"
    /\ cell[m].queue # {}
    /\ LET s == First(cell[m].queue)
           evs == {e \in cell[m].batch : SessionOf[e] = s}
       IN cell' = IF LimitReached(m)
                  THEN [cell EXCEPT ![m] = Idle]
                  ELSE [cell EXCEPT ![m].pc = "write", ![m].sid = s,
                                    ![m].queue = @ \ {s},
                                    ![m].frames = Framed(m, evs),
                                    ![m].base = 0, ![m].superseded = FALSE]
    /\ UNCHANGED <<clock, staged, stagedAt, consumed, memory, faults>>

\* Faulty variant of Mark: the watermark is the time of the UPDATE.
MarkNow(m) ==
    /\ cell[m].pc = "next"
    /\ cell[m].queue = {}
    /\ consumed' = [consumed EXCEPT ![m] = [e \in Events |->
           IF e \in Committed /\ SessionOf[e] \in cell[m].picked
           THEN clock ELSE @[e]]]
    /\ cell' = [cell EXCEPT ![m] = Idle]
    /\ UNCHANGED <<clock, staged, stagedAt, memory, faults>>

\* The generator is exhausted: every row the sessions have by now is stamped
\* with the watermark taken before the SELECT.
Mark(m) ==
    /\ cell[m].pc = "next"
    /\ cell[m].queue = {}
    /\ consumed' = [consumed EXCEPT ![m] = [e \in Events |->
           IF e \in Committed /\ SessionOf[e] \in cell[m].picked
           THEN cell[m].wm ELSE @[e]]]
    /\ cell' = [cell EXCEPT ![m] = Idle]
    /\ UNCHANGED <<clock, staged, stagedAt, memory, faults>>

-----------------------------------------------------------------------------
(* The sink: sinks/memory_pg.py over sinks/pg.py.                          *)

\* Faulty variant of Advance: the sink forgets that it superseded the session.
AdvanceForgets(run) ==
    [run EXCEPT !.frames = Tail(@), !.superseded = FALSE,
                !.pc = IF Len(run.frames) > 1 THEN "write" ELSE "next"]

\* After a framed document: on to the next one, or to the next session.
Advance(run) ==
    [run EXCEPT !.frames = Tail(@),
                !.pc = IF Len(run.frames) > 1 THEN "write" ELSE "next"]

\* tier consolidated, supersede: true, first document of the session.
MustSupersede(m) == m = "consolidate" /\ ~cell[m].superseded

\* DELETE ... WHERE doc_id = ? AND source = ?, a transaction of its own.
Supersede(m) ==
    /\ cell[m].pc = "write"
    /\ MustSupersede(m)
    /\ memory' = {r \in memory : r.sid # cell[m].sid}
    /\ cell' = [cell EXCEPT ![m].superseded = TRUE]
    /\ UNCHANGED <<clock, staged, stagedAt, consumed, faults>>

\* Sorted by seq.
InOrder(S) ==
    [i \in 1 .. Cardinality(S) |->
        CHOOSE e \in S : Cardinality({x \in S : x < e}) = i - 1]

\* episode_end_ts: the time of the episode's last event.
EpisodeEnd(evs) ==
    IF evs = {} THEN 0 ELSE EventTime(CHOOSE e \in evs : \A x \in evs : x <= e)

Stating(evs) == {e \in evs : FactOf[e] # NoFact}

\* The consolidation chunker: the episode, then a chunk per fact the
\* consolidator found, none when it failed (rule O4).  Columns of a chunk.
ConsolidatedChunks(evs, found) ==
    LET c(S, f) == [tier |-> "consolidated", evs |-> S, fact |-> f,
                    from |-> EpisodeEnd(evs), live |-> TRUE]
        fs == InOrder(found)
    IN <<c(evs, NoFact)>> \o [i \in DOMAIN fs |-> c({}, FactOf[fs[i]])]

\* The realtime preset promotes no fact columns: an upsert leaves them alone.
ProvisionalRow(s, q, evs) ==
    LET old == {r \in memory : r.sid = s /\ r.seq = q}
        fresh == [sid |-> s, seq |-> q, tier |-> "provisional", evs |-> evs,
                  fact |-> NoFact, from |-> 0, live |-> TRUE]
    IN IF old = {} THEN fresh
       ELSE [(CHOOSE r \in old : TRUE) EXCEPT !.tier = "provisional", !.evs = evs]

\* Faulty variant of NewRows: seq_num counted from one.
NewRowsFromOne(m, s, base, chunks) ==
    {IF m = "realtime" THEN ProvisionalRow(s, base + i, chunks[i])
     ELSE [sid |-> s, seq |-> base + i, tier |-> "consolidated",
           evs |-> chunks[i].evs, fact |-> chunks[i].fact,
           from |-> chunks[i].from, live |-> TRUE] : i \in DOMAIN chunks}

\* Rows write_document upserts, seq_num counted from seq_base.
NewRows(m, s, base, chunks) ==
    {IF m = "realtime" THEN ProvisionalRow(s, base + i - 1, chunks[i])
     ELSE [sid |-> s, seq |-> base + i - 1, tier |-> "consolidated",
           evs |-> chunks[i].evs, fact |-> chunks[i].fact,
           from |-> chunks[i].from, live |-> TRUE] : i \in DOMAIN chunks}

\* Upsert by id, then DELETE ... seq_num >= len(chunks) under delete_orphans.
Upserted(new, s, n) ==
    LET kept == {r \in memory : ~ \E x \in new : x.sid = r.sid /\ x.seq = r.seq}
    IN {r \in kept \cup new : ~ (DeleteOrphans /\ r.sid = s /\ r.seq >= n)}

\* PgSink.write_document of one framed document, one transaction.
Insert(m) ==
    /\ cell[m].pc = "write"
    /\ ~MustSupersede(m)
    /\ LET s == cell[m].sid
           evs == Head(cell[m].frames)
       IN \E found \in {Stating(evs), {}} :
            LET chunks == IF m = "realtime" THEN Windows[evs]
                          ELSE ConsolidatedChunks(evs, found)
            IN /\ memory' = Upserted(NewRows(m, s, cell[m].base, chunks), s,
                                     Len(chunks))
               /\ LET next == [cell[m] EXCEPT !.base = @ + Len(chunks)]
                  IN cell' = [cell EXCEPT ![m] =
                        IF m = "realtime" \/ found = {} THEN Advance(next)
                        ELSE [next EXCEPT !.pc = "invalidate"]]
    /\ UNCHANGED <<clock, staged, stagedAt, consumed, faults>>

\* Faulty variant of Contradicted: effective_from is compared the wrong way.
ContradictedByOlder(r, evs) ==
    /\ \E e \in Stating(evs) : r.fact = FactOf[e]
    /\ r.from > EpisodeEnd(evs)

\* r says something about a pair the episode says something newer about.
Contradicted(r, evs) ==
    /\ \E e \in Stating(evs) : r.fact = FactOf[e]
    /\ r.from < EpisodeEnd(evs)

\* _invalidate, the third transaction.
Invalidate(m) ==
    /\ cell[m].pc = "invalidate"
    /\ LET evs == Head(cell[m].frames)
       IN memory' = {[r EXCEPT !.live = @ /\ ~Contradicted(r, evs)] : r \in memory}
    /\ cell' = [cell EXCEPT ![m] = Advance(cell[m])]
    /\ UNCHANGED <<clock, staged, stagedAt, consumed, faults>>

\* The run ends in an exception or with its process; what is open rolls back.
Fail(m) ==
    /\ cell[m].pc # "idle"
    /\ faults < MaxFaults
    /\ faults' = faults + 1
    /\ cell' = [cell EXCEPT ![m] = Idle]
    /\ UNCHANGED <<clock, staged, stagedAt, consumed, memory>>

-----------------------------------------------------------------------------

RunStep(m) ==
    \/ Open(m) \/ Select(m) \/ Take(m) \/ Supersede(m) \/ Insert(m)
    \/ Invalidate(m) \/ Mark(m)

Next ==
    \/ Tick
    \/ \E e \in Events : BeginStage(e) \/ CommitStage(e)
    \/ \E t \in 1 .. clock : Prune(t)
    \/ \E m \in Cells : RunStep(m) \/ Fail(m)

Spec == Init /\ [][Next]_vars

\* Cron starts each cell again and again, a started run takes its next step,
\* a staging transaction commits, and time passes.
FairSpec ==
    /\ Spec
    /\ WF_vars(Tick)
    /\ \A e \in Events : WF_vars(CommitStage(e))
    /\ \A m \in Cells : WF_vars(RunStep(m))

-----------------------------------------------------------------------------
(* Properties.                                                             *)

\* What a reader of the consolidated tier (memory/reader.py) finds of s.
Remembered(s) ==
    UNION {r.evs : r \in {x \in memory : x.sid = s /\ x.tier = "consolidated"}}

\* The consolidate cell has no reason left to look at session s.
Retired(s) == RowsOf(s) # {} /\ ~HasNews(s)

\* Whatever runs failed, and whenever events arrived, the consolidate cell is
\* done with a session only when a reader finds every staged event of it in
\* consolidated memory (memory-sink.md, O1 and O3; the docstring of
\* SessionStagingSource calls it the guaranteed-delivery path).
RetiredIsRemembered ==
    \A s \in Sessions : Retired(s) => RowsOf(s) \subseteq Remembered(s)

\* Once a reader finds an event in consolidated memory it never ceases to
\* (memory-sink.md, O3: "in-flight session atomic-or-not-committed").
MemoryIsNeverLost ==
    [][\A s \in Sessions :
          Remembered(s) \cap RowsOf(s) \subseteq Remembered(s)']_vars

\* Facts of one retired session about the same pair: only the newest ones
\* are live, although each session may be consolidated many times over
\* (memory_pg.py:75-93).
FactsOfSessionSettled ==
    \A s \in Sessions : Retired(s) =>
        \A r1, r2 \in {x \in memory : /\ x.sid = s /\ x.tier = "consolidated"
                                      /\ x.fact # NoFact} :
            r1.fact = r2.fact /\ r1.from < r2.from => ~r1.live

\* The same over all sessions (memory-sink.md, `retracted`: "true if a newer
\* contradicting fact retracted this one").
NewestFactWins ==
    (\A s \in Sessions : RowsOf(s) # {} => Retired(s)) =>
        \A r1, r2 \in {x \in memory : x.tier = "consolidated" /\ x.fact # NoFact} :
            r1.fact = r2.fact /\ r1.from < r2.from => ~r1.live

\* The rows of a session are numbered 0, 1, 2, ... without a gap, whatever
\* the two cells do at the same time: seq_base and the supersede DELETE never
\* leave part of an older numbering behind.
RowsContiguous ==
    \A r \in memory : r.seq # 0 =>
        \E q \in memory : q.sid = r.sid /\ q.seq = r.seq - 1

\* prune_staging with only_consolidated drops only events that a reader finds
\* in consolidated memory.
PrunedIsRemembered ==
    [][\A e \in Committed : staged'[e] = "absent" => e \in Remembered(SessionOf[e])]_vars

\* An event the realtime cell is done with is in the memory table, in either
\* tier, while that cell is not at work (memory-sink.md: "so a fresh agent
\* reply has memory to read").
ConsumedIsReadable ==
    cell["realtime"].pc = "idle" =>
        \A e \in Committed :
            consumed["realtime"][e] >= stagedAt[e] => \E r \in memory : e \in r.evs

\* Every staged event ends up, and stays, in consolidated memory.
EventuallyRemembered ==
    \A e \in Events : staged[e] = "committed" ~> [](e \in Remembered(SessionOf[e]))
=============================================================================
