----------------------------- MODULE SearchPool -----------------------------
(***************************************************************************)
(* The connections of the PostgreSQL read legs (search.py): threads of a   *)
(* process share its idle connections, a read that finds its reused        *)
(* connection dead tries once more on a new one, a forked child starts     *)
(* without its parent's, and hnsw.ef_search is set for one transaction.    *)
(***************************************************************************)
EXTENDS Integers, Sequences, FiniteSets, FiniteSetsExt, SequencesExt

CONSTANTS
    Readers,     \* threads
    Children,    \* those of them that run in the child once it is forked
    Wanted,      \* the ef_search of a reader's queries, 0 for the server's own
    MaxIdle,     \* _POOL_MAX_IDLE
    MaxOutages   \* how often the server goes down

PoolAssumption ==
    /\ Children \subseteq Readers
    /\ Wanted \in [Readers -> Nat]
    /\ MaxIdle \in Nat \ {0} /\ MaxOutages \in Nat

Conns == 1 .. 2 * Cardinality(Readers) + 2 * MaxIdle
Processes == {"parent", "child"}
ProcessOf(r) == IF r \in Children THEN "child" ELSE "parent"
NoConn == 0

VARIABLES
    pooled,      \* CHUNKSHOP_SEARCH_POOL
    idle,        \* _POOLS of each process, for the one DSN
    conn,        \* open; alive: the server still knows it; old: idle too long;
                 \* ef: hnsw.ef_search for the next statement, 0 for the server's own
    reader,      \* pc, conn, reused, whether the server failed it on a new
                 \* connection, and the ef_search its search ran with
    server, outages, forked

poolVars == <<pooled, idle, conn, reader, server, outages, forked>>

AtRest == [pc |-> "idle", conn |-> NoConn, reused |-> FALSE, failed |-> FALSE, ef |-> 0]
Closed == [open |-> FALSE, alive |-> FALSE, old |-> FALSE, ef |-> 0]

PoolInit ==
    /\ pooled \in BOOLEAN
    /\ idle = [p \in Processes |-> <<>>]
    /\ conn = [c \in Conns |-> Closed]
    /\ reader = [r \in Readers |-> AtRest]
    /\ server = "up" /\ outages = 0 /\ forked = FALSE

\* A socket no process knows of any more is closed by Python.
Known(c) == (\E r \in Readers : reader[r].conn = c) \/ (\E p \in Processes : c \in Range(idle[p]))
Unused == Min({c \in Conns : ~conn[c].open /\ ~Known(c)})

-----------------------------------------------------------------------------
(* One read.                                                               *)

Runs(r) == ProcessOf(r) = "child" => forked

\* _pool_acquire: the last one released; the old ones above it are closed.
Acquire(r) ==
    LET mine == idle[ProcessOf(r)]
        good == {i \in DOMAIN mine : conn[mine[i]].open /\ ~conn[mine[i]].old}
        top == IF good = {} THEN 0 ELSE Max(good)
        skipped == {mine[i] : i \in top + 1 .. Len(mine)}
    IN /\ Runs(r) /\ pooled /\ reader[r].pc = "idle"
       /\ idle' = [idle EXCEPT ![ProcessOf(r)] = SubSeq(@, 1, top - 1)]
       /\ conn' = [c \in Conns |-> IF c \in skipped THEN Closed ELSE conn[c]]
       /\ reader' = [reader EXCEPT ![r] =
             IF top = 0 THEN [AtRest EXCEPT !.pc = "open"]
             ELSE [AtRest EXCEPT !.pc = "set", !.conn = mine[top], !.reused = TRUE]]
       /\ UNCHANGED <<pooled, server, outages, forked>>

\* Without a pool every read connects.
Connect(r) ==
    /\ Runs(r) /\ ~pooled /\ reader[r].pc = "idle"
    /\ reader' = [reader EXCEPT ![r] = [AtRest EXCEPT !.pc = "open"]]
    /\ UNCHANGED <<pooled, idle, conn, server, outages, forked>>

\* _open_read_conn, also for the second try.
Open(r) ==
    /\ reader[r].pc = "open"
    /\ IF server = "up"
       THEN /\ conn' = [conn EXCEPT ![Unused] = [Closed EXCEPT !.open = TRUE, !.alive = TRUE]]
            /\ reader' = [reader EXCEPT ![r].pc = "set", ![r].conn = Unused, ![r].reused = FALSE]
       ELSE /\ reader' = [reader EXCEPT ![r].pc = "raise", ![r].failed = TRUE]
            /\ UNCHANGED conn
    /\ UNCHANGED <<pooled, idle, server, outages, forked>>

\* Faulty variant of SecondTry: the second try takes what the pool has.
SecondTryPooled(r) ==
    LET mine == idle[ProcessOf(r)]
    IN /\ reader' = [reader EXCEPT ![r] =
             IF mine = <<>> THEN [AtRest EXCEPT !.pc = "open"]
             ELSE [AtRest EXCEPT !.pc = "set", !.conn = Last(mine)]]
       /\ idle' = [idle EXCEPT ![ProcessOf(r)] = IF @ = <<>> THEN @ ELSE Front(@)]

SecondTry(r) ==
    reader' = [reader EXCEPT ![r] = [AtRest EXCEPT !.pc = "open"]] /\ UNCHANGED idle

\* A statement on a dead connection: it is closed, and a reused one replaced.
Broken(r) ==
    LET c == reader[r].conn
    IN /\ reader[r].pc \in {"set", "query"} /\ ~conn[c].alive
       /\ conn' = [conn EXCEPT ![c] = Closed]
       /\ IF reader[r].reused THEN SecondTry(r)
          ELSE /\ reader' = [reader EXCEPT ![r] = [AtRest EXCEPT !.pc = "raise", !.failed = @ \/ reader[r].failed]]
               /\ UNCHANGED idle
       /\ UNCHANGED <<pooled, server, outages, forked>>

\* Faulty variant of SetConfig: the setting is the session's.
SetConfigSession(r) == Wanted[r]

\* What set_config(..., is_local) leaves for the next statement: the pool's
\* connections are autocommit, so that it ends with its own statement.
SetConfig(r) == IF pooled THEN 0 ELSE Wanted[r]

SetEfSearch(r) ==
    LET c == reader[r].conn
    IN /\ reader[r].pc = "set" /\ conn[c].alive
       /\ conn' = [conn EXCEPT ![c].ef = IF Wanted[r] = 0 THEN @ ELSE SetConfig(r)]
       /\ reader' = [reader EXCEPT ![r].pc = "query"]
       /\ UNCHANGED <<pooled, idle, server, outages, forked>>

\* The search; the server may find fault with it (then the connection is dropped).
Search(r) ==
    LET c == reader[r].conn
    IN /\ reader[r].pc = "query" /\ conn[c].alive
       /\ \E outcome \in {"release", "reject"} :
            /\ reader' = [reader EXCEPT ![r].pc = outcome, ![r].ef = conn[c].ef,
                                        ![r].conn = IF outcome = "reject" THEN NoConn ELSE c]
            /\ conn' = IF outcome = "reject" THEN [conn EXCEPT ![c] = Closed] ELSE conn
       /\ UNCHANGED <<pooled, idle, server, outages, forked>>

\* _pool_release, or the end of the with statement.
Release(r) ==
    LET c == reader[r].conn
        keeps == pooled /\ Len(idle[ProcessOf(r)]) < MaxIdle
    IN /\ reader[r].pc = "release"
       /\ idle' = [idle EXCEPT ![ProcessOf(r)] = IF keeps THEN Append(@, c) ELSE @]
       /\ conn' = IF keeps THEN conn ELSE [conn EXCEPT ![c] = Closed]
       /\ reader' = [reader EXCEPT ![r] = [AtRest EXCEPT !.pc = "done", !.ef = reader[r].ef]]
       /\ UNCHANGED <<pooled, server, outages, forked>>

Return(r) ==
    /\ reader[r].pc \in {"done", "raise", "reject"}
    /\ reader' = [reader EXCEPT ![r] = AtRest]
    /\ UNCHANGED <<pooled, idle, conn, server, outages, forked>>

-----------------------------------------------------------------------------
(* Around the reads.                                                       *)

\* _POOL_MAX_AGE_S passes for the one that was released first.
GrowOld(p) ==
    LET young == {i \in DOMAIN idle[p] : ~conn[idle[p][i]].old}
    IN /\ young # {}
       /\ conn' = [conn EXCEPT ![idle[p][Min(young)]].old = TRUE]
       /\ UNCHANGED <<pooled, idle, reader, server, outages, forked>>

\* close_search_pool.
CloseAll(p) ==
    /\ idle[p] # <<>>
    /\ idle' = [idle EXCEPT ![p] = <<>>]
    /\ conn' = [c \in Conns |-> IF c \in Range(idle[p]) THEN Closed ELSE conn[c]]
    /\ UNCHANGED <<pooled, reader, server, outages, forked>>

\* Faulty variant of AfterFork: the child goes on with its copies.
AfterForkAsIs(pools) == [pools EXCEPT !["child"] = pools["parent"]]

\* _reset_pooled_connections_after_fork.
AfterFork(pools) == [pools EXCEPT !["child"] = <<>>]

Fork ==
    /\ ~forked /\ forked' = TRUE
    /\ idle' = AfterFork(idle)
    /\ UNCHANGED <<pooled, conn, reader, server, outages>>

\* No connection outlives an outage; who opens or uses a new one is told.
GoDown ==
    /\ server = "up" /\ outages < MaxOutages
    /\ server' = "down" /\ outages' = outages + 1
    /\ conn' = [c \in Conns |-> [conn[c] EXCEPT !.alive = FALSE]]
    /\ reader' = [r \in Readers |->
          IF reader[r].pc \in {"set", "query"} /\ ~reader[r].reused
          THEN [reader[r] EXCEPT !.failed = TRUE] ELSE reader[r]]
    /\ UNCHANGED <<pooled, idle, forked>>

ComeUp ==
    /\ server = "down" /\ server' = "up"
    /\ UNCHANGED <<pooled, idle, conn, reader, outages, forked>>

Read(r) ==
    \/ Acquire(r) \/ Connect(r) \/ Open(r) \/ Broken(r) \/ SetEfSearch(r)
    \/ Search(r) \/ Release(r) \/ Return(r)

PoolNext ==
    \/ \E r \in Readers : Read(r)
    \/ \E p \in Processes : GrowOld(p) \/ CloseAll(p)
    \/ Fork \/ GoDown \/ ComeUp

PoolSpec == PoolInit /\ [][PoolNext]_poolVars

-----------------------------------------------------------------------------
\* A read fails only of an outage met on a connection opened for it, or while
\* opening one: what happened to the server before leaves idle connections behind
\* that a read survives, as many as there are.
ReadsSelfHeal == \A r \in Readers : reader[r].pc = "raise" => reader[r].failed

\* A connection has one owner, a reader or a pool of one process, and a search
\* never runs with the ef_search of another one.
ConnectionsAreOwned ==
    /\ \A c \in Conns :
         Cardinality({r \in Readers : reader[r].conn = c})
           + Cardinality({<<p, i>> \in Processes \X (1 .. MaxIdle) :
                            i <= Len(idle[p]) /\ idle[p][i] = c}) <= 1
    /\ \A r \in Readers : reader[r].pc = "done" => reader[r].ef \in {0, Wanted[r]}

\* search(ef_search=n) searches with n.
EfSearchIsUsed ==
    \A r \in Readers : reader[r].pc = "done" => reader[r].ef = Wanted[r]
=============================================================================
