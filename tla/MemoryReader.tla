---------------------------- MODULE MemoryReader ----------------------------
(***************************************************************************)
(* read_pre_chunked (memory/reader.py): the rows of the memory table as    *)
(* one record per session for another program.  A table is a sequence of   *)
(* rows [namespace, doc, seq, kind, tier, retracted, subject, predicate,   *)
(* object], in the order the database stores them; doc and seq are         *)
(* numbers, "" is NULL.  A row stands for its text and embedding too.      *)
(***************************************************************************)
EXTENDS Integers, Sequences, FiniteSets, SequencesExt

None == ""

-----------------------------------------------------------------------------

\* call = [namespace, tier, include_retracted, session_ids]; session_ids is <<>> or <<set>>.
Wanted(row, call) ==
    /\ call.namespace # None => row.namespace = call.namespace
    /\ call.tier # None => row.tier = call.tier
    /\ ~call.include_retracted => ~row.retracted
    /\ call.session_ids # <<>> => row.doc \in call.session_ids[1]

\* Faulty variant of Before: the rows of a session come as they are stored.
BeforeByDocument(table, i, j) ==
    table[i].doc < table[j].doc \/ (table[i].doc = table[j].doc /\ i < j)

\* ORDER BY doc_id, seq_num; rows with both equal come in any order, here as they are stored.
Before(table, i, j) ==
    \/ table[i].doc < table[j].doc
    \/ table[i].doc = table[j].doc /\ table[i].seq < table[j].seq
    \/ table[i].doc = table[j].doc /\ table[i].seq = table[j].seq /\ i < j

Fetched(table, call) ==
    LET rows == {i \in DOMAIN table : Wanted(table[i], call)}
    IN [n \in 1..Cardinality(rows) |->
           table[CHOOSE i \in rows : Cardinality({j \in rows : Before(table, j, i)}) = n - 1]]

IsFact(row) == row.kind = "fact" /\ None \notin {row.subject, row.predicate, row.object}

\* _dedup_entities: the first of each name.
DedupEntities(names) ==
    FoldLeft(LAMBDA seen, name : IF \E i \in DOMAIN seen : seen[i] = name THEN seen
                                 ELSE Append(seen, name), <<>>, names)

\* The record of a session; its namespace is that of the session's first row.
Record(rows, doc) ==
    LET own == SelectSeq(rows, LAMBDA row : row.doc = doc)
        facts == SelectSeq(own, IsFact)
    IN [namespace |-> IF own[1].namespace = None THEN "default" ELSE own[1].namespace,
        session |-> doc,
        pre_chunked |-> SelectSeq(own, LAMBDA row : row.kind = "episode"),
        relationships |-> [i \in DOMAIN facts |->
            [src |-> facts[i].subject, rel_type |-> facts[i].predicate, dst |-> facts[i].object]],
        entities |-> DedupEntities([k \in 1..2 * Len(facts) |->
            IF k % 2 = 1 THEN facts[(k + 1) \div 2].subject ELSE facts[k \div 2].object])]

ReadPreChunked(table, call) ==
    LET rows == Fetched(table, call)
    IN {Record(rows, rows[i].doc) : i \in DOMAIN rows}

-----------------------------------------------------------------------------

\* Reading one tenant gives every session of it once, under its name: its live episodes in the order
\* they were spoken, its live facts as relationships between entities that are each known once, and
\* nothing that was retracted, that is provisional, or that another tenant owns.
MemoryIsHandedOn(table, namespace) ==
    LET call == [namespace |-> namespace, tier |-> "consolidated", include_retracted |-> FALSE,
                 session_ids |-> <<>>]
        live == {i \in DOMAIN table : /\ table[i].namespace = namespace
                                      /\ table[i].tier = "consolidated" /\ ~table[i].retracted}
        records == ReadPreChunked(table, call)
    IN /\ Cardinality({r.session : r \in records}) = Cardinality(records)
       /\ {r.session : r \in records} = {table[i].doc : i \in live}
       /\ \A r \in records :
             LET own == {i \in live : table[i].doc = r.session}
                 facts == {i \in own : IsFact(table[i])}
             IN /\ r.namespace = namespace
                /\ Range(r.pre_chunked) = {table[i] : i \in {j \in own : table[j].kind = "episode"}}
                /\ \A k \in 1..Len(r.pre_chunked) - 1 : r.pre_chunked[k].seq < r.pre_chunked[k + 1].seq
                /\ Len(r.relationships) = Cardinality(facts)
                /\ \A i \in facts : \E k \in DOMAIN r.relationships : r.relationships[k] =
                      [src |-> table[i].subject, rel_type |-> table[i].predicate, dst |-> table[i].object]
                /\ IsInjective(r.entities)
                /\ Range(r.entities) = UNION {{table[i].subject, table[i].object} : i \in facts}

\* Reading all tenants keeps their sessions apart.
TenantsStayApart(table, call) == \A r \in ReadPreChunked(table, call) :
    \A k \in DOMAIN r.pre_chunked : r.pre_chunked[k].namespace \in {r.namespace, None}
=============================================================================
