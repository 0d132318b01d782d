--------------------------- MODULE RemoteEmbedder ---------------------------
(***************************************************************************)
(* One call of OpenAIEmbeddingProvider.embed (embedders/openai_provider.py)*)
(* The endpoint is external: it answers a batch with one item per input,   *)
(* in any order when it numbers them, or with an error.  A vector is the   *)
(* number of the text it belongs to.                                       *)
(***************************************************************************)
EXTENDS Integers, Sequences, FiniteSets, SequencesExt

CONSTANTS
    Texts,          \* texts to embed
    BatchSize, MaxRetries,
    Short           \* whether the endpoint may leave items out, which none should

VARIABLES
    call,       \* "asking", "done", "failed"
    start,      \* texts embedded before the present batch
    retry,      \* attempts of the present batch that failed
    embedded    \* vectors

embedVars == <<call, start, retry, embedded>>

Smaller(a, b) == IF a < b THEN a ELSE b
Batch == {i \in 1..Texts : start < i /\ i <= Smaller(start + BatchSize, Texts)}

EmbedInit == call = "asking" /\ start = 0 /\ retry = 0 /\ embedded = <<>>

\* Items [index, vector] for the texts asked for, as they may come.
Answers ==
    LET kept == IF Short THEN SUBSET Batch \ {{}} ELSE {Batch}
    IN UNION {{[k \in DOMAIN order |-> [index |-> order[k] - start - 1, vector |-> order[k]]] :
                  order \in SetToSeqs(asked)} \union
              \* An endpoint that numbers nothing keeps the order.
              {[k \in DOMAIN order |-> [index |-> 0, vector |-> order[k]]] :
                  order \in {SetToSortSeq(asked, <)}} : asked \in kept}

\* Faulty variant of Ordered: the items are taken as they come.
OrderedAsSent(items) == [k \in DOMAIN items |-> items[k].vector]

\* sorted(data, key=index), which is stable.
Ordered(items) ==
    LET before(j, k) == \/ items[j].index < items[k].index
                        \/ items[j].index = items[k].index /\ j < k
        place(k) == 1 + Cardinality({j \in DOMAIN items : before(j, k)})
    IN [n \in DOMAIN items |-> items[CHOOSE k \in DOMAIN items : place(k) = n].vector]

\* _embed_batch with the answer of _post_with_retry.
Answer ==
    /\ call = "asking"
    /\ \E items \in Answers : embedded' = embedded \o Ordered(items)
    /\ start' = start + BatchSize
    /\ retry' = 0
    /\ call' = IF start' >= Texts THEN "done" ELSE "asking"

\* 429, 5xx, or no connection: once more, while there are retries.
TransientError ==
    /\ call = "asking"
    /\ IF retry < MaxRetries
         THEN retry' = retry + 1 /\ UNCHANGED call
         ELSE call' = "failed" /\ UNCHANGED retry
    /\ UNCHANGED <<start, embedded>>

\* Any other status, no data, a time-out while the answer is read: the call raises.
FatalError ==
    /\ call = "asking"
    /\ call' = "failed"
    /\ UNCHANGED <<start, retry, embedded>>

EmbedNext == Answer \/ TransientError \/ FatalError

-----------------------------------------------------------------------------

\* A call that returns gives each text its own vector, whatever order the answers came in, across
\* batches and however many attempts were needed.
VectorsAreOfTexts == call = "done" => embedded = [i \in 1..Texts |-> i]
=============================================================================
