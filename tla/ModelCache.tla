----------------------------- MODULE ModelCache -----------------------------
(***************************************************************************)
(* The model cache that every process of a machine shares                  *)
(* (embedders/fastembed_provider.py, _registry.py).  It holds a directory  *)
(* per repository; a download that is interrupted leaves an "*.incomplete" *)
(* blob there, and then fastembed (which is external) takes the directory  *)
(* for the model and fails.  The provider deletes such directories and     *)
(* tries once more.  A download of a built-in model is one blob here.      *)
(***************************************************************************)
EXTENDS Integers, Sequences, FiniteSets

CONSTANTS
    Loaders,        \* positive numbers: processes, each of which loads one model, maybe again
    Model(_),       \* Model(p) = [repo, file, byo]: the embedder of the cell p runs
    MaxKills,       \* bound: interrupted downloads
    MaxLoads        \* bound: loads begun by one loader

Repos == {Model(p).repo : p \in Loaders}

VARIABLES
    cache,      \* cache[repo] = [there, files, blob]; blob: NoBlob, or whose *.incomplete it is
    loading,    \* loading[p]: "idle", "prefetch", "construct", "fetch", "loaded", "failed"
    attempt,    \* attempt[p]: 1 or 2, the construction of TextEmbedding
    registered, \* the loaders whose process knows its own (BYO) model
    loads,      \* loads begun
    kills,      \* downloads interrupted
    alone       \* history: no other loader was active since p began

cacheVars == <<cache, loading, attempt, registered, loads, kills, alone>>

NoBlob == -1
Nobody == 0         \* the owner of the blob is dead
NoDirectory == [there |-> FALSE, files |-> {}, blob |-> NoBlob]
Active(p) == loading[p] \in {"prefetch", "construct", "fetch"}

CacheInit ==
    /\ cache = [r \in Repos |-> NoDirectory]
    /\ loading = [p \in Loaders |-> "idle"]
    /\ attempt = [p \in Loaders |-> 1]
    /\ registered = {}
    /\ loads = [p \in Loaders |-> 0]
    /\ kills = 0
    /\ alone = [p \in Loaders |-> FALSE]

\* Faulty variant of Purged: only the blob is deleted, not the directory it lies in.
PurgedBlobs(dirs) == [r \in Repos |-> [dirs[r] EXCEPT !.blob = NoBlob]]

\* _purge_incomplete_model_cache: whatever has an incomplete blob goes, whoever is writing it.
Purged(dirs) == [r \in Repos |-> IF dirs[r].blob # NoBlob THEN NoDirectory ELSE dirs[r]]

\* load_embedder; a model of one's own is registered, and its file fetched, once per process.
Begin(p) ==
    /\ ~Active(p) /\ loads[p] < MaxLoads
    /\ loads' = [loads EXCEPT ![p] = @ + 1]
    /\ loading' = [loading EXCEPT ![p] =
           IF Model(p).byo /\ p \notin registered THEN "prefetch" ELSE "construct"]
    /\ attempt' = [attempt EXCEPT ![p] = 1]
    /\ alone' = [q \in Loaders |->
           IF q = p THEN \A o \in Loaders \ {p} : ~Active(o) ELSE alone[q] /\ ~Active(q)]
    /\ UNCHANGED <<cache, registered, kills>>

Fails(p) ==
    /\ loading' = [loading EXCEPT ![p] = "failed"]
    /\ UNCHANGED <<attempt, registered>>

\* hf_hub_download: a file that is there is left alone, a blob of a dead process is resumed, and
\* one of a live process is waited for.
PrefetchPresent(p) ==
    /\ loading[p] = "prefetch"
    /\ Model(p).file \in cache[Model(p).repo].files
    /\ registered' = registered \union {p}
    /\ loading' = [loading EXCEPT ![p] = "construct"]
    /\ UNCHANGED <<cache, attempt, loads, kills, alone>>

PrefetchBegin(p) ==
    /\ loading[p] = "prefetch" /\ cache[Model(p).repo].blob \in {NoBlob, Nobody}
    /\ Model(p).file \notin cache[Model(p).repo].files
    /\ cache' = [cache EXCEPT ![Model(p).repo].there = TRUE, ![Model(p).repo].blob = p]
    /\ loading' = [loading EXCEPT ![p] = "fetch"]
    /\ UNCHANGED <<attempt, registered, loads, kills, alone>>

\* TextEmbedding(...): a directory that is there is not downloaded again.
Construct(p) ==
    LET dir == cache[Model(p).repo] IN
    /\ loading[p] = "construct"
    /\ \/ /\ ~dir.there
          /\ cache' = [cache EXCEPT ![Model(p).repo] = [there |-> TRUE, files |-> {}, blob |-> p]]
          /\ loading' = [loading EXCEPT ![p] = "fetch"]
          /\ UNCHANGED attempt
       \/ /\ dir.there /\ Model(p).file \in dir.files
          /\ loading' = [loading EXCEPT ![p] = "loaded"]
          /\ UNCHANGED <<cache, attempt>>
       \/ /\ dir.there /\ Model(p).file \notin dir.files /\ attempt[p] = 1
          /\ cache' = Purged(cache)
          /\ attempt' = [attempt EXCEPT ![p] = 2]
          /\ loading' = [loading EXCEPT ![p] =
                 IF \E r \in Repos : cache[r].blob # NoBlob THEN "construct" ELSE "failed"]
       \/ /\ dir.there /\ Model(p).file \notin dir.files /\ attempt[p] = 2
          /\ loading' = [loading EXCEPT ![p] = "failed"]
          /\ UNCHANGED <<cache, attempt>>
    /\ UNCHANGED <<registered, loads, kills, alone>>

\* The download ends: its blob becomes the file.
FetchEnds(p) ==
    /\ loading[p] = "fetch" /\ cache[Model(p).repo].blob = p
    /\ cache' = [cache EXCEPT ![Model(p).repo].files = @ \union {Model(p).file},
                              ![Model(p).repo].blob = NoBlob]
    /\ IF Model(p).byo /\ p \notin registered
         THEN /\ registered' = registered \union {p}
              /\ loading' = [loading EXCEPT ![p] = "construct"]
         ELSE /\ loading' = [loading EXCEPT ![p] = "loaded"]
              /\ UNCHANGED registered
    /\ UNCHANGED <<attempt, loads, kills, alone>>

\* The blob is gone when the download ends: another loader purged it.  register_byo_model raises;
\* a construction is caught, purges in its turn what is incomplete, and is tried once more.
FetchLost(p) ==
    /\ loading[p] = "fetch" /\ cache[Model(p).repo].blob # p
    /\ IF (Model(p).byo /\ p \notin registered) \/ attempt[p] = 2
         THEN Fails(p) /\ UNCHANGED cache
         ELSE /\ cache' = Purged(cache)
              /\ attempt' = [attempt EXCEPT ![p] = 2]
              /\ loading' = [loading EXCEPT ![p] =
                     IF \E r \in Repos : cache[r].blob # NoBlob THEN "construct" ELSE "failed"]
              /\ UNCHANGED registered
    /\ UNCHANGED <<loads, kills, alone>>

\* The process dies while it downloads, and may be started again.
Kill(p) ==
    /\ loading[p] = "fetch" /\ kills < MaxKills
    /\ kills' = kills + 1
    /\ cache' = [cache EXCEPT ![Model(p).repo].blob = IF @ = p THEN Nobody ELSE @]
    /\ loading' = [loading EXCEPT ![p] = "idle"]
    /\ registered' = registered \ {p}
    /\ UNCHANGED <<attempt, loads, alone>>

CacheNext == \E p \in Loaders :
    \/ Begin(p) \/ PrefetchPresent(p) \/ PrefetchBegin(p) \/ Construct(p)
    \/ FetchEnds(p) \/ FetchLost(p) \/ Kill(p)

-----------------------------------------------------------------------------

\* A load with no other loader active does not fail, however many downloads were interrupted
\* before it (CHANGELOG.md, "Interrupted first model download self-heals"), unless the model is a
\* built-in one whose repository a model of somebody's own has put another file into.
InterruptedLoadHeals == \A p \in Loaders :
    (alone[p] /\ loading[p] = "failed") =>
        /\ ~Model(p).byo
        /\ \E q \in Loaders : Model(q).byo /\ Model(q).repo = Model(p).repo /\ Model(q).file # Model(p).file

\* Only a poisoned directory is purged: the download of a live loader is not taken away.
LiveDownloadStays == \A p \in Loaders : loading[p] = "fetch" => cache[Model(p).repo].blob = p
=============================================================================
