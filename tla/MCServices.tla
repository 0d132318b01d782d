----------------------------- MODULE MCServices -----------------------------
(***************************************************************************)
(* What surrounds a pipeline, in one run: each behaviour is that of         *)
(* one service, chosen at the start, while the others stay as they began.  *)
(* The limiter and the token storage of RequestPermits share the clock     *)
(* only, and take their turns as two subjects.                             *)
(***************************************************************************)
EXTENDS WebCrawl, ConnectorRun, RequestPermits, JobPool, RemoteSources

VARIABLE subject

MCPageOf == [u \in Urls |-> IF u = "news/" THEN "news" ELSE u]
MCHostOf == [p \in Pages |-> IF p = "far" THEN "b" ELSE "a"]
MCLinksOf == [p \in Pages |->
    CASE p = "home" -> <<"news", "far", "pic", "priv">>
      [] p = "news" -> <<"home", "deep">>
      [] p = "far" -> <<"deep">>
      [] p = "priv" -> <<"deep">>
      [] p = "deep" -> <<"deeper">>
      [] OTHER -> <<>>]
\* The two contents of every page came up in one second.
MCSecondOf == [p \in Pages |-> [v \in 1 .. MaxVersion |-> 1]]
MCCfgUrls == <<"home", "home">>
MCSitemap == <<"news/">>
MCOutput == [c \in Cells |-> IF c = "a" THEN 2 ELSE 1]

serviceVars == <<subject, webVars, connVars, permitVars, jobVars, vars>>

\* Who is not the subject begins in one state only.
ServicesInit ==
    /\ subject \in {"crawl", "connector", "limiter", "oauth", "jobs", "sync"}
    /\ CrawlInit
    /\ ConnInit /\ (subject # "connector" => ~keeps)
    /\ PermitsInit /\ (subject # "oauth" => ~rotates)
    /\ JobInit /\ (subject # "jobs" => pending = SetToSeq(Cells))
    /\ Init /\ (subject # "sync" => kind = "rss")

ServicesNext ==
    /\ UNCHANGED subject
    /\ \/ subject = "crawl" /\ CrawlNext /\ UNCHANGED <<connVars, permitVars, jobVars, vars>>
       \/ subject = "connector" /\ ConnNext /\ UNCHANGED <<webVars, permitVars, jobVars, vars>>
       \/ subject = "limiter" /\ LimiterNext /\ UNCHANGED <<webVars, connVars, jobVars, vars>>
       \/ subject = "oauth" /\ OAuthNext /\ UNCHANGED <<webVars, connVars, jobVars, vars>>
       \/ subject = "jobs" /\ JobNext /\ UNCHANGED <<webVars, connVars, permitVars, vars>>
       \/ subject = "sync" /\ Next /\ UNCHANGED <<webVars, connVars, permitVars, jobVars>>

\* The orchestrator's loop and the clock go on; the consumer of a source keeps
\* calling, and a transaction ends some day.
ServicesSpec ==
    /\ ServicesInit /\ [][ServicesNext]_serviceVars
    /\ WF_serviceVars(subject = "jobs" /\ Orchestrator
                         /\ UNCHANGED <<subject, webVars, connVars, permitVars, vars>>)
    /\ WF_serviceVars(subject = "jobs" /\ Elapse
                         /\ UNCHANGED <<subject, webVars, connVars, permitVars, vars>>)
    /\ WF_serviceVars(subject = "sync" /\ SyncStep
                         /\ UNCHANGED <<subject, webVars, connVars, permitVars, jobVars>>)
    /\ WF_serviceVars(subject = "sync" /\ (\E p \in open : Commit(p))
                         /\ UNCHANGED <<subject, webVars, connVars, permitVars, jobVars>>)

\* orchestrate comes back (Returns of JobPool), under the fairness of its own
\* loop and of the clock: no child has to end for it.
OrchestrateReturns == subject = "jobs" ~> phase = "returned"
=============================================================================
