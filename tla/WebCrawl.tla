------------------------------ MODULE WebCrawl ------------------------------
(***************************************************************************)
(* The HTTP source (sources/http.py): a breadth-first crawl from seeds and *)
(* a sitemap, bounded in depth and pages, under robots.txt, repeated with  *)
(* a cursor that keeps, for each URL, the ETag or else the Last-Modified   *)
(* second that came with its body, and turns unchanged pages into 304s.    *)
(* Pages change between crawls and during them, requests fail.             *)
(***************************************************************************)
EXTENDS Integers, Sequences, FiniteSets, FiniteSetsExt, SequencesExt

CONSTANTS
    Urls,           \* URLs as written in links, several may name one page
    Pages,
    PageOf,         \* [Urls -> Pages]: what _normalize_url makes of a URL
    HostOf,         \* [Pages -> hosts]
    LinksOf,        \* [Pages -> Seq(Urls)]: <a href> in document order
    Html,           \* pages with links; the other texts have none
    Binary, Denied, \* binary pages, disallowed ones
    Untagged,       \* pages served without ETag
    Undated,        \* those of them without Last-Modified too
    SecondOf,       \* [Pages -> [contents -> seconds]]: when a content came up
    CfgUrls, Sitemap, \* Seq(Urls)
    CrawlDepth, MaxPages, AllowExternal,
    MaxVersion, MaxMishaps

ASSUME CrawlAssumption ==
    /\ IsFiniteSet(Urls) /\ PageOf \in [Urls -> Pages]
    /\ DOMAIN HostOf = Pages /\ LinksOf \in [Pages -> Seq(Urls)]
    /\ Html \subseteq Pages /\ Binary \subseteq Pages \ Html
    /\ Denied \subseteq Pages /\ Untagged \subseteq Pages /\ Undated \subseteq Untagged
    /\ CfgUrls \in Seq(Urls) /\ Sitemap \in Seq(Urls)
    /\ CrawlDepth \in Nat /\ MaxPages \in Nat \ {0} /\ AllowExternal \in BOOLEAN
    /\ MaxVersion \in Nat \ {0} /\ MaxMishaps \in Nat

\* A later content of a page came up in the same second or in a later one.
ASSUME SecondsAssumption ==
    /\ SecondOf \in [Pages -> [1 .. MaxVersion -> Nat \ {0}]]
    /\ \A p \in Pages : \A v, w \in 1 .. MaxVersion :
          v <= w => SecondOf[p][v] <= SecondOf[p][w]

VARIABLES
    version,    \* the content each page has now
    robots,     \* the cache of robots.txt, which outlives a crawl
    tags,       \* the cursor the consumer persisted: URL to validator, 0 if none
    crawl,      \* the crawl in progress
    pages,      \* the content the target has under each URL, 0 if none
    mishaps

webVars == <<version, robots, tags, crawl, pages, mishaps>>

Hosts == {HostOf[p] : p \in Pages}
NoTags == [u \in Urls |-> 0]
Resting == [pc |-> "rest", frontier |-> <<>>, visited |-> {}, got |-> {},
            hosts |-> {}, next |-> NoTags, clean |-> FALSE]

CrawlInit ==
    /\ version = [p \in Pages |-> 1]
    /\ robots = [h \in Hosts |-> "unknown"]
    /\ tags = NoTags /\ pages = NoTags
    /\ crawl = Resting /\ mishaps = 0

-----------------------------------------------------------------------------
\* The first URL of each page, in order.
FirstSpellings(urls) ==
    LET out[n \in 0 .. Len(urls)] ==
          IF n = 0 THEN <<>>
          ELSE IF \E v \in ToSet(out[n - 1]) : PageOf[v] = PageOf[urls[n]]
               THEN out[n - 1] ELSE Append(out[n - 1], urls[n])
    IN out[Len(urls)]

\* cfg.urls, then what the sitemap adds; without it when it cannot be fetched.
SeedUrls(mapped) == FirstSpellings(IF mapped THEN CfgUrls \o Sitemap ELSE CfgUrls)

\* seed_hosts are those of the seeds this crawl began with.
OnSeedHost(p) == AllowExternal \/ HostOf[p] \in crawl.hosts
Allowed(p) == robots[HostOf[p]] = "rules" => p \notin Denied

\* Those of the links that lead to the wanted pages, in order.
LinksTo(wanted, urls) ==
    LET kept[n \in 0 .. Len(urls)] ==
          IF n = 0 THEN <<>>
          ELSE IF PageOf[urls[n]] \in wanted THEN Append(kept[n - 1], urls[n]) ELSE kept[n - 1]
    IN kept[Len(urls)]

\* The links of page p worth a place in the frontier; those on p's own host
\* are let through here and dropped when it is their turn.
ExtractLinks(p, visited) ==
    LinksTo({q \in Pages \ visited : OnSeedHost(q) \/ HostOf[q] = HostOf[p]}, LinksOf[p])

\* Faulty variant of Expanded: a page's depth is spent on its own links.
ExpandedTooDeep(p, d, visited) ==
    [n \in 1 .. Len(ExtractLinks(p, visited)) |-> <<ExtractLinks(p, visited)[n], d>>]

\* What page p, fetched with d links to go, adds to the frontier.
Expanded(p, d, visited) ==
    IF d = 0 \/ p \notin Html THEN <<>>
    ELSE [n \in 1 .. Len(ExtractLinks(p, visited)) |->
            <<ExtractLinks(p, visited)[n], d - 1>>]

-----------------------------------------------------------------------------
Edit(p) ==
    /\ version[p] < MaxVersion
    /\ version' = [version EXCEPT ![p] = @ + 1]
    /\ UNCHANGED <<robots, tags, crawl, pages, mishaps>>

Mishap ==
    /\ mishaps < MaxMishaps
    /\ mishaps' = mishaps + 1

StartWith(mapped) ==
    /\ crawl.pc = "rest"
    /\ crawl' = [Resting EXCEPT
          !.pc = "crawl",
          !.hosts = {HostOf[PageOf[u]] : u \in ToSet(SeedUrls(mapped))},
          !.next = tags, !.clean = mapped /\ tags = NoTags,
          !.frontier = [n \in 1 .. Len(SeedUrls(mapped)) |->
                           <<SeedUrls(mapped)[n], CrawlDepth>>]]
    /\ UNCHANGED <<version, robots, tags, pages>>

StartCrawl == StartWith(TRUE) /\ UNCHANGED mishaps
SitemapFails == Sitemap # <<>> /\ Mishap /\ StartWith(FALSE)

Crawling == crawl.pc = "crawl" /\ crawl.frontier # <<>>
            /\ Cardinality(crawl.got) < MaxPages
HeadUrl == crawl.frontier[1][1]
HeadPage == PageOf[HeadUrl]
HeadDepth == crawl.frontier[1][2]
Candidate == HeadPage \notin crawl.visited /\ OnSeedHost(HeadPage)

\* The frontier after the head has been dealt with.
Popped == [crawl EXCEPT !.frontier = Tail(@), !.visited = @ \cup {HeadPage}]

\* Visited before, or on another host.
Drop ==
    /\ Crawling /\ ~Candidate
    /\ crawl' = Popped
    /\ UNCHANGED <<version, robots, tags, pages, mishaps>>

\* robots.txt of a host is asked for once; an error means anything goes.
RobotsFor(answer) ==
    /\ Crawling /\ Candidate
    /\ robots[HostOf[HeadPage]] = "unknown"
    /\ robots' = [robots EXCEPT ![HostOf[HeadPage]] = answer]
    /\ UNCHANGED <<version, tags, crawl, pages>>
GetRobots == RobotsFor("rules") /\ UNCHANGED mishaps
RobotsFail == RobotsFor("none") /\ Mishap

Known == robots[HostOf[HeadPage]] # "unknown"

\* What the server sends with content v of page p for a later request to quote:
\* the ETag, one per content, which decides when there is one; the second the
\* content came up in; or nothing.
Validator(p, v) ==
    IF p \in Undated THEN 0 ELSE IF p \in Untagged THEN SecondOf[p][v] ELSE v

\* If-None-Match or If-Modified-Since quote the cursor, and the server has
\* nothing newer to show for it.
NotModified ==
    tags[HeadUrl] # 0 /\ tags[HeadUrl] = Validator(HeadPage, version[HeadPage])

\* Disallowed, binary, or the server answers 304.
NothingNew ==
    /\ Crawling /\ Candidate /\ Known
    /\ ~Allowed(HeadPage) \/ HeadPage \in Binary \/ NotModified
    /\ crawl' = Popped
    /\ UNCHANGED <<version, robots, tags, pages, mishaps>>

\* An exception or a status outside 2xx; the crawl goes on without the page.
FetchFails ==
    /\ Crawling /\ Candidate /\ Known /\ Allowed(HeadPage)
    /\ Mishap
    /\ crawl' = [Popped EXCEPT !.clean = FALSE]
    /\ UNCHANGED <<version, robots, tags, pages>>

\* Faulty variant of MergedTags: the key is the page while documents keep the URL.
MergedByPage(u, v) ==
    [w \in Urls |-> IF PageOf[w] = PageOf[u] THEN Validator(PageOf[u], v) ELSE crawl.next[w]]

\* cursor_from and merge: what came with the body, under the URL.
MergedTags(u, v) == [crawl.next EXCEPT ![u] = Validator(PageOf[u], v)]

\* A document is yielded, the consumer writes it and merges its cursor.
FetchOne ==
    /\ Crawling /\ Candidate /\ Known /\ Allowed(HeadPage)
    /\ HeadPage \notin Binary /\ ~NotModified
    /\ pages' = [pages EXCEPT ![HeadUrl] = version[HeadPage]]
    /\ crawl' = [Popped EXCEPT
          !.got = @ \cup {HeadUrl},
          !.next = MergedTags(HeadUrl, version[HeadPage]),
          !.frontier = @ \o Expanded(HeadPage, HeadDepth, Popped.visited)]
    /\ UNCHANGED <<version, robots, tags, mishaps>>

Over == crawl.pc = "crawl" /\ ~Crawling

EndCrawl ==
    /\ Over
    /\ tags' = crawl.next
    /\ crawl' = Resting
    /\ UNCHANGED <<version, robots, pages, mishaps>>

\* The consumer dies and loses the running cursor, and with it the source's
\* cache of robots.txt.
LoseCrawl ==
    /\ crawl.pc = "crawl"
    /\ Mishap
    /\ crawl' = Resting
    /\ robots' = [h \in Hosts |-> "unknown"]
    /\ UNCHANGED <<version, tags, pages>>

CrawlStep == StartCrawl \/ Drop \/ GetRobots \/ NothingNew \/ FetchOne \/ EndCrawl
CrawlNext ==
    \/ \E p \in Pages : Edit(p)
    \/ CrawlStep
    \/ SitemapFails \/ RobotsFail \/ FetchFails \/ LoseCrawl

CrawlSpec == CrawlInit /\ [][CrawlNext]_webVars

-----------------------------------------------------------------------------
Seeds == {PageOf[u] : u \in ToSet(SeedUrls(TRUE))}
LinkedFrom(ps) == {PageOf[u] : u \in UNION {ToSet(LinksOf[p]) : p \in ps \cap Html}}

\* near[n]: the pages at most n links away from a seed, through fetched pages.
Levels(fetched) ==
    LET near[n \in 0 .. CrawlDepth] ==
          IF n = 0 THEN Seeds
          ELSE near[n - 1] \cup LinkedFrom(near[n - 1] \cap fetched)
    IN near

WithinLinks == Levels({p \in Pages : Allowed(p) /\ OnSeedHost(p)})[CrawlDepth]

\* A first crawl that no failure and no page limit cut short brings exactly the
\* text pages within crawl_depth links of a seed that hosts and robots.txt
\* permit, each once: marking pages as visited when they come up, at whatever
\* depth, never hides one.
FirstCrawlIsComplete ==
    Over /\ crawl.clean /\ crawl.frontier = <<>> =>
        /\ {PageOf[u] : u \in crawl.got} =
               {p \in WithinLinks \ Binary : Allowed(p) /\ OnSeedHost(p)}
        /\ \A u, v \in crawl.got : PageOf[u] = PageOf[v] => u = v

\* A page that the persisted or the running cursor would have answered with 304
\* is in the target in a content the server does not tell from the present one:
\* the validator always belongs to what was written, whenever the page changed.
\* For a page with an ETag that is its content now; for one that only has a
\* Last-Modified second, a content that came up in the same second, so that a
\* 304 can hide a change made within one second of the fetch and nothing else.
UnmodifiedIsStored ==
    \A u \in Urls :
        LET now == Validator(PageOf[u], version[PageOf[u]])
        IN now # 0 /\ now \in {tags[u], crawl.next[u]} =>
              pages[u] # 0 /\ Validator(PageOf[u], pages[u]) = now

\* What a reader of the cursor would like to hold of every page; two contents
\* in one second of Last-Modified refute it.
UnmodifiedIsCurrent ==
    \A u \in Urls :
        tags[u] # 0 /\ tags[u] = Validator(PageOf[u], version[PageOf[u]]) =>
            pages[u] = version[PageOf[u]]

\* The cursor's key is the normalized URL: a page has one document.
OneDocumentPerPage ==
    \A u, v \in Urls : PageOf[u] = PageOf[v] /\ pages[u] # 0 /\ pages[v] # 0 => u = v
=============================================================================
