---------------------------- MODULE WebCrawlProofs ----------------------------
(***************************************************************************)
(* Proofs about WebCrawl, for any pages, links, hosts, robots.txt, depth   *)
(* and limits, and any number of edits and failures.                       *)
(***************************************************************************)
EXTENDS WebCrawl, WellFoundedInduction, TLAPS

-----------------------------------------------------------------------------
(* The invariants.                                                         *)

Depths == 0 .. CrawlDepth
Crawls == [pc : {"rest", "crawl"}, frontier : Seq(Urls \X Depths),
           visited : SUBSET Pages, got : SUBSET Urls, hosts : SUBSET Hosts,
           next : [Urls -> Nat], clean : BOOLEAN]

TypeOK ==
    /\ version \in [Pages -> 1 .. MaxVersion]
    /\ robots \in [Hosts -> {"unknown", "rules", "none"}]
    /\ tags \in [Urls -> Nat] /\ pages \in [Urls -> 0 .. MaxVersion]
    /\ crawl \in Crawls
    /\ mishaps \in Nat

\* A validator came with a content that the page has had and that the target has
\* or has had since.
Stored(u, tag) ==
    /\ pages[u] <= version[PageOf[u]]
    /\ tag # 0 => \E v \in 1 .. pages[u] : tag = Validator(PageOf[u], v)

TagsInv == TypeOK /\ \A u \in Urls : Stored(u, tags[u]) /\ Stored(u, crawl.next[u])

Home == {p \in Pages : OnSeedHost(p)}
Permitted == {p \in Pages : Allowed(p)}
Fetched == {PageOf[u] : u \in crawl.got}

\* What was fetched was asked for once, with leave of its host.
FetchedOnce ==
    /\ Fetched \subseteq (crawl.visited \cap Home \cap Permitted) \ Binary
    /\ \A p \in Fetched : robots[HostOf[p]] # "unknown"
    /\ \A u, v \in crawl.got : PageOf[u] = PageOf[v] => u = v

\* Nothing that should have been fetched was passed over.
NonePassedOver == crawl.visited \cap Home \cap Permitted \subseteq Fetched \cup Binary

Queued(q, queue, d) == \E i \in 1 .. Len(queue) : PageOf[queue[i][1]] = q /\ queue[i][2] = d

\* The crawl is n links away from the seeds: the queue holds pages n away, then
\* pages n + 1 away; nearer pages have been visited, and so has, or is queued,
\* whatever the fetched pages link to.
Wave(n, queue, seen, fetched, home) ==
    /\ \A i \in 1 .. Len(queue) :
          /\ queue[i][2] \in {CrawlDepth - n, CrawlDepth - n - 1}
          /\ PageOf[queue[i][1]] \in Levels(fetched)[CrawlDepth - queue[i][2]]
    /\ \A i, j \in 1 .. Len(queue) : i <= j => queue[i][2] >= queue[j][2]
    /\ fetched \subseteq Levels(fetched)[n]
    /\ n > 0 => Levels(fetched)[n - 1] \cap home \subseteq seen
    /\ \A q \in (Levels(fetched)[n] \cap home) \ seen : Queued(q, queue, CrawlDepth - n)
    /\ n < CrawlDepth =>
          \A q \in (LinkedFrom(fetched) \cap home) \ seen :
              Queued(q, queue, CrawlDepth - n) \/ Queued(q, queue, CrawlDepth - n - 1)

\* The first crawl, as long as nothing fails.
CleanInv ==
    crawl.clean =>
        /\ tags = NoTags
        /\ NonePassedOver
        /\ \E n \in Depths : Wave(n, crawl.frontier, crawl.visited, Fetched, Home)

CrawlInv == TagsInv /\ FetchedOnce /\ CleanInv

-----------------------------------------------------------------------------
(* Recursion over the positions of a sequence or the depth of a crawl.     *)

\* Every set of numbers that has a member has a least one.
LEMMA LeastMember ==
    ASSUME NEW S \in SUBSET Nat, S # {}
    PROVE  \E x \in S : \A y \in S : x <= y
<1> DEFINE R == OpToRel(<, Nat)
<1>1. IsWellFoundedOn(R, Nat)
  BY NatLessThanWellFounded
<1>2. R = {ss \in Nat \X Nat : ss[1] < ss[2]}
  BY DEF OpToRel
<1>3. PICK x \in S : \A y \in S : ~ (<<y, x>> \in R)
  <2> HIDE DEF R
  <2> QED
    BY <1>1, WFMin
<1>4. \A y \in S : ~ (y < x)
  BY <1>2, <1>3
<1> QED
  BY <1>4

\* Induction up to N, for what can be said as membership of a set.
LEMMA UpTo ==
    ASSUME NEW N \in Nat, NEW P, 0 \in P, \A n \in 1 .. N : n - 1 \in P => n \in P
    PROVE  0 .. N \subseteq P
<1> DEFINE Wrong == (0 .. N) \ P
<1> SUFFICES ASSUME Wrong # {} PROVE FALSE
  OBVIOUS
<1>1. PICK m \in Wrong : \A y \in Wrong : m <= y
  <2>1. Wrong \in SUBSET Nat
    OBVIOUS
  <2> HIDE DEF Wrong
  <2> QED
    BY <2>1, LeastMember
<1>2. m \in 1 .. N /\ m - 1 \in 0 .. N /\ ~ (m <= m - 1)
  OBVIOUS
<1>3. m - 1 \notin Wrong
  BY <1>1, <1>2
<1> QED
  BY <1>2, <1>3

\* f starts with base and goes on by step.
Follows(f, N, base, step) == f[0] = base /\ \A n \in 1 .. N : f[n] = step[n][f[n - 1]]

\* What is defined by its first value and a step has a solution.
LEMMA Recursion ==
    ASSUME NEW N \in Nat, NEW S, NEW base \in S, NEW step \in [1 .. N -> [S -> S]]
    PROVE  \E f \in [0 .. N -> S] : Follows(f, N, base, step)
<1> DEFINE Solves(f, m) == f[0] = base /\ \A n \in 1 .. m : f[n] = step[n][f[n - 1]]
           P == {m \in 0 .. N : \E f \in [0 .. m -> S] : Solves(f, m)}
<1>1. 0 \in P
  <2> DEFINE g == [i \in 0 .. 0 |-> base]
  <2>1. g \in [0 .. 0 -> S] /\ g[0] = base /\ 1 .. 0 = {}
    OBVIOUS
  <2>2. Solves(g, 0)
    <3> HIDE DEF g
    <3> QED
      BY <2>1
  <2> HIDE DEF g, Solves
  <2> QED
    BY <2>1, <2>2
<1>2. ASSUME NEW m \in 1 .. N, m - 1 \in P PROVE m \in P
  <2>1. PICK f \in [0 .. m - 1 -> S] : Solves(f, m - 1)
    BY <1>2
  <2> DEFINE g == [i \in 0 .. m |-> IF i = m THEN step[m][f[m - 1]] ELSE f[i]]
  <2>2. m \in Nat /\ m > 0 /\ m - 1 \in 0 .. m - 1 /\ f[m - 1] \in S
    OBVIOUS
  <2>3. step[m][f[m - 1]] \in S
    BY <2>2
  <2>4. \A i \in 0 .. m : i # m => i \in 0 .. m - 1
    BY <2>2
  <2>5. g \in [0 .. m -> S]
    BY <2>3, <2>4
  <2>6. g[0] = base
    BY <2>1, <2>2
  <2>7. ASSUME NEW n \in 1 .. m PROVE g[n] = step[n][g[n - 1]]
    <3>1. n - 1 \in 0 .. m /\ n - 1 # m /\ n \in 0 .. m
      BY <2>2
    <3>2. g[n - 1] = f[n - 1]
      BY <3>1
    <3>3. CASE n = m
      BY <3>1, <3>2, <3>3
    <3>4. CASE n # m
      <4>1. n \in 1 .. m - 1
        BY <2>2, <3>4
      <4>2. g[n] = f[n]
        BY <3>1, <3>4
      <4> QED
        BY <2>1, <3>2, <4>1, <4>2
    <3> QED
      BY <3>3, <3>4
  <2>8. Solves(g, m)
    <3> HIDE DEF g
    <3> QED
      BY <2>6, <2>7
  <2> QED
    <3> HIDE DEF g, Solves
    <3> QED
      BY <2>5, <2>8
<1>3. N \in P
  <2>1. 0 .. N \subseteq P
    <3> HIDE DEF P
    <3> QED
      BY <1>1, <1>2, UpTo
  <2>2. N \in 0 .. N
    OBVIOUS
  <2> HIDE DEF P
  <2> QED
    BY <2>1, <2>2
<1> QED
  BY <1>3 DEF Follows

-----------------------------------------------------------------------------
(* The operators of the crawl.                                             *)

\* LinksTo keeps just the links that lead to wanted pages.
LEMMA LinksToKeeps ==
    ASSUME NEW wanted, NEW urls \in Seq(Urls)
    PROVE  /\ LinksTo(wanted, urls) \in Seq(Urls)
           /\ \A u : u \in ToSet(LinksTo(wanted, urls))
                        <=> u \in ToSet(urls) /\ PageOf[u] \in wanted
<1> DEFINE N == Len(urls)
           e(f, n) == IF n = 0 THEN <<>>
                      ELSE IF PageOf[urls[n]] \in wanted THEN Append(f[n - 1], urls[n]) ELSE f[n - 1]
           Solves(f) == f = [n \in 0 .. N |-> e(f, n)]
           kept == CHOOSE f : Solves(f)
           Kept(n) == /\ kept[n] \in Seq(Urls)
                      /\ \A u : (\E i \in 1 .. Len(kept[n]) : kept[n][i] = u)
                            <=> \E i \in 1 .. n : urls[i] = u /\ PageOf[u] \in wanted
<1>1. N \in Nat /\ \A n \in 1 .. N : urls[n] \in Urls
  OBVIOUS
<1>2. \E f : Solves(f)
  <2> DEFINE step == [n \in 1 .. N |-> [s \in Seq(Urls) |->
                         IF PageOf[urls[n]] \in wanted THEN Append(s, urls[n]) ELSE s]]
  <2>1. step \in [1 .. N -> [Seq(Urls) -> Seq(Urls)]]
    <3> SUFFICES ASSUME NEW n \in 1 .. N, NEW s \in Seq(Urls)
                 PROVE  Append(s, urls[n]) \in Seq(Urls)
      OBVIOUS
    <3> QED
      BY <1>1
  <2>2. <<>> \in Seq(Urls)
    OBVIOUS
  <2>3. PICK f \in [0 .. N -> Seq(Urls)] : Follows(f, N, <<>>, step)
    <3> HIDE DEF step, N
    <3> QED
      BY <1>1, <2>1, <2>2, Recursion
  <2>4. ASSUME NEW n \in 0 .. N PROVE f[n] = e(f, n)
    <3>1. CASE n = 0
      BY <2>3, <3>1 DEF Follows
    <3>2. CASE n # 0
      <4>1. n \in 1 .. N /\ n - 1 \in 0 .. N
        BY <1>1, <3>2
      <4>2. f[n - 1] \in Seq(Urls)
        BY <4>1
      <4>3. step[n][f[n - 1]] = e(f, n)
        BY <3>2, <4>1, <4>2
      <4> QED
        BY <2>3, <4>1, <4>3 DEF Follows
    <3> QED
      BY <3>1, <3>2
  <2>5. f = [n \in 0 .. N |-> f[n]]
    OBVIOUS
  <2>6. [n \in 0 .. N |-> f[n]] = [n \in 0 .. N |-> e(f, n)]
    <3> HIDE DEF e
    <3> QED
      BY <2>4
  <2> QED
    <3> HIDE DEF e
    <3> QED
      BY <2>5, <2>6
<1>3. Solves(kept)
  <2> HIDE DEF Solves
  <2> QED
    BY <1>2
<1>4. \A n \in 0 .. N : kept[n] = e(kept, n)
  <2> HIDE DEF kept, e
  <2> QED
    BY <1>3
<1>5. LinksTo(wanted, urls) = kept[N]
  BY DEF LinksTo
<1> HIDE DEF kept
<1>6. Kept(0)
  <2>1. kept[0] = <<>>
    BY <1>1, <1>4
  <2>2. 1 .. Len(<<>>) = {} /\ 1 .. 0 = {} /\ <<>> \in Seq(Urls)
    OBVIOUS
  <2> QED
    BY <2>1, <2>2
<1>7. ASSUME NEW n \in 1 .. N, Kept(n - 1) PROVE Kept(n)
  <2>1. n \in 0 .. N /\ n - 1 \in Nat /\ urls[n] \in Urls
    BY <1>1
  <2>2. CASE PageOf[urls[n]] \notin wanted
    <3>1. kept[n] = kept[n - 1]
      BY <1>4, <2>1, <2>2
    <3>2. \A i \in 1 .. n : i \in 1 .. n - 1 \/ i = n
      BY <2>1
    <3>3. \A i \in 1 .. n - 1 : i \in 1 .. n
      BY <2>1
    <3> QED
      BY <1>7, <2>2, <3>1, <3>2, <3>3
  <2>3. CASE PageOf[urls[n]] \in wanted
    <3>1. kept[n] = Append(kept[n - 1], urls[n])
      <4>1. n # 0 /\ kept[n] = e(kept, n)
        BY <1>4, <2>1
      <4> HIDE DEF Kept
      <4> QED
        BY <2>3, <4>1
    <3> DEFINE k == kept[n - 1]
    <3>2. k \in Seq(Urls)
      BY <1>7
    <3>3. /\ kept[n] \in Seq(Urls) /\ Len(kept[n]) = Len(k) + 1 /\ Len(k) \in Nat
          /\ kept[n][Len(k) + 1] = urls[n]
          /\ \A i \in 1 .. Len(k) : kept[n][i] = k[i]
      BY <2>1, <3>1, <3>2
    <3>4. \A u : (\E i \in 1 .. Len(k) : k[i] = u)
                    <=> \E i \in 1 .. n - 1 : urls[i] = u /\ PageOf[u] \in wanted
      BY <1>7
    <3>5. \A u : (\E i \in 1 .. Len(kept[n]) : kept[n][i] = u)
                    <=> (\E i \in 1 .. Len(k) : k[i] = u) \/ u = urls[n]
      <4> HIDE DEF k
      <4>1. \A i \in 1 .. Len(kept[n]) : i \in 1 .. Len(k) \/ i = Len(k) + 1
        BY <3>3
      <4>2. /\ Len(k) + 1 \in 1 .. Len(kept[n])
            /\ \A i \in 1 .. Len(k) : i \in 1 .. Len(kept[n])
        BY <3>3
      <4> QED
        BY <3>3, <4>1, <4>2
    <3>6. \A u : (\E i \in 1 .. n : urls[i] = u /\ PageOf[u] \in wanted)
                    <=> (\E i \in 1 .. n - 1 : urls[i] = u /\ PageOf[u] \in wanted) \/ u = urls[n]
      <4>1. \A i \in 1 .. n : i \in 1 .. n - 1 \/ i = n
        BY <2>1
      <4>2. n \in 1 .. n /\ \A i \in 1 .. n - 1 : i \in 1 .. n
        BY <2>1
      <4> QED
        BY <2>3, <4>1, <4>2
    <3> HIDE DEF k
    <3> QED
      BY <3>3, <3>4, <3>5, <3>6
  <2> QED
    BY <2>2, <2>3
<1>8. Kept(N)
  <2> DEFINE P == {n \in 0 .. N : Kept(n)}
  <2>1. 0 \in P
    <3>1. 0 \in 0 .. N
      BY <1>1
    <3> HIDE DEF Kept
    <3> QED
      BY <1>6, <3>1
  <2>2. \A n \in 1 .. N : n - 1 \in P => n \in P
    <3> HIDE DEF Kept
    <3> QED
      BY <1>1, <1>7
  <2>3. 0 .. N \subseteq P
    <3> HIDE DEF P, N
    <3> QED
      BY <1>1, <2>1, <2>2, UpTo
  <2> HIDE DEF Kept
  <2> QED
    BY <1>1, <2>3
<1>9. \A u : u \in ToSet(LinksTo(wanted, urls)) <=> \E i \in 1 .. Len(kept[N]) : kept[N][i] = u
  BY <1>5, <1>8 DEF ToSet
<1>10. \A u : u \in ToSet(urls) <=> \E i \in 1 .. N : urls[i] = u
  BY DEF ToSet
<1> QED
  BY <1>5, <1>8, <1>9, <1>10

\* FirstSpellings returns a sequence of URLs.
LEMMA FirstSpellingsType ==
    ASSUME NEW urls \in Seq(Urls)
    PROVE  FirstSpellings(urls) \in Seq(Urls)
<1> DEFINE N == Len(urls)
           e(f, n) == IF n = 0 THEN <<>>
                      ELSE IF \E v \in ToSet(f[n - 1]) : PageOf[v] = PageOf[urls[n]]
                           THEN f[n - 1] ELSE Append(f[n - 1], urls[n])
           Solves(f) == f = [n \in 0 .. N |-> e(f, n)]
           out == CHOOSE f : Solves(f)
<1>1. N \in Nat /\ \A n \in 1 .. N : urls[n] \in Urls
  OBVIOUS
<1>2. \E f : Solves(f)
  <2> DEFINE step == [n \in 1 .. N |-> [s \in Seq(Urls) |->
                         IF \E v \in ToSet(s) : PageOf[v] = PageOf[urls[n]]
                         THEN s ELSE Append(s, urls[n])]]
  <2>1. step \in [1 .. N -> [Seq(Urls) -> Seq(Urls)]]
    <3> SUFFICES ASSUME NEW n \in 1 .. N, NEW s \in Seq(Urls)
                 PROVE  Append(s, urls[n]) \in Seq(Urls)
      OBVIOUS
    <3> QED
      BY <1>1
  <2>2. <<>> \in Seq(Urls)
    OBVIOUS
  <2>3. PICK f \in [0 .. N -> Seq(Urls)] : Follows(f, N, <<>>, step)
    <3> HIDE DEF step, N
    <3> QED
      BY <1>1, <2>1, <2>2, Recursion
  <2>4. ASSUME NEW n \in 0 .. N PROVE f[n] = e(f, n)
    <3>1. CASE n = 0
      BY <2>3, <3>1 DEF Follows
    <3>2. CASE n # 0
      <4>1. n \in 1 .. N /\ n - 1 \in 0 .. N
        BY <1>1, <3>2
      <4>2. f[n - 1] \in Seq(Urls)
        BY <4>1
      <4>3. step[n][f[n - 1]] = e(f, n)
        BY <3>2, <4>1, <4>2
      <4> QED
        BY <2>3, <4>1, <4>3 DEF Follows
    <3> QED
      BY <3>1, <3>2
  <2>5. f = [n \in 0 .. N |-> f[n]]
    OBVIOUS
  <2>6. [n \in 0 .. N |-> f[n]] = [n \in 0 .. N |-> e(f, n)]
    <3> HIDE DEF e
    <3> QED
      BY <2>4
  <2> QED
    <3> HIDE DEF e
    <3> QED
      BY <2>5, <2>6
<1>3. Solves(out)
  <2> HIDE DEF Solves
  <2> QED
    BY <1>2
<1>4. \A n \in 0 .. N : out[n] = e(out, n)
  <2> HIDE DEF out, e
  <2> QED
    BY <1>3
<1>5. FirstSpellings(urls) = out[N]
  BY DEF FirstSpellings
<1> HIDE DEF out
<1>6. out[0] \in Seq(Urls)
  <2>1. 0 \in 0 .. N /\ <<>> \in Seq(Urls)
    BY <1>1
  <2>2. out[0] = <<>>
    BY <1>4, <2>1
  <2> QED
    BY <2>1, <2>2
<1>7. ASSUME NEW n \in 1 .. N, out[n - 1] \in Seq(Urls) PROVE out[n] \in Seq(Urls)
  <2>1. n \in 0 .. N /\ n # 0 /\ urls[n] \in Urls
    BY <1>1
  <2>2. out[n] = out[n - 1] \/ out[n] = Append(out[n - 1], urls[n])
    BY <1>4, <2>1
  <2>3. Append(out[n - 1], urls[n]) \in Seq(Urls)
    BY <1>7, <2>1
  <2> QED
    BY <1>7, <2>2, <2>3
<1>8. out[N] \in Seq(Urls)
  <2> DEFINE P == {n \in 0 .. N : out[n] \in Seq(Urls)}
  <2>1. 0 \in P /\ N \in 0 .. N
    BY <1>1, <1>6
  <2>2. \A n \in 1 .. N : n - 1 \in P => n \in P
    BY <1>1, <1>7
  <2>3. 0 .. N \subseteq P
    <3> HIDE DEF P, N
    <3> QED
      BY <1>1, <2>1, <2>2, UpTo
  <2> QED
    BY <2>1, <2>3
<1> QED
  BY <1>5, <1>8

\* The seeds are URLs, and so are the pages they name pages.
LEMMA SeedsType ==
    /\ \A mapped \in BOOLEAN : SeedUrls(mapped) \in Seq(Urls)
    /\ Seeds \subseteq Pages
<1>1. CfgUrls \in Seq(Urls) /\ Sitemap \in Seq(Urls) /\ CfgUrls \o Sitemap \in Seq(Urls)
  BY CrawlAssumption
<1>2. \A mapped \in BOOLEAN : SeedUrls(mapped) \in Seq(Urls)
  BY <1>1, FirstSpellingsType DEF SeedUrls
<1>3. ToSet(SeedUrls(TRUE)) \subseteq Urls
  <2> DEFINE seeds == SeedUrls(TRUE)
  <2>1. seeds \in Seq(Urls)
    BY <1>2
  <2> HIDE DEF seeds
  <2>2. ToSet(seeds) \subseteq Urls
    BY <2>1 DEF ToSet
  <2> QED
    BY <2>2 DEF seeds
<1> QED
  BY <1>2, <1>3, CrawlAssumption DEF Seeds

\* The links of pages lead to pages.
LEMMA LinkedFromType ==
    ASSUME NEW ps \in SUBSET Pages
    PROVE  LinkedFrom(ps) \subseteq Pages
<1>1. \A p \in Pages : ToSet(LinksOf[p]) \subseteq Urls
  BY CrawlAssumption DEF ToSet
<1> QED
  BY <1>1, CrawlAssumption DEF LinkedFrom

\* Levels is the function its recursion describes.
LEMMA LevelsFacts ==
    ASSUME NEW fetched \in SUBSET Pages
    PROVE  /\ Levels(fetched) \in [Depths -> SUBSET Pages]
           /\ Levels(fetched)[0] = Seeds
           /\ \A n \in 1 .. CrawlDepth :
                 Levels(fetched)[n] = Levels(fetched)[n - 1]
                                      \cup LinkedFrom(Levels(fetched)[n - 1] \cap fetched)
<1> DEFINE N == CrawlDepth
           e(f, n) == IF n = 0 THEN Seeds
                      ELSE f[n - 1] \cup LinkedFrom(f[n - 1] \cap fetched)
           Solves(f) == f = [n \in 0 .. N |-> e(f, n)]
           near == CHOOSE f : Solves(f)
<1>1. N \in Nat
  BY CrawlAssumption
<1>2. \E f : Solves(f)
  <2> DEFINE step == [n \in 1 .. N |-> [s \in SUBSET Pages |->
                         s \cup LinkedFrom(s \cap fetched)]]
  <2>1. step \in [1 .. N -> [SUBSET Pages -> SUBSET Pages]]
    BY LinkedFromType
  <2>2. Seeds \in SUBSET Pages
    BY SeedsType
  <2>3. PICK f \in [0 .. N -> SUBSET Pages] : Follows(f, N, Seeds, step)
    <3> HIDE DEF step, N
    <3> QED
      BY <1>1, <2>1, <2>2, Recursion
  <2>4. ASSUME NEW n \in 0 .. N PROVE f[n] = e(f, n)
    <3>1. CASE n = 0
      BY <2>3, <3>1 DEF Follows
    <3>2. CASE n # 0
      <4>1. n \in 1 .. N /\ n - 1 \in 0 .. N
        BY <1>1, <3>2
      <4>2. f[n - 1] \in SUBSET Pages
        BY <4>1
      <4>3. step[n][f[n - 1]] = e(f, n)
        BY <3>2, <4>1, <4>2
      <4> QED
        BY <2>3, <4>1, <4>3 DEF Follows
    <3> QED
      BY <3>1, <3>2
  <2>5. f = [n \in 0 .. N |-> f[n]]
    OBVIOUS
  <2>6. [n \in 0 .. N |-> f[n]] = [n \in 0 .. N |-> e(f, n)]
    <3> HIDE DEF e
    <3> QED
      BY <2>4
  <2> QED
    <3> HIDE DEF e
    <3> QED
      BY <2>5, <2>6
<1>3. Solves(near)
  <2> HIDE DEF Solves
  <2> QED
    BY <1>2
<1>4. near = [n \in 0 .. N |-> near[n]] /\ \A n \in 0 .. N : near[n] = e(near, n)
  <2> HIDE DEF near, e
  <2> QED
    BY <1>3
<1>5. Levels(fetched) = near
  BY DEF Levels
<1> HIDE DEF near
<1>6. near[0] = Seeds
  BY <1>1, <1>4
<1>7. \A n \in 1 .. N : near[n] = near[n - 1] \cup LinkedFrom(near[n - 1] \cap fetched)
  <2>1. \A n \in 1 .. N : n \in 0 .. N /\ n # 0
    BY <1>1
  <2> QED
    BY <1>4, <2>1, Zenon
<1>8. \A n \in 0 .. N : near[n] \in SUBSET Pages
  <2> DEFINE P == {n \in 0 .. N : near[n] \in SUBSET Pages}
  <2>1. 0 \in P
    BY <1>1, <1>6, SeedsType
  <2>2. ASSUME NEW n \in 1 .. N, n - 1 \in P PROVE n \in P
    <3>1. n \in 0 .. N
      BY <1>1
    <3>2. near[n - 1] \in SUBSET Pages /\ near[n - 1] \cap fetched \in SUBSET Pages
      BY <2>2
    <3>3. near[n] \in SUBSET Pages
      BY <1>7, <3>2, LinkedFromType
    <3> QED
      BY <3>1, <3>3
  <2>3. 0 .. N \subseteq P
    <3> HIDE DEF P, N
    <3> QED
      BY <1>1, <2>1, <2>2, UpTo
  <2> QED
    BY <2>1, <2>3
<1>9. near \in [Depths -> SUBSET Pages]
  BY <1>4, <1>8 DEF Depths
<1> QED
  BY <1>5, <1>6, <1>7, <1>9

\* One link further.
LEMMA LevelStep ==
    ASSUME NEW fetched \in SUBSET Pages, NEW n \in 1 .. CrawlDepth
    PROVE  Levels(fetched)[n] = Levels(fetched)[n - 1]
                                \cup LinkedFrom(Levels(fetched)[n - 1] \cap fetched)
  BY LevelsFacts, Zenon

\* Further from the seeds there are more pages.
LEMMA LevelsRise ==
    ASSUME NEW fetched \in SUBSET Pages, NEW n \in Depths, NEW m \in 0 .. n
    PROVE  Levels(fetched)[m] \subseteq Levels(fetched)[n]
<1> DEFINE near == Levels(fetched)
           P == {k \in 0 .. n : k >= m => near[m] \subseteq near[k]}
<1>1. CrawlDepth \in Nat /\ n \in Nat /\ n <= CrawlDepth /\ m \in Nat /\ m <= n
  BY CrawlAssumption DEF Depths
<1>2. ASSUME NEW k \in 1 .. CrawlDepth PROVE near[k - 1] \subseteq near[k]
  <2>1. near[k] = near[k - 1] \cup LinkedFrom(near[k - 1] \cap fetched)
    BY LevelStep, Zenon
  <2> HIDE DEF near
  <2> QED
    BY <2>1
<1> HIDE DEF near
<1>3. 0 \in P
  BY <1>1
<1>4. ASSUME NEW k \in 1 .. n, k - 1 \in P PROVE k \in P
  <2>1. near[k - 1] \subseteq near[k]
    BY <1>1, <1>2
  <2>2. k = m \/ k < m \/ k - 1 >= m
    BY <1>1
  <2> QED
    BY <1>1, <1>4, <2>1, <2>2
<1>5. 0 .. n \subseteq P
  <2> HIDE DEF P
  <2> QED
    BY <1>1, <1>3, <1>4, UpTo
<1> QED
  BY <1>1, <1>5 DEF near

LEMMA LinkedFromRises ==
    ASSUME NEW ps, NEW qs, ps \subseteq qs
    PROVE  LinkedFrom(ps) \subseteq LinkedFrom(qs)
  BY DEF LinkedFrom

\* The more has been fetched, the more is near.
LEMMA LevelsGrow ==
    ASSUME NEW fetched \in SUBSET Pages, NEW more \in SUBSET Pages, fetched \subseteq more,
           NEW n \in Depths
    PROVE  Levels(fetched)[n] \subseteq Levels(more)[n]
<1> DEFINE P == {k \in 0 .. CrawlDepth : Levels(fetched)[k] \subseteq Levels(more)[k]}
<1>1. CrawlDepth \in Nat
  BY CrawlAssumption
<1>2. 0 \in P
  BY <1>1, LevelsFacts
<1>3. ASSUME NEW k \in 1 .. CrawlDepth, k - 1 \in P PROVE k \in P
  <2>1. Levels(fetched)[k - 1] \cap fetched \subseteq Levels(more)[k - 1] \cap more
    BY <1>3
  <2>2. LinkedFrom(Levels(fetched)[k - 1] \cap fetched)
           \subseteq LinkedFrom(Levels(more)[k - 1] \cap more)
    BY <2>1, LinkedFromRises
  <2>3. /\ Levels(fetched)[k] = Levels(fetched)[k - 1]
                                  \cup LinkedFrom(Levels(fetched)[k - 1] \cap fetched)
        /\ Levels(more)[k] = Levels(more)[k - 1]
                               \cup LinkedFrom(Levels(more)[k - 1] \cap more)
    BY LevelStep, Zenon
  <2>4. Levels(fetched)[k] \subseteq Levels(more)[k]
    BY <1>3, <2>2, <2>3
  <2> QED
    BY <1>1, <2>4
<1>4. 0 .. CrawlDepth \subseteq P
  <2> HIDE DEF P
  <2> QED
    BY <1>1, <1>2, <1>3, UpTo
<1> QED
  BY <1>4 DEF Depths

\* A page that is not nearer than n links does not change what is n links away.
LEMMA LevelsSame ==
    ASSUME NEW fetched \in SUBSET Pages, NEW p \in Pages, NEW n \in Depths,
           n > 0 => p \notin Levels(fetched)[n - 1],
           NEW m \in 0 .. n
    PROVE  Levels(fetched \cup {p})[m] = Levels(fetched)[m]
<1> DEFINE more == fetched \cup {p}
           P == {k \in 0 .. n : Levels(more)[k] = Levels(fetched)[k]}
<1>1. CrawlDepth \in Nat /\ n \in Nat /\ n <= CrawlDepth /\ more \in SUBSET Pages
  BY CrawlAssumption DEF Depths
<1>2. 0 \in P
  BY <1>1, LevelsFacts
<1>3. ASSUME NEW k \in 1 .. n, k - 1 \in P PROVE k \in P
  <2>1. n > 0 /\ n - 1 \in Depths /\ k - 1 \in 0 .. n - 1 /\ k \in 1 .. CrawlDepth
    BY <1>1 DEF Depths
  <2>2. p \notin Levels(fetched)[k - 1]
    BY <2>1, LevelsRise
  <2>3. Levels(more)[k - 1] \cap more = Levels(fetched)[k - 1] \cap fetched
    BY <1>3, <2>2
  <2>4. Levels(more)[k] = Levels(fetched)[k]
    <3>1. Levels(more)[k - 1] = Levels(fetched)[k - 1]
      BY <1>3
    <3> HIDE DEF more
    <3>2. /\ Levels(fetched)[k] = Levels(fetched)[k - 1]
                                    \cup LinkedFrom(Levels(fetched)[k - 1] \cap fetched)
          /\ Levels(more)[k] = Levels(more)[k - 1]
                                 \cup LinkedFrom(Levels(more)[k - 1] \cap more)
      BY <1>1, <2>1, LevelStep, Zenon
    <3> QED
      BY <2>3, <3>1, <3>2
  <2> QED
    BY <1>1, <2>4
<1>4. 0 .. n \subseteq P
  <2> HIDE DEF P
  <2> QED
    BY <1>1, <1>2, <1>3, UpTo
<1> QED
  BY <1>4

-----------------------------------------------------------------------------
(* The crawl goes outwards.                                                *)

Queues == Seq(Urls \X Depths)

FirstQueue(mapped) ==
    [n \in 1 .. Len(SeedUrls(mapped)) |-> <<SeedUrls(mapped)[n], CrawlDepth>>]

LEMMA FirstQueueType ==
    ASSUME NEW mapped \in BOOLEAN
    PROVE  /\ FirstQueue(mapped) \in Queues
           /\ Len(FirstQueue(mapped)) = Len(SeedUrls(mapped))
           /\ Len(FirstQueue(mapped)) \in Nat
           /\ \A i \in 1 .. Len(FirstQueue(mapped)) :
                 /\ FirstQueue(mapped)[i][1] = SeedUrls(mapped)[i]
                 /\ FirstQueue(mapped)[i][2] = CrawlDepth
<1> DEFINE seeds == SeedUrls(mapped)
           item(i) == <<seeds[i], CrawlDepth>>
           S == Urls \X Depths
           queue == [i \in 1 .. Len(seeds) |-> item(i)]
<1>1. seeds \in Seq(Urls) /\ CrawlDepth \in Depths
  BY SeedsType, CrawlAssumption DEF Depths
<1>2. FirstQueue(mapped) = queue
  BY DEF FirstQueue
<1> HIDE DEF seeds
<1>3. Len(seeds) \in Nat /\ \A i \in 1 .. Len(seeds) : seeds[i] \in Urls
  BY <1>1
<1>4. \A i \in 1 .. Len(seeds) :
         item(i) \in S /\ item(i)[1] = seeds[i] /\ item(i)[2] = CrawlDepth
  BY <1>1, <1>3
<1> HIDE DEF item, S
<1>5. queue \in Seq(S) /\ Len(queue) = Len(seeds)
  BY <1>3, <1>4
<1>6. \A i \in 1 .. Len(seeds) : queue[i] = item(i)
  OBVIOUS
<1> HIDE DEF queue
<1> QED
  BY <1>2, <1>3, <1>4, <1>5, <1>6 DEF Queues, S, seeds

\* A crawl begins at the seeds.
LEMMA WaveStarts ==
    ASSUME NEW home
    PROVE  Wave(0, FirstQueue(TRUE), {}, {}, home)
<1> DEFINE seeds == SeedUrls(TRUE)
           queue == FirstQueue(TRUE)
<1>1. CrawlDepth \in Nat /\ seeds \in Seq(Urls) /\ Len(seeds) \in Nat
  <2>1. seeds \in Seq(Urls)
    BY SeedsType
  <2> HIDE DEF seeds
  <2> QED
    BY <2>1, CrawlAssumption
<1>2. Levels({})[0] = {PageOf[u] : u \in ToSet(seeds)}
  BY LevelsFacts DEF Seeds
<1>3. LinkedFrom({}) = {}
  BY DEF LinkedFrom
<1>6. /\ Len(queue) = Len(seeds)
      /\ \A i \in 1 .. Len(queue) : queue[i][1] = seeds[i] /\ queue[i][2] = CrawlDepth
  BY FirstQueueType
<1> HIDE DEF seeds, queue
<1>7. \A i \in 1 .. Len(queue) :
         /\ queue[i][1] = seeds[i] /\ queue[i][2] = CrawlDepth
         /\ PageOf[queue[i][1]] \in Levels({})[0]
  <2>1. \A i \in 1 .. Len(queue) : seeds[i] \in ToSet(seeds)
    BY <1>1, <1>6 DEF ToSet
  <2> QED
    BY <1>2, <1>6, <2>1
<1>8. ASSUME NEW q \in Levels({})[0] PROVE Queued(q, queue, CrawlDepth)
  <2>1. PICK i \in 1 .. Len(seeds) : PageOf[seeds[i]] = q
    BY <1>2 DEF ToSet
  <2> QED
    BY <1>6, <1>7, <2>1 DEF Queued
<1>9. CrawlDepth - CrawlDepth = 0 /\ CrawlDepth - 0 = CrawlDepth
  BY <1>1
<1>10. \A i \in 1 .. Len(queue) :
          /\ queue[i][2] \in {CrawlDepth - 0, CrawlDepth - 0 - 1}
          /\ PageOf[queue[i][1]] \in Levels({})[CrawlDepth - queue[i][2]]
  BY <1>7, <1>9
<1>11. \A i, j \in 1 .. Len(queue) : i <= j => queue[i][2] >= queue[j][2]
  <2>1. \A i \in 1 .. Len(queue) : queue[i][2] = CrawlDepth
    BY <1>7
  <2> QED
    BY <1>1, <2>1
<1>12. \A q \in (Levels({})[0] \cap home) \ {} : Queued(q, queue, CrawlDepth - 0)
  BY <1>8, <1>9
<1>13. ~ (0 > 0)
  OBVIOUS
<1> QED
  BY <1>3, <1>10, <1>11, <1>12, <1>13 DEF Wave, queue

\* When no page of this distance is left in the queue, the next one's turn has
\* come.
LEMMA WaveTurns ==
    ASSUME NEW n \in Depths, NEW queue \in Queues, NEW seen, NEW fetched \in SUBSET Pages, NEW home,
           Wave(n, queue, seen, fetched, home),
           queue # <<>>, queue[1][2] # CrawlDepth - n
    PROVE  n + 1 \in Depths /\ Wave(n + 1, queue, seen, fetched, home)
<1> DEFINE near == Levels(fetched)
<1>1. /\ CrawlDepth \in Nat /\ n \in Nat /\ n <= CrawlDepth
      /\ Len(queue) \in Nat /\ 1 \in 1 .. Len(queue)
      /\ \A i \in 1 .. Len(queue) : queue[i][2] \in Nat
  BY CrawlAssumption DEF Depths, Queues
<1>2. queue[1][2] = CrawlDepth - n - 1
  BY <1>1 DEF Wave
<1>3. \A i \in 1 .. Len(queue) : queue[i][2] = CrawlDepth - n - 1
  <2> SUFFICES ASSUME NEW i \in 1 .. Len(queue) PROVE queue[i][2] = CrawlDepth - n - 1
    OBVIOUS
  <2>1. queue[1][2] >= queue[i][2] /\ queue[i][2] \in {CrawlDepth - n, CrawlDepth - n - 1}
    BY <1>1 DEF Wave
  <2> QED
    BY <1>1, <1>2, <2>1
<1>4. n + 1 \in Depths /\ n < CrawlDepth /\ n + 1 - 1 = n /\ n + 1 \in 1 .. CrawlDepth
  BY <1>1, <1>2 DEF Depths
<1>5. near[n + 1] = near[n] \cup LinkedFrom(near[n] \cap fetched)
  <2> DEFINE m == n + 1
  <2>1. m \in 1 .. CrawlDepth /\ m - 1 = n
    BY <1>1, <1>4
  <2> HIDE DEF m
  <2>2. near[m] = near[m - 1] \cup LinkedFrom(near[m - 1] \cap fetched)
    BY <2>1, LevelStep, Zenon
  <2> QED
    BY <2>1, <2>2 DEF m
<1>6. CrawlDepth - (n + 1) = CrawlDepth - n - 1 /\ CrawlDepth - n # CrawlDepth - n - 1
  BY <1>1
<1>7. \A q : ~ Queued(q, queue, CrawlDepth - n)
  BY <1>3, <1>6 DEF Queued
<1>8. near[n] \cap home \subseteq seen
  BY <1>7 DEF Wave
<1>9. \A q \in (LinkedFrom(fetched) \cap home) \ seen : Queued(q, queue, CrawlDepth - (n + 1))
  BY <1>4, <1>6, <1>7 DEF Wave
<1>10. LinkedFrom(near[n] \cap fetched) \subseteq LinkedFrom(fetched)
  BY LinkedFromRises
<1>11. \A q \in (near[n + 1] \cap home) \ seen : Queued(q, queue, CrawlDepth - (n + 1))
  BY <1>5, <1>8, <1>9, <1>10
<1>12. fetched \subseteq near[n + 1]
  BY <1>5 DEF Wave
<1>13. \A i \in 1 .. Len(queue) :
          /\ queue[i][2] \in {CrawlDepth - (n + 1), CrawlDepth - (n + 1) - 1}
          /\ PageOf[queue[i][1]] \in near[CrawlDepth - queue[i][2]]
  BY <1>3, <1>6 DEF Wave
<1>14. \A i, j \in 1 .. Len(queue) : i <= j => queue[i][2] >= queue[j][2]
  BY DEF Wave
<1> QED
  <2>1. n + 1 > 0 => near[n + 1 - 1] \cap home \subseteq seen
    BY <1>4, <1>8
  <2>2. n + 1 < CrawlDepth =>
           \A q \in (LinkedFrom(fetched) \cap home) \ seen :
              \/ Queued(q, queue, CrawlDepth - (n + 1))
              \/ Queued(q, queue, CrawlDepth - (n + 1) - 1)
    BY <1>9
  <2>3. Wave(n + 1, queue, seen, fetched, home)
    <3> DEFINE m == n + 1
    <3>1. /\ \A i \in 1 .. Len(queue) :
                /\ queue[i][2] \in {CrawlDepth - m, CrawlDepth - m - 1}
                /\ PageOf[queue[i][1]] \in Levels(fetched)[CrawlDepth - queue[i][2]]
          /\ fetched \subseteq Levels(fetched)[m]
      BY <1>12, <1>13
    <3>2. /\ m > 0 => Levels(fetched)[m - 1] \cap home \subseteq seen
          /\ m < CrawlDepth =>
                \A q \in (LinkedFrom(fetched) \cap home) \ seen :
                   Queued(q, queue, CrawlDepth - m) \/ Queued(q, queue, CrawlDepth - m - 1)
      <4>1. m - 1 = n
        BY <1>1
      <4> HIDE DEF m
      <4> QED
        BY <1>8, <2>2, <4>1 DEF m
    <3>3. \A q \in (Levels(fetched)[m] \cap home) \ seen : Queued(q, queue, CrawlDepth - m)
      BY <1>11
    <3> HIDE DEF m
    <3>4. Wave(m, queue, seen, fetched, home)
      BY <1>14, <3>1, <3>2, <3>3 DEF Wave
    <3> QED
      BY <3>4 DEF m
  <2> QED
    BY <1>4, <2>3

\* The rest of a queue.
LEMMA TailOfQueue ==
    ASSUME NEW queue \in Queues, queue # <<>>
    PROVE  /\ Tail(queue) \in Queues /\ Len(queue) \in Nat \ {0}
           /\ Len(Tail(queue)) = Len(queue) - 1
           /\ \A i \in 1 .. Len(queue) - 1 :
                 i + 1 \in 1 .. Len(queue) /\ Tail(queue)[i] = queue[i + 1]
           /\ \A i \in 1 .. Len(queue) : i = 1 \/ (i - 1 \in 1 .. Len(queue) - 1 /\ i - 1 + 1 = i)
           /\ queue[1] \in Urls \X Depths
<1> DEFINE S == Urls \X Depths
<1>1. queue \in Seq(S)
  BY DEF Queues
<1> HIDE DEF S
<1>2. Len(queue) \in Nat \ {0}
  BY <1>1
<1>3. Tail(queue) \in Seq(S) /\ Len(Tail(queue)) = Len(queue) - 1
  BY <1>1
<1>4. \A i \in 1 .. Len(queue) - 1 : i + 1 \in 1 .. Len(queue) /\ Tail(queue)[i] = queue[i + 1]
  BY <1>1, <1>2
<1>5. \A i \in 1 .. Len(queue) : i = 1 \/ (i - 1 \in 1 .. Len(queue) - 1 /\ i - 1 + 1 = i)
  BY <1>2
<1>6. queue[1] \in S
  BY <1>1, <1>2
<1> QED
  BY <1>2, <1>3, <1>4, <1>5, <1>6 DEF Queues, S

\* Another URL in the queue is still there when the first has been taken.
LEMMA QueuedStays ==
    ASSUME NEW queue \in Queues, queue # <<>>, NEW q, NEW d, Queued(q, queue, d),
           q # PageOf[queue[1][1]]
    PROVE  Queued(q, Tail(queue), d)
<1>1. PICK i \in 1 .. Len(queue) : PageOf[queue[i][1]] = q /\ queue[i][2] = d
  BY DEF Queued
<1>2. i - 1 \in 1 .. Len(Tail(queue)) /\ Tail(queue)[i - 1] = queue[i]
  BY <1>1, TailOfQueue
<1> QED
  BY <1>1, <1>2 DEF Queued

\* The first of the queue is taken and nothing comes of it.
LEMMA WaveDrops ==
    ASSUME NEW n \in Depths, NEW queue \in Queues, NEW seen, NEW fetched \in SUBSET Pages, NEW home,
           Wave(n, queue, seen, fetched, home), queue # <<>>
    PROVE  Wave(n, Tail(queue), seen \cup {PageOf[queue[1][1]]}, fetched, home)
<1> DEFINE rest == Tail(queue)
           now == seen \cup {PageOf[queue[1][1]]}
<1>1. /\ Len(rest) = Len(queue) - 1 /\ Len(queue) \in Nat
      /\ \A i \in 1 .. Len(rest) : i + 1 \in 1 .. Len(queue) /\ rest[i] = queue[i + 1]
  BY TailOfQueue
<1>2. \A q, d : q \notin now /\ Queued(q, queue, d) => Queued(q, rest, d)
  BY QueuedStays
<1> HIDE DEF rest
<1>3. \A i \in 1 .. Len(rest) :
         /\ rest[i][2] \in {CrawlDepth - n, CrawlDepth - n - 1}
         /\ PageOf[rest[i][1]] \in Levels(fetched)[CrawlDepth - rest[i][2]]
  BY <1>1 DEF Wave
<1>4. \A i, j \in 1 .. Len(rest) : i <= j => rest[i][2] >= rest[j][2]
  <2> SUFFICES ASSUME NEW i \in 1 .. Len(rest), NEW j \in 1 .. Len(rest), i <= j
               PROVE  rest[i][2] >= rest[j][2]
    OBVIOUS
  <2>1. i + 1 \in 1 .. Len(queue) /\ j + 1 \in 1 .. Len(queue) /\ i + 1 <= j + 1
    BY <1>1
  <2>2. queue[i + 1][2] >= queue[j + 1][2]
    BY <2>1 DEF Wave
  <2> QED
    BY <1>1, <2>2
<1>5. \A q : q \notin now => q \notin seen
  OBVIOUS
<1> HIDE DEF now
<1>6. n > 0 => Levels(fetched)[n - 1] \cap home \subseteq now
  BY <1>5 DEF Wave
<1>7. \A q \in (Levels(fetched)[n] \cap home) \ now : Queued(q, rest, CrawlDepth - n)
  BY <1>2, <1>5 DEF Wave
<1>8. n < CrawlDepth =>
         \A q \in (LinkedFrom(fetched) \cap home) \ now :
            Queued(q, rest, CrawlDepth - n) \/ Queued(q, rest, CrawlDepth - n - 1)
  BY <1>2, <1>5 DEF Wave
<1>9. fetched \subseteq Levels(fetched)[n]
  BY DEF Wave
<1> QED
  BY <1>3, <1>4, <1>6, <1>7, <1>8, <1>9 DEF Wave, rest, now

\* What a fetched page adds to the queue: its links, one link further.
Adds(more, p, n, seen, home) ==
    /\ more \in Queues
    /\ \A i \in 1 .. Len(more) :
          more[i][2] = CrawlDepth - n - 1 /\ PageOf[more[i][1]] \in LinkedFrom({p})
    /\ n < CrawlDepth =>
          \A q \in (LinkedFrom({p}) \cap home) \ seen : Queued(q, more, CrawlDepth - n - 1)

\* The first of the queue is taken, fetched and followed by its links.
LEMMA WaveFetches ==
    ASSUME NEW n \in Depths, NEW queue \in Queues, NEW seen, NEW fetched \in SUBSET Pages, NEW home,
           Wave(n, queue, seen, fetched, home), queue # <<>>, queue[1][2] = CrawlDepth - n,
           PageOf[queue[1][1]] \in (Pages \cap home) \ seen,
           NEW more, Adds(more, PageOf[queue[1][1]], n, seen \cup {PageOf[queue[1][1]]}, home)
    PROVE  Wave(n, Tail(queue) \o more, seen \cup {PageOf[queue[1][1]]},
                fetched \cup {PageOf[queue[1][1]]}, home)
<1> DEFINE p == PageOf[queue[1][1]]
           now == seen \cup {p}
           rest == Tail(queue)
           all == rest \o more
           got == fetched \cup {p}
<1>1. CrawlDepth \in Nat /\ n \in Nat /\ n <= CrawlDepth /\ got \in SUBSET Pages
  BY CrawlAssumption DEF Depths
<1>2. Wave(n, rest, now, fetched, home)
  BY WaveDrops
<1>3. n > 0 => n - 1 \in Depths /\ p \notin Levels(fetched)[n - 1]
  BY <1>1 DEF Wave, Depths
<1>4. \A m \in 0 .. n : Levels(got)[m] = Levels(fetched)[m]
  BY <1>3, LevelsSame
<1>5. \A m \in Depths : Levels(fetched)[m] \subseteq Levels(got)[m]
  BY <1>1, LevelsGrow
<1>6. p \in Levels(got)[n]
  <2>1. CrawlDepth - queue[1][2] = n /\ 1 \in 1 .. Len(queue)
    BY <1>1, TailOfQueue
  <2>2. p \in Levels(fetched)[n]
    BY <2>1 DEF Wave
  <2>3. n \in 0 .. n
    BY <1>1
  <2> HIDE DEF got, p
  <2> QED
    BY <1>4, <2>2, <2>3
<1>7. LinkedFrom(got) = LinkedFrom(fetched) \cup LinkedFrom({p})
  BY DEF LinkedFrom
<1>8. n < CrawlDepth => LinkedFrom({p}) \subseteq Levels(got)[n + 1]
  <2> SUFFICES ASSUME n < CrawlDepth PROVE LinkedFrom({p}) \subseteq Levels(got)[n + 1]
    OBVIOUS
  <2> DEFINE m == n + 1
  <2>1. m \in 1 .. CrawlDepth /\ m - 1 = n
    BY <1>1
  <2> HIDE DEF m, got
  <2>2. Levels(got)[m] = Levels(got)[m - 1] \cup LinkedFrom(Levels(got)[m - 1] \cap got)
    BY <1>1, <2>1, LevelStep, Zenon
  <2>3. {p} \subseteq Levels(got)[m - 1] \cap got
    BY <1>6, <2>1 DEF got
  <2> QED
    BY <2>2, <2>3, LinkedFromRises DEF m
<1>9. /\ Len(all) = Len(rest) + Len(more) /\ Len(rest) \in Nat /\ Len(more) \in Nat
      /\ \A i \in 1 .. Len(rest) : i \in 1 .. Len(all) /\ all[i] = rest[i]
      /\ \A i \in 1 .. Len(more) : i + Len(rest) \in 1 .. Len(all) /\ all[i + Len(rest)] = more[i]
      /\ \A i \in 1 .. Len(all) :
            \/ i \in 1 .. Len(rest)
            \/ /\ i - Len(rest) \in 1 .. Len(more) /\ i > Len(rest)
               /\ all[i] = more[i - Len(rest)]
  <2> DEFINE S == Urls \X Depths
  <2>1. rest \in Seq(S) /\ more \in Seq(S)
    BY TailOfQueue DEF Adds, Queues
  <2> HIDE DEF S, rest
  <2> QED
    BY <2>1
<1> HIDE DEF rest, all
<1>10. \A q, d : Queued(q, rest, d) \/ Queued(q, more, d) => Queued(q, all, d)
  <2>1. ASSUME NEW q, NEW d, Queued(q, rest, d) PROVE Queued(q, all, d)
    BY <1>9, <2>1 DEF Queued
  <2>2. ASSUME NEW q, NEW d, Queued(q, more, d) PROVE Queued(q, all, d)
    <3>1. PICK i \in 1 .. Len(more) : PageOf[more[i][1]] = q /\ more[i][2] = d
      BY <2>2 DEF Queued
    <3>2. i + Len(rest) \in 1 .. Len(all) /\ all[i + Len(rest)] = more[i]
      BY <1>9
    <3> QED
      BY <3>1, <3>2 DEF Queued
  <2> QED
    BY <2>1, <2>2
<1>11. \A i \in 1 .. Len(more) :
          more[i][2] = CrawlDepth - n - 1 /\ PageOf[more[i][1]] \in LinkedFrom({p})
  BY DEF Adds
<1>12. more # <<>> => n < CrawlDepth
  <2> SUFFICES ASSUME more # <<>> PROVE n < CrawlDepth
    OBVIOUS
  <2>1. 1 \in 1 .. Len(more) /\ more[1][2] \in Depths
    BY DEF Adds, Queues
  <2> QED
    BY <1>1, <1>11, <2>1 DEF Depths
<1>13. ASSUME NEW i \in 1 .. Len(all)
       PROVE  /\ all[i][2] \in {CrawlDepth - n, CrawlDepth - n - 1}
              /\ PageOf[all[i][1]] \in Levels(got)[CrawlDepth - all[i][2]]
  <2>1. CASE i \in 1 .. Len(rest)
    <3>1. /\ all[i] = rest[i] /\ rest[i][2] \in {CrawlDepth - n, CrawlDepth - n - 1}
          /\ PageOf[rest[i][1]] \in Levels(fetched)[CrawlDepth - rest[i][2]]
      BY <1>2, <1>9, <2>1 DEF Wave
    <3>2. rest[i][2] \in Depths
      BY <2>1, TailOfQueue DEF rest, Queues
    <3>3. CrawlDepth - rest[i][2] \in Depths
      BY <1>1, <3>2 DEF Depths
    <3> QED
      BY <1>5, <3>1, <3>3
  <2>2. CASE i \notin 1 .. Len(rest)
    <3> DEFINE j == i - Len(rest)
    <3>1. j \in 1 .. Len(more) /\ all[i] = more[j]
      BY <1>9, <2>2
    <3> HIDE DEF j
    <3>2. more[j][2] = CrawlDepth - n - 1 /\ PageOf[more[j][1]] \in LinkedFrom({p})
      BY <1>11, <3>1
    <3>3. more # <<>> /\ CrawlDepth - (CrawlDepth - n - 1) = n + 1
      BY <1>1, <3>1
    <3> QED
      BY <1>8, <1>12, <3>1, <3>2, <3>3
  <2> QED
    BY <2>1, <2>2
<1>14. ASSUME NEW i \in 1 .. Len(all), NEW j \in 1 .. Len(all), i <= j
       PROVE  all[i][2] >= all[j][2]
  <2>1. all[i][2] \in {CrawlDepth - n, CrawlDepth - n - 1}
    BY <1>13
  <2>2. CASE j \in 1 .. Len(rest)
    <3>1. i \in 1 .. Len(rest)
      BY <1>9, <1>14, <2>2
    <3> QED
      BY <1>2, <1>9, <1>14, <2>2, <3>1 DEF Wave
  <2>3. CASE j \notin 1 .. Len(rest)
    <3>1. all[j][2] = CrawlDepth - n - 1
      BY <1>9, <1>11, <2>3
    <3> QED
      BY <1>1, <2>1, <3>1
  <2> QED
    BY <2>2, <2>3
<1> HIDE DEF got, p
<1>15. got \subseteq Levels(got)[n]
  <2>1. Levels(got)[n] = Levels(fetched)[n]
    BY <1>1, <1>4
  <2> QED
    BY <1>2, <1>6, <2>1 DEF Wave, got
<1>16. n > 0 => Levels(got)[n - 1] \cap home \subseteq now
  <2> SUFFICES ASSUME n > 0 PROVE Levels(got)[n - 1] \cap home \subseteq now
    OBVIOUS
  <2>1. Levels(got)[n - 1] = Levels(fetched)[n - 1]
    BY <1>1, <1>4
  <2> QED
    BY <1>2, <2>1 DEF Wave
<1>17. \A q \in (Levels(got)[n] \cap home) \ now : Queued(q, all, CrawlDepth - n)
  <2>1. Levels(got)[n] = Levels(fetched)[n]
    BY <1>1, <1>4
  <2> QED
    BY <1>2, <1>10, <2>1 DEF Wave
<1>18. n < CrawlDepth =>
          \A q \in (LinkedFrom(got) \cap home) \ now :
             Queued(q, all, CrawlDepth - n) \/ Queued(q, all, CrawlDepth - n - 1)
  <2> SUFFICES ASSUME n < CrawlDepth, NEW q \in (LinkedFrom(got) \cap home) \ now
               PROVE  Queued(q, all, CrawlDepth - n) \/ Queued(q, all, CrawlDepth - n - 1)
    OBVIOUS
  <2>1. CASE q \in LinkedFrom(fetched)
    BY <1>2, <1>10, <2>1 DEF Wave
  <2>2. CASE q \in LinkedFrom({p})
    BY <1>10, <2>2 DEF Adds, p, now
  <2> QED
    BY <1>7, <2>1, <2>2
<1>19. Wave(n, all, now, got, home)
  <2> HIDE DEF now
  <2> QED
    BY <1>13, <1>14, <1>15, <1>16, <1>17, <1>18 DEF Wave
<1> QED
  BY <1>19 DEF all, rest, now, got, p

\* When the queue is empty, what has been fetched is all that should have been.
LEMMA WaveOver ==
    ASSUME NEW n \in Depths, NEW seen, NEW fetched \in SUBSET Pages,
           NEW home \in SUBSET Pages, NEW permitted \in SUBSET Pages,
           Wave(n, <<>>, seen, fetched, home),
           fetched \subseteq (seen \cap home \cap permitted) \ Binary,
           seen \cap home \cap permitted \subseteq fetched \cup Binary
    PROVE  fetched = (Levels(home \cap permitted)[CrawlDepth] \ Binary) \cap home \cap permitted
<1> DEFINE near == Levels(fetched)
           wanted == home \cap permitted
           P == {k \in 0 .. CrawlDepth : near[k] \cap home \subseteq seen}
           Q == {k \in 0 .. CrawlDepth : Levels(wanted)[k] = near[k]}
<1>1. CrawlDepth \in Nat /\ n \in Nat /\ n <= CrawlDepth /\ wanted \in SUBSET Pages
      /\ CrawlDepth \in Depths
  BY CrawlAssumption DEF Depths
<1>2. \A q, d : ~ Queued(q, <<>>, d)
  BY DEF Queued
<1>3. near[n] \cap home \subseteq seen
  BY <1>2 DEF Wave
<1>4. n < CrawlDepth => LinkedFrom(fetched) \cap home \subseteq seen
  BY <1>2 DEF Wave
<1>5. ASSUME NEW k \in Depths, k <= n PROVE near[k] \cap home \subseteq seen
  <2>1. near[k] \subseteq near[n]
    BY <1>1, <1>5, LevelsRise DEF Depths
  <2> QED
    BY <1>3, <2>1
<1>6. ASSUME NEW k \in 1 .. CrawlDepth, k - 1 \in P PROVE k \in P
  <2>1. CASE k <= n
    BY <1>1, <1>5, <2>1 DEF Depths
  <2>2. CASE k > n
    <3>1. near[k] = near[k - 1] \cup LinkedFrom(near[k - 1] \cap fetched)
      BY LevelStep, Zenon
    <3>2. near[k - 1] \cap home \subseteq seen
      BY <1>6
    <3> HIDE DEF near
    <3>3. LinkedFrom(near[k - 1] \cap fetched) \subseteq LinkedFrom(fetched)
      BY LinkedFromRises
    <3>4. n < CrawlDepth /\ k \in 0 .. CrawlDepth
      BY <1>1, <2>2
    <3> QED
      BY <1>4, <3>1, <3>2, <3>3, <3>4
  <2> QED
    BY <1>1, <2>1, <2>2
<1>7. \A k \in 0 .. CrawlDepth : near[k] \cap home \subseteq seen
  <2>1. 0 \in P
    BY <1>1, <1>5 DEF Depths
  <2>2. 0 .. CrawlDepth \subseteq P
    <3> HIDE DEF P
    <3> QED
      BY <1>1, <1>6, <2>1, UpTo
  <2> QED
    BY <2>2
<1>8. ASSUME NEW k \in 1 .. CrawlDepth, k - 1 \in Q PROVE k \in Q
  <2>1. k \in 0 .. CrawlDepth /\ k - 1 \in 0 .. CrawlDepth
    BY <1>1
  <2>2. near[k - 1] \cap home \subseteq seen
    BY <1>7, <2>1
  <2>3. Levels(wanted)[k - 1] = near[k - 1]
    BY <1>8
  <2>4. near[k] = near[k - 1] \cup LinkedFrom(near[k - 1] \cap fetched)
    BY LevelStep, Zenon
  <2>5. Levels(wanted)[k] = Levels(wanted)[k - 1] \cup LinkedFrom(Levels(wanted)[k - 1] \cap wanted)
    BY <1>1, LevelStep, Zenon
  <2> HIDE DEF near
  <2>6. (near[k - 1] \cap wanted) \cap Html = (near[k - 1] \cap fetched) \cap Html
    BY <2>2, CrawlAssumption
  <2>7. LinkedFrom(near[k - 1] \cap wanted) = LinkedFrom(near[k - 1] \cap fetched)
    BY <2>6 DEF LinkedFrom
  <2> QED
    BY <2>1, <2>3, <2>4, <2>5, <2>7
<1>9. Levels(wanted)[CrawlDepth] = near[CrawlDepth]
  <2>1. 0 \in Q
    BY <1>1, LevelsFacts
  <2>2. 0 .. CrawlDepth \subseteq Q
    <3> HIDE DEF Q
    <3> QED
      BY <1>1, <1>8, <2>1, UpTo
  <2>3. CrawlDepth \in 0 .. CrawlDepth
    BY <1>1
  <2> HIDE DEF near, wanted
  <2> QED
    BY <2>2, <2>3
<1>10. near[CrawlDepth] \cap home \subseteq seen
  BY <1>1, <1>7
<1>11. fetched \subseteq near[CrawlDepth]
  <2>1. near[n] \subseteq near[CrawlDepth]
    BY <1>1, LevelsRise
  <2> QED
    BY <2>1 DEF Wave
<1> HIDE DEF near
<1> QED
  BY <1>9, <1>10, <1>11

-----------------------------------------------------------------------------
(* The steps.                                                              *)

\* The head of the frontier, and the crawl without it.
LEMMA HeadOfFrontier ==
    ASSUME TypeOK, crawl.frontier # <<>>
    PROVE  /\ HeadUrl \in Urls /\ HeadPage \in Pages /\ HeadDepth \in Depths
           /\ HostOf[HeadPage] \in Hosts
           /\ Popped \in Crawls
           /\ Popped.pc = crawl.pc /\ Popped.frontier = Tail(crawl.frontier)
           /\ Popped.visited = crawl.visited \cup {HeadPage}
           /\ Popped.got = crawl.got /\ Popped.hosts = crawl.hosts
           /\ Popped.next = crawl.next /\ Popped.clean = crawl.clean
<1>1. crawl \in Crawls /\ crawl.frontier \in Queues
  BY DEF TypeOK, Crawls, Queues
<1>2. Tail(crawl.frontier) \in Queues /\ crawl.frontier[1] \in Urls \X Depths
  BY <1>1, TailOfQueue
<1>3. HeadUrl \in Urls /\ HeadDepth \in Depths
  BY <1>2 DEF HeadUrl, HeadDepth
<1>4. HeadPage \in Pages
  BY <1>3, CrawlAssumption DEF HeadPage
<1>5. HostOf[HeadPage] \in Hosts
  BY <1>4 DEF Hosts
<1>6. Popped = [[crawl EXCEPT !.frontier = Tail(crawl.frontier)]
                    EXCEPT !.visited = crawl.visited \cup {HeadPage}]
  BY <1>1 DEF Popped, Crawls
<1>7. /\ Popped.pc = crawl.pc /\ Popped.frontier = Tail(crawl.frontier)
      /\ Popped.visited = crawl.visited \cup {HeadPage}
      /\ Popped.got = crawl.got /\ Popped.hosts = crawl.hosts
      /\ Popped.next = crawl.next /\ Popped.clean = crawl.clean
  BY <1>1 DEF Popped, Crawls
<1>8. Popped \in Crawls
  <2> HIDE DEF HeadPage
  <2> QED
    BY <1>1, <1>2, <1>4, <1>6 DEF Crawls, Queues
<1> QED
  BY <1>3, <1>4, <1>5, <1>7, <1>8, Zenon

LEMMA RestingType ==
    /\ Resting \in Crawls
    /\ Resting.next = NoTags /\ Resting.got = {} /\ Resting.clean = FALSE
<1>1. NoTags \in [Urls -> Nat] /\ <<>> \in Seq(Urls \X Depths)
  BY DEF NoTags
<1> QED
  BY <1>1 DEF Resting, Crawls

\* A fetched page adds its links that are worth it.
LEMMA Expands ==
    ASSUME TypeOK, NEW n \in Depths, NEW p \in Pages, NEW seen
    PROVE  Adds(Expanded(p, CrawlDepth - n, seen), p, n, seen, Home)
<1> DEFINE links == ExtractLinks(p, seen)
           more == Expanded(p, CrawlDepth - n, seen)
           S == Urls \X Depths
<1>1. CrawlDepth \in Nat /\ n \in Nat /\ n <= CrawlDepth
  BY CrawlAssumption DEF Depths
<1>2. CASE CrawlDepth - n = 0 \/ p \notin Html
  <2>1. more = <<>>
    BY <1>2 DEF Expanded
  <2>2. n < CrawlDepth => LinkedFrom({p}) = {}
    BY <1>1, <1>2 DEF LinkedFrom
  <2>3. <<>> \in Queues /\ 1 .. Len(<<>>) = {}
    BY DEF Queues
  <2>4. Adds(<<>>, p, n, seen, Home)
    BY <2>2, <2>3 DEF Adds
  <2> QED
    BY <2>1, <2>4
<1>3. CASE CrawlDepth - n # 0 /\ p \in Html
  <2> DEFINE d == CrawlDepth - n - 1
             item(i) == <<links[i], d>>
             queue == [i \in 1 .. Len(links) |-> item(i)]
             good == {q \in Pages \ seen : OnSeedHost(q) \/ HostOf[q] = HostOf[p]}
  <2>1. d \in Depths
    BY <1>1, <1>3 DEF Depths
  <2>2. LinksOf[p] \in Seq(Urls)
    BY CrawlAssumption
  <2>3. /\ links \in Seq(Urls)
        /\ \A u : u \in ToSet(links) <=> u \in ToSet(LinksOf[p]) /\ PageOf[u] \in good
    BY <2>2, LinksToKeeps DEF ExtractLinks
  <2>4. more = queue
    BY <1>3 DEF Expanded
  <2> HIDE DEF links, d, good
  <2>5. Len(links) \in Nat /\ \A i \in 1 .. Len(links) : links[i] \in Urls /\ links[i] \in ToSet(links)
    BY <2>3 DEF ToSet
  <2>6. \A i \in 1 .. Len(links) : item(i) \in S /\ item(i)[1] = links[i] /\ item(i)[2] = d
    BY <2>1, <2>5
  <2> HIDE DEF item, S
  <2>7. queue \in Seq(S) /\ Len(queue) = Len(links)
    BY <2>5, <2>6
  <2>8. \A i \in 1 .. Len(links) : queue[i] = item(i)
    OBVIOUS
  <2> HIDE DEF queue
  <2>9. \A u \in ToSet(LinksOf[p]) : PageOf[u] \in LinkedFrom({p})
    BY <1>3 DEF LinkedFrom
  <2>10. ASSUME NEW i \in 1 .. Len(queue)
         PROVE  queue[i][2] = d /\ PageOf[queue[i][1]] \in LinkedFrom({p})
    <3>1. links[i] \in ToSet(LinksOf[p])
      BY <2>3, <2>5, <2>7
    <3> QED
      BY <2>6, <2>7, <2>8, <2>9, <3>1
  <2>11. ASSUME NEW q \in (LinkedFrom({p}) \cap Home) \ seen PROVE Queued(q, queue, d)
    <3>1. PICK u \in ToSet(LinksOf[p]) : PageOf[u] = q
      BY DEF LinkedFrom
    <3>2. q \in good
      BY DEF good, Home
    <3>3. u \in ToSet(links)
      BY <2>3, <3>1, <3>2
    <3>4. PICK i \in 1 .. Len(links) : links[i] = u
      BY <3>3 DEF ToSet
    <3> QED
      BY <2>6, <2>7, <2>8, <3>1, <3>4 DEF Queued
  <2> HIDE DEF more
  <2> QED
    BY <2>4, <2>7, <2>10, <2>11 DEF Adds, Queues, S, d, more
<1> QED
  BY <1>2, <1>3

\* A crawl that has just begun.
LEMMA Starts ==
    ASSUME TypeOK, NEW mapped \in BOOLEAN, StartWith(mapped)
    PROVE  /\ crawl' \in Crawls
           /\ crawl'.frontier = FirstQueue(mapped) /\ crawl'.visited = {} /\ crawl'.got = {}
           /\ crawl'.next = tags /\ crawl'.clean = (mapped /\ tags = NoTags)
<1> DEFINE hosts == {HostOf[PageOf[u]] : u \in ToSet(SeedUrls(mapped))}
           first == FirstQueue(mapped)
           clean == mapped /\ tags = NoTags
<1>1. ToSet(SeedUrls(mapped)) \subseteq Urls
  <2> DEFINE seeds == SeedUrls(mapped)
  <2>1. seeds \in Seq(Urls)
    BY SeedsType
  <2> HIDE DEF seeds
  <2>2. ToSet(seeds) \subseteq Urls
    BY <2>1 DEF ToSet
  <2> QED
    BY <2>2 DEF seeds
<1>2. hosts \subseteq Hosts
  BY <1>1, CrawlAssumption DEF Hosts
<1>3. first \in Queues
  BY FirstQueueType
<1>4. clean \in BOOLEAN
  OBVIOUS
<1>5. crawl' = [pc |-> "crawl", frontier |-> first, visited |-> {}, got |-> {},
                hosts |-> hosts, next |-> tags, clean |-> clean]
  BY DEF StartWith, Resting, FirstQueue
<1> HIDE DEF hosts, first, clean
<1>6. crawl'.frontier = first /\ crawl'.visited = {} /\ crawl'.got = {}
      /\ crawl'.next = tags /\ crawl'.clean = clean
  BY <1>5
<1>7. crawl' \in Crawls
  BY <1>2, <1>3, <1>4, <1>5 DEF Crawls, Queues, TypeOK
<1> QED
  BY <1>6, <1>7 DEF first, clean

\* What a validator is, and that those of a page's contents never go back.
LEMMA Validators ==
    ASSUME NEW p \in Pages
    PROVE  /\ \A v \in 1 .. MaxVersion : Validator(p, v) \in Nat
           /\ \A v, w \in 1 .. MaxVersion : v <= w => Validator(p, v) <= Validator(p, w)
  BY CrawlAssumption, SecondsAssumption DEF Validator

\* The crawl after a document.
LEMMA Fetches ==
    ASSUME TypeOK, FetchOne
    PROVE  /\ crawl' \in Crawls
           /\ crawl'.frontier = Tail(crawl.frontier)
                  \o Expanded(HeadPage, HeadDepth, crawl.visited \cup {HeadPage})
           /\ crawl'.visited = crawl.visited \cup {HeadPage}
           /\ crawl'.got = crawl.got \cup {HeadUrl}
           /\ crawl'.hosts = crawl.hosts
           /\ crawl'.next = MergedTags(HeadUrl, version[HeadPage])
           /\ crawl'.clean = crawl.clean
           /\ pages' \in [Urls -> 0 .. MaxVersion]
<1>1. /\ HeadUrl \in Urls /\ HeadPage \in Pages /\ HeadDepth \in Depths
      /\ Popped \in Crawls
      /\ Popped.frontier = Tail(crawl.frontier)
      /\ Popped.visited = crawl.visited \cup {HeadPage}
      /\ Popped.got = crawl.got /\ Popped.hosts = crawl.hosts /\ Popped.clean = crawl.clean
  BY HeadOfFrontier DEF FetchOne, Crawling
<1> DEFINE more == Expanded(HeadPage, HeadDepth, Popped.visited)
           queue == Popped.frontier \o more
           got == Popped.got \cup {HeadUrl}
           next == MergedTags(HeadUrl, version[HeadPage])
<1>2. version[HeadPage] \in 1 .. MaxVersion /\ crawl.next \in [Urls -> Nat]
  BY <1>1 DEF TypeOK, Crawls
<1>3. next \in [Urls -> Nat]
  <2>1. PageOf[HeadUrl] = HeadPage
    BY DEF HeadPage
  <2>2. Validator(HeadPage, version[HeadPage]) \in Nat
    BY <1>1, <1>2, Validators
  <2> QED
    BY <1>1, <1>2, <2>1, <2>2 DEF MergedTags
<1>4. more \in Queues
  <2> DEFINE n == CrawlDepth - HeadDepth
  <2>1. n \in Depths /\ CrawlDepth - n = HeadDepth
    BY <1>1, CrawlAssumption DEF Depths
  <2> HIDE DEF n
  <2>2. Adds(Expanded(HeadPage, CrawlDepth - n, Popped.visited), HeadPage, n, Popped.visited, Home)
    BY <1>1, <2>1, Expands
  <2> QED
    BY <2>1, <2>2 DEF Adds
<1>5. queue \in Queues
  <2> DEFINE S == Urls \X Depths
  <2>1. Popped.frontier \in Seq(S) /\ more \in Seq(S)
    BY <1>1, <1>4 DEF Crawls, Queues
  <2> HIDE DEF more, S
  <2>2. queue \in Seq(S)
    BY <2>1
  <2> QED
    BY <2>2 DEF S, Queues
<1>6. got \subseteq Urls
  BY <1>1 DEF Crawls
<1>7. crawl' = [[[Popped EXCEPT !.got = got] EXCEPT !.next = next] EXCEPT !.frontier = queue]
  BY <1>1 DEF FetchOne, Crawls
<1> HIDE DEF next, queue, got
<1>8. /\ crawl'.frontier = queue /\ crawl'.visited = Popped.visited /\ crawl'.got = got
      /\ crawl'.hosts = Popped.hosts /\ crawl'.next = next /\ crawl'.clean = Popped.clean
  BY <1>1, <1>7 DEF Crawls
<1>9. crawl' \in Crawls
  BY <1>1, <1>3, <1>5, <1>6, <1>7 DEF Crawls, Queues
<1>10. pages' \in [Urls -> 0 .. MaxVersion]
  BY <1>1, <1>2 DEF FetchOne, TypeOK
<1> QED
  BY <1>1, <1>8, <1>9, <1>10 DEF queue, got, next

\* Every step keeps the types.
LEMMA TypeStep ==
    ASSUME TypeOK, [CrawlNext]_webVars
    PROVE  TypeOK'
<1> USE DEF TypeOK
<1>1. ASSUME NEW p \in Pages, Edit(p) PROVE TypeOK'
  <2>1. version' = [version EXCEPT ![p] = version[p] + 1] /\ version[p] + 1 \in 1 .. MaxVersion
    BY <1>1, CrawlAssumption DEF Edit
  <2>2. version' \in [Pages -> 1 .. MaxVersion]
    BY <2>1
  <2> QED
    BY <1>1, <2>2 DEF Edit
<1>2. CASE StartCrawl
  BY <1>2, Starts DEF StartCrawl, StartWith
<1>3. CASE SitemapFails
  <2>1. StartWith(FALSE)
    BY <1>3 DEF SitemapFails
  <2>2. crawl' \in Crawls
    BY <2>1, Starts
  <2> QED
    BY <1>3, <2>1, <2>2 DEF SitemapFails, StartWith, Mishap
<1>4. CASE Drop
  BY <1>4, HeadOfFrontier DEF Drop, Crawling
<1>5. CASE GetRobots
  BY <1>5, HeadOfFrontier DEF GetRobots, RobotsFor, Crawling
<1>6. CASE RobotsFail
  BY <1>6, HeadOfFrontier DEF RobotsFail, RobotsFor, Crawling, Mishap
<1>7. CASE NothingNew
  BY <1>7, HeadOfFrontier DEF NothingNew, Crawling
<1>8. CASE FetchFails
  <2>1. Popped \in Crawls
    BY <1>8, HeadOfFrontier DEF FetchFails, Crawling
  <2>2. crawl' \in Crawls
    BY <1>8, <2>1 DEF FetchFails, Crawls
  <2> QED
    BY <1>8, <2>2 DEF FetchFails, Mishap
<1>9. CASE FetchOne
  BY <1>9, Fetches DEF FetchOne
<1>10. CASE EndCrawl
  BY <1>10, RestingType DEF EndCrawl, Crawls
<1>11. CASE LoseCrawl
  BY <1>11, RestingType DEF LoseCrawl, Mishap
<1>12. CASE UNCHANGED webVars
  BY <1>12 DEF webVars
<1> QED
  BY <1>1, <1>2, <1>3, <1>4, <1>5, <1>6, <1>7, <1>8, <1>9, <1>10, <1>11, <1>12
     DEF CrawlNext, CrawlStep

\* What a URL without validator says.
LEMMA NoTagStored ==
    ASSUME TypeOK, NEW u \in Urls
    PROVE  NoTags[u] = 0 /\ PageOf[u] \in Pages
  BY CrawlAssumption DEF TypeOK, NoTags

LEMMA TagsStep ==
    ASSUME TagsInv, [CrawlNext]_webVars
    PROVE  TagsInv'
<1>1. TypeOK /\ TypeOK'
  BY TypeStep DEF TagsInv
<1> SUFFICES ASSUME NEW u \in Urls PROVE Stored(u, tags[u])' /\ Stored(u, crawl.next[u])'
  BY <1>1 DEF TagsInv
<1>2. Stored(u, tags[u]) /\ Stored(u, crawl.next[u])
  BY DEF TagsInv
<1>3. /\ PageOf[u] \in Pages /\ version[PageOf[u]] \in Nat \ {0}
      /\ tags[u] \in Nat /\ crawl.next[u] \in Nat
  BY <1>1, CrawlAssumption DEF TypeOK, Crawls
<1>4. ASSUME NEW p \in Pages, Edit(p) PROVE Stored(u, tags[u])' /\ Stored(u, crawl.next[u])'
  <2>1. pages' = pages /\ tags' = tags /\ crawl' = crawl
    BY <1>4 DEF Edit
  <2>0. pages[u] \in Nat
    BY <1>1 DEF TypeOK
  <2>2. version'[PageOf[u]] = IF PageOf[u] = p THEN version[p] + 1 ELSE version[PageOf[u]]
    BY <1>1, <1>3, <1>4 DEF Edit, TypeOK
  <2>3. pages'[u] <= version'[PageOf[u]]
    BY <1>2, <1>3, <2>0, <2>1, <2>2 DEF Stored
  <2> QED
    BY <1>2, <2>1, <2>3 DEF Stored
<1>5. ASSUME NEW mapped \in BOOLEAN, StartWith(mapped)
      PROVE  Stored(u, tags[u])' /\ Stored(u, crawl.next[u])'
  <2>1. crawl'.next = tags
    BY <1>1, <1>5, Starts
  <2> QED
    BY <1>2, <1>5, <2>1 DEF StartWith, Stored
<1>6. ASSUME UNCHANGED <<version, tags, pages>>, crawl'.next = crawl.next
      PROVE  Stored(u, tags[u])' /\ Stored(u, crawl.next[u])'
  BY <1>2, <1>6 DEF Stored
<1>7. CASE Drop
  BY <1>1, <1>6, <1>7, HeadOfFrontier DEF Drop, Crawling
<1>8. CASE GetRobots \/ RobotsFail
  BY <1>6, <1>8 DEF GetRobots, RobotsFail, RobotsFor
<1>9. CASE NothingNew
  BY <1>1, <1>6, <1>9, HeadOfFrontier DEF NothingNew, Crawling
<1>10. CASE FetchFails
  <2>1. Popped \in Crawls /\ Popped.next = crawl.next
    BY <1>1, <1>10, HeadOfFrontier DEF FetchFails, Crawling
  <2>2. crawl'.next = crawl.next
    BY <1>10, <2>1 DEF FetchFails, Crawls
  <2> QED
    BY <1>6, <1>10, <2>2 DEF FetchFails
<1>11. CASE FetchOne
  <2>1. HeadUrl \in Urls /\ HeadPage \in Pages /\ HeadPage = PageOf[HeadUrl]
    BY <1>1, <1>11, HeadOfFrontier DEF FetchOne, Crawling, HeadPage
  <2>2. crawl'.next = MergedTags(HeadUrl, version[HeadPage])
    BY <1>1, <1>11, Fetches
  <2>3. /\ version' = version /\ tags' = tags
        /\ pages'[u] = IF u = HeadUrl THEN version[HeadPage] ELSE pages[u]
    BY <1>1, <1>11, <2>1 DEF FetchOne, TypeOK
  <2>4. crawl'.next[u] = IF u # HeadUrl THEN crawl.next[u]
                         ELSE Validator(HeadPage, version[HeadPage])
    BY <1>1, <2>1, <2>2 DEF MergedTags, TypeOK, Crawls
  <2>5. CASE u # HeadUrl
    BY <1>2, <2>3, <2>4, <2>5 DEF Stored
  <2>6. CASE u = HeadUrl
    <3>1. pages'[u] = version[PageOf[u]] /\ pages[u] \in Nat /\ pages[u] <= version[PageOf[u]]
      BY <1>1, <1>2, <2>1, <2>3, <2>6 DEF Stored, TypeOK
    <3>2. 1 .. pages[u] \subseteq 1 .. pages'[u] /\ version[PageOf[u]] \in 1 .. pages'[u]
      BY <1>3, <3>1
    <3> QED
      BY <1>2, <1>3, <2>1, <2>3, <2>4, <2>6, <3>1, <3>2 DEF Stored
  <2> QED
    BY <2>5, <2>6
<1>12. CASE EndCrawl
  <2>1. crawl'.next[u] = 0 /\ tags' = crawl.next /\ UNCHANGED <<version, pages>>
    BY <1>1, <1>12, RestingType, NoTagStored DEF EndCrawl
  <2> QED
    BY <1>2, <2>1 DEF Stored
<1>13. CASE LoseCrawl
  <2>1. crawl'.next[u] = 0 /\ UNCHANGED <<tags, version, pages>>
    BY <1>1, <1>13, RestingType, NoTagStored DEF LoseCrawl
  <2> QED
    BY <1>2, <2>1 DEF Stored
<1>14. CASE UNCHANGED webVars
  BY <1>6, <1>14 DEF webVars
<1> QED
  BY <1>4, <1>5, <1>7, <1>8, <1>9, <1>10, <1>11, <1>12, <1>13, <1>14
     DEF CrawlNext, CrawlStep, StartCrawl, SitemapFails

\* What was fetched stays fetched once, through every step.
LEMMA FetchedStep ==
    ASSUME TypeOK, FetchedOnce, [CrawlNext]_webVars
    PROVE  FetchedOnce'
<1>1. crawl \in Crawls /\ crawl.got \subseteq Urls
  BY DEF TypeOK, Crawls
<1>2. ASSUME crawl'.got = {} PROVE FetchedOnce'
  BY <1>2 DEF FetchedOnce, Fetched
<1>3. ASSUME crawl'.got = crawl.got, crawl.visited \subseteq crawl'.visited,
             crawl'.hosts = crawl.hosts, robots' = robots
      PROVE  FetchedOnce'
  <2>1. Fetched' = Fetched /\ Home' = Home /\ Permitted' = Permitted
    BY <1>3 DEF Fetched, Home, Permitted, OnSeedHost, Allowed
  <2> QED
    BY <1>3, <2>1 DEF FetchedOnce
<1>4. ASSUME NEW p \in Pages, Edit(p) PROVE FetchedOnce'
  BY <1>3, <1>4 DEF Edit
<1>5. ASSUME NEW mapped \in BOOLEAN, StartWith(mapped) PROVE FetchedOnce'
  BY <1>2, <1>5, Starts
<1>6. CASE Drop
  BY <1>3, <1>6, HeadOfFrontier DEF Drop, Crawling
<1>7. ASSUME NEW answer, RobotsFor(answer), answer # "unknown" PROVE FetchedOnce'
  <2>1. crawl' = crawl /\ robots' = [robots EXCEPT ![HostOf[HeadPage]] = answer]
        /\ robots[HostOf[HeadPage]] = "unknown" /\ DOMAIN robots = Hosts
    BY <1>7 DEF RobotsFor, TypeOK
  <2>2. Fetched' = Fetched /\ Home' = Home
    BY <2>1 DEF Fetched, Home, OnSeedHost
  <2>3. \A p \in Fetched : p \in Pages /\ HostOf[p] \in Hosts
    BY DEF FetchedOnce, Permitted, Hosts
  <2>4. \A p \in Fetched : robots'[HostOf[p]] = robots[HostOf[p]]
    BY <2>1, <2>3 DEF FetchedOnce
  <2>5. \A p \in Fetched : p \in Permitted'
    BY <2>3, <2>4 DEF FetchedOnce, Permitted, Allowed
  <2> QED
    BY <2>1, <2>2, <2>4, <2>5 DEF FetchedOnce
<1>8. CASE NothingNew
  BY <1>3, <1>8, HeadOfFrontier DEF NothingNew, Crawling
<1>9. CASE FetchFails
  <2>1. Popped \in Crawls /\ Popped.got = crawl.got /\ Popped.hosts = crawl.hosts
        /\ Popped.visited = crawl.visited \cup {HeadPage}
    BY <1>9, HeadOfFrontier DEF FetchFails, Crawling
  <2>2. crawl'.got = Popped.got /\ crawl'.hosts = Popped.hosts /\ crawl'.visited = Popped.visited
    BY <1>9, <2>1 DEF FetchFails, Crawls
  <2> QED
    BY <1>3, <1>9, <2>1, <2>2 DEF FetchFails
<1>10. CASE FetchOne
  <2>1. HeadUrl \in Urls /\ HeadPage \in Pages /\ HeadPage = PageOf[HeadUrl]
    BY <1>10, HeadOfFrontier DEF FetchOne, Crawling, HeadPage
  <2>2. /\ crawl'.visited = crawl.visited \cup {HeadPage}
        /\ crawl'.got = crawl.got \cup {HeadUrl}
        /\ crawl'.hosts = crawl.hosts /\ robots' = robots
    BY <1>10, Fetches DEF FetchOne
  <2>3. Fetched' = Fetched \cup {HeadPage} /\ Home' = Home /\ Permitted' = Permitted
    BY <2>1, <2>2 DEF Fetched, Home, Permitted, OnSeedHost, Allowed
  <2>4. /\ HeadPage \in (Home \cap Permitted) \ Binary /\ HeadPage \notin crawl.visited
        /\ robots[HostOf[HeadPage]] # "unknown"
    BY <1>10, <2>1 DEF FetchOne, Candidate, Known, Home, Permitted
  <2>5. \A v \in crawl.got : PageOf[v] # HeadPage
    BY <2>4 DEF FetchedOnce, Fetched
  <2>6. \A u, v \in crawl'.got : PageOf[u] = PageOf[v] => u = v
    BY <2>1, <2>2, <2>5 DEF FetchedOnce
  <2> QED
    BY <2>2, <2>3, <2>4, <2>6 DEF FetchedOnce
<1>11. CASE EndCrawl \/ LoseCrawl
  BY <1>2, <1>11, RestingType DEF EndCrawl, LoseCrawl
<1>12. CASE UNCHANGED webVars
  BY <1>3, <1>12 DEF webVars
<1> QED
  BY <1>4, <1>5, <1>6, <1>7, <1>8, <1>9, <1>10, <1>11, <1>12
     DEF CrawlNext, CrawlStep, StartCrawl, SitemapFails, GetRobots, RobotsFail

\* The crawl stays on its wave as long as nothing it does forgets a page.
LEMMA CleanStep ==
    ASSUME TagsInv, FetchedOnce, CleanInv, [CrawlNext]_webVars
    PROVE  CleanInv'
<1> DEFINE AtWave(n) == Wave(n, crawl.frontier, crawl.visited, Fetched, Home)
<1>1. /\ TypeOK /\ crawl \in Crawls /\ crawl.frontier \in Queues
      /\ crawl.got \subseteq Urls /\ CrawlDepth \in Nat /\ Fetched \in SUBSET Pages
  BY CrawlAssumption DEF TagsInv, TypeOK, Crawls, Queues, Fetched
<1>2. ASSUME crawl'.clean = FALSE PROVE CleanInv'
  BY <1>2 DEF CleanInv
<1>3. ASSUME UNCHANGED <<tags, crawl>>, Permitted' \subseteq Permitted PROVE CleanInv'
  <2>1. Fetched' = Fetched /\ Home' = Home
    BY <1>3 DEF Fetched, Home, OnSeedHost
  <2> QED
    BY <1>3, <2>1 DEF CleanInv, NonePassedOver
<1>4. ASSUME crawl' = Popped, UNCHANGED <<robots, tags>>, crawl.frontier # <<>>,
             crawl.clean =>
                HeadPage \in crawl.visited \/ HeadPage \notin Home \cap Permitted \/ HeadPage \in Binary
      PROVE  CleanInv'
  <2> SUFFICES ASSUME crawl'.clean PROVE CleanInv'
    BY DEF CleanInv
  <2>1. /\ crawl'.frontier = Tail(crawl.frontier)
        /\ crawl'.visited = crawl.visited \cup {HeadPage}
        /\ crawl'.got = crawl.got /\ crawl'.hosts = crawl.hosts /\ crawl.clean
    BY <1>1, <1>4, HeadOfFrontier
  <2>2. Fetched' = Fetched /\ Home' = Home /\ Permitted' = Permitted
    BY <1>4, <2>1 DEF Fetched, Home, Permitted, OnSeedHost, Allowed
  <2>3. PICK n \in Depths : AtWave(n)
    BY <2>1 DEF CleanInv
  <2>4. Wave(n, Tail(crawl.frontier), crawl.visited \cup {HeadPage}, Fetched, Home)
    BY <1>1, <1>4, <2>3, WaveDrops DEF HeadPage, HeadUrl
  <2>5. NonePassedOver'
    BY <1>4, <2>1, <2>2 DEF CleanInv, NonePassedOver
  <2> QED
    BY <1>4, <2>1, <2>2, <2>4, <2>5 DEF CleanInv
<1>5. ASSUME NEW p \in Pages, Edit(p) PROVE CleanInv'
  BY <1>3, <1>5 DEF Edit, Permitted, Allowed
<1>6. CASE StartCrawl
  <2> SUFFICES ASSUME crawl'.clean PROVE CleanInv'
    BY DEF CleanInv
  <2>1. /\ crawl'.frontier = FirstQueue(TRUE) /\ crawl'.visited = {} /\ crawl'.got = {}
        /\ tags = NoTags /\ tags' = tags
    BY <1>1, <1>6, Starts DEF StartCrawl, StartWith
  <2>2. Fetched' = {}
    BY <2>1 DEF Fetched
  <2>3. Wave(0, FirstQueue(TRUE), {}, {}, Home')
    <3> DEFINE home == Home'
    <3> HIDE DEF home
    <3>1. Wave(0, FirstQueue(TRUE), {}, {}, home)
      BY WaveStarts
    <3> QED
      BY <3>1 DEF home
  <2>4. NonePassedOver'
    BY <2>1 DEF NonePassedOver
  <2> QED
    <3>1. \E n \in Depths : Wave(n, crawl'.frontier, crawl'.visited, Fetched', Home')
      <4>1. 0 \in Depths
        BY <1>1 DEF Depths
      <4> QED
        BY <2>1, <2>2, <2>3, <4>1, Zenon
    <3> QED
      BY <2>1, <2>4, <3>1 DEF CleanInv
<1>7. CASE SitemapFails
  BY <1>1, <1>2, <1>7, Starts DEF SitemapFails
<1>8. CASE Drop
  BY <1>4, <1>8 DEF Drop, Crawling, Candidate, Home
<1>9. ASSUME NEW answer, RobotsFor(answer) PROVE CleanInv'
  <2>1. robots[HostOf[HeadPage]] = "unknown" /\ robots \in [Hosts -> {"unknown", "rules", "none"}]
        /\ robots' = [robots EXCEPT ![HostOf[HeadPage]] = answer] /\ UNCHANGED <<tags, crawl>>
    BY <1>1, <1>9 DEF RobotsFor, TypeOK
  <2>2. ASSUME NEW p \in Pages, Allowed(p)' PROVE Allowed(p)
    <3>1. HostOf[p] \in Hosts
      BY DEF Hosts
    <3> QED
      BY <2>1, <2>2, <3>1 DEF Allowed
  <2>3. Permitted' \subseteq Permitted
    BY <2>2 DEF Permitted
  <2> QED
    BY <1>3, <2>1, <2>3
<1>10. CASE NothingNew
  <2>1. HeadUrl \in Urls
    BY <1>1, <1>10, HeadOfFrontier DEF NothingNew, Crawling
  <2>2. crawl.clean => ~NotModified
    BY <2>1 DEF CleanInv, NoTags, NotModified
  <2> QED
    BY <1>4, <1>10, <2>2 DEF NothingNew, Crawling, Permitted
<1>11. CASE FetchFails
  <2>1. Popped \in Crawls
    BY <1>1, <1>11, HeadOfFrontier DEF FetchFails, Crawling
  <2>2. crawl'.clean = FALSE
    BY <1>11, <2>1 DEF FetchFails, Crawls
  <2> QED
    BY <1>2, <2>2
<1>12. CASE FetchOne
  <2> SUFFICES ASSUME crawl'.clean PROVE CleanInv'
    BY DEF CleanInv
  <2>1. /\ HeadUrl \in Urls /\ HeadPage \in Pages /\ HeadDepth \in Depths
        /\ crawl.frontier # <<>> /\ HeadPage = PageOf[crawl.frontier[1][1]]
        /\ HeadDepth = crawl.frontier[1][2] /\ HeadPage = PageOf[HeadUrl]
        /\ HeadPage \in (Pages \cap Home) \ crawl.visited
    BY <1>1, <1>12, HeadOfFrontier
       DEF FetchOne, Crawling, Candidate, Home, HeadPage, HeadUrl, HeadDepth
  <2> DEFINE now == crawl.visited \cup {HeadPage}
             more == Expanded(HeadPage, HeadDepth, now)
  <2>2. /\ crawl'.frontier = Tail(crawl.frontier) \o more
        /\ crawl'.visited = now /\ crawl'.got = crawl.got \cup {HeadUrl}
        /\ crawl'.hosts = crawl.hosts /\ crawl.clean
        /\ robots' = robots /\ tags' = tags
    BY <1>1, <1>12, Fetches DEF FetchOne
  <2>3. Fetched' = Fetched \cup {HeadPage} /\ Home' = Home /\ Permitted' = Permitted
    BY <2>1, <2>2 DEF Fetched, Home, Permitted, OnSeedHost, Allowed
  <2>4. PICK n \in Depths : AtWave(n) /\ HeadDepth = CrawlDepth - n
    <3>1. PICK n \in Depths : AtWave(n)
      BY <2>2 DEF CleanInv
    <3>2. CASE HeadDepth = CrawlDepth - n
      BY <3>1, <3>2
    <3>3. CASE HeadDepth # CrawlDepth - n
      <4>1. n + 1 \in Depths /\ AtWave(n + 1)
        BY <1>1, <2>1, <3>1, <3>3, WaveTurns
      <4>2. 1 \in 1 .. Len(crawl.frontier)
        BY <1>1, <2>1, TailOfQueue
      <4>3. HeadDepth \in {CrawlDepth - n, CrawlDepth - n - 1}
        BY <2>1, <3>1, <4>2 DEF Wave
      <4>4. HeadDepth = CrawlDepth - (n + 1)
        BY <1>1, <3>3, <4>3 DEF Depths
      <4> QED
        BY <4>1, <4>4
    <3> QED
      BY <3>2, <3>3
  <2>5. Adds(more, HeadPage, n, now, Home)
    BY <1>1, <2>1, <2>4, Expands
  <2> HIDE DEF more
  <2>6. Wave(n, Tail(crawl.frontier) \o more, now, Fetched \cup {HeadPage}, Home)
    BY <1>1, <2>1, <2>4, <2>5, WaveFetches
  <2>7. NonePassedOver'
    BY <2>2, <2>3 DEF CleanInv, NonePassedOver
  <2> QED
    BY <2>2, <2>3, <2>6, <2>7 DEF CleanInv
<1>13. CASE EndCrawl \/ LoseCrawl
  BY <1>2, <1>13, RestingType DEF EndCrawl, LoseCrawl
<1>14. CASE UNCHANGED webVars
  BY <1>3, <1>14 DEF webVars, Permitted, Allowed
<1> QED
  BY <1>5, <1>6, <1>7, <1>8, <1>9, <1>10, <1>11, <1>12, <1>13, <1>14
     DEF CrawlNext, CrawlStep, GetRobots, RobotsFail

\* The invariant of the crawl: the types, whose content every validator is, what has
\* been fetched, and how far a first crawl that nothing disturbed has come.
THEOREM CrawlInvariant == CrawlSpec => []CrawlInv
<1>1. CrawlInit => CrawlInv
  <2> SUFFICES ASSUME CrawlInit PROVE CrawlInv
    OBVIOUS
  <2>1. TypeOK
    BY RestingType, CrawlAssumption DEF CrawlInit, TypeOK, Hosts, NoTags
  <2>2. crawl.next = NoTags /\ crawl.got = {} /\ crawl.clean = FALSE /\ tags = NoTags
    BY RestingType DEF CrawlInit
  <2>3. TagsInv
    <3> SUFFICES ASSUME NEW u \in Urls PROVE Stored(u, tags[u]) /\ Stored(u, crawl.next[u])
      BY <2>1 DEF TagsInv
    <3>1. pages[u] = 0 /\ tags[u] = 0 /\ crawl.next[u] = 0 /\ version[PageOf[u]] = 1
      BY <2>1, <2>2, NoTagStored DEF CrawlInit, NoTags
    <3> QED
      BY <3>1 DEF Stored
  <2>4. FetchedOnce /\ CleanInv
    BY <2>2 DEF FetchedOnce, Fetched, CleanInv
  <2> QED
    BY <2>3, <2>4 DEF CrawlInv
<1>2. CrawlInv /\ [CrawlNext]_webVars => CrawlInv'
  <2> SUFFICES ASSUME CrawlInv, [CrawlNext]_webVars PROVE CrawlInv'
    OBVIOUS
  <2>1. TypeOK /\ TagsInv /\ FetchedOnce /\ CleanInv
    BY DEF CrawlInv, TagsInv
  <2>2. TagsInv'
    BY <2>1, TagsStep
  <2>3. FetchedOnce'
    BY <2>1, FetchedStep
  <2>4. CleanInv'
    BY <2>1, CleanStep
  <2> QED
    BY <2>2, <2>3, <2>4 DEF CrawlInv
<1> QED
  BY <1>1, <1>2, PTL DEF CrawlSpec

\* A first crawl that no failure and no page limit cut short brings exactly the
\* text pages within crawl_depth links of a seed that hosts and robots.txt
\* permit, each once, whatever the links between the pages are.
THEOREM FirstCrawlComplete == CrawlSpec => []FirstCrawlIsComplete
<1>1. CrawlInv => FirstCrawlIsComplete
  <2> SUFFICES ASSUME CrawlInv, Over, crawl.clean, crawl.frontier = <<>>
               PROVE  /\ Fetched = {p \in WithinLinks \ Binary : Allowed(p) /\ OnSeedHost(p)}
                      /\ \A u, v \in crawl.got : PageOf[u] = PageOf[v] => u = v
    BY DEF FirstCrawlIsComplete, Fetched
  <2> DEFINE wanted == Home \cap Permitted
  <2>1. Fetched \in SUBSET Pages /\ Home \in SUBSET Pages /\ Permitted \in SUBSET Pages
    BY CrawlAssumption DEF CrawlInv, TagsInv, TypeOK, Crawls, Fetched, Home, Permitted
  <2>2. PICK n \in Depths : Wave(n, <<>>, crawl.visited, Fetched, Home)
    BY DEF CrawlInv, CleanInv
  <2>3. /\ Fetched \subseteq (crawl.visited \cap Home \cap Permitted) \ Binary
        /\ crawl.visited \cap Home \cap Permitted \subseteq Fetched \cup Binary
        /\ \A u, v \in crawl.got : PageOf[u] = PageOf[v] => u = v
    BY DEF CrawlInv, CleanInv, FetchedOnce, NonePassedOver
  <2>4. Fetched = (Levels(wanted)[CrawlDepth] \ Binary) \cap Home \cap Permitted
    BY <2>1, <2>2, <2>3, WaveOver
  <2>5. {p \in Pages : Allowed(p) /\ OnSeedHost(p)} = wanted
    BY DEF Home, Permitted
  <2>6. WithinLinks = Levels(wanted)[CrawlDepth]
    BY <2>5 DEF WithinLinks
  <2>7. \A p : p \in wanted <=> p \in Pages /\ Allowed(p) /\ OnSeedHost(p)
    BY DEF Home, Permitted
  <2>8. WithinLinks \subseteq Pages
    <3>1. wanted \in SUBSET Pages /\ CrawlDepth \in Depths
      BY <2>1, CrawlAssumption DEF Depths
    <3> HIDE DEF wanted
    <3>2. Levels(wanted) \in [Depths -> SUBSET Pages]
      BY <3>1, LevelsFacts
    <3> QED
      BY <2>6, <3>1, <3>2
  <2> QED
    BY <2>3, <2>4, <2>6, <2>7, <2>8
<1> QED
  BY <1>1, CrawlInvariant, PTL

\* A page that the persisted or the running cursor would have answered with 304
\* is in the target in a content with the validator of the present one, through
\* any edits, failures and restarts: its content now if it has an ETag, one of
\* the same Last-Modified second otherwise.
THEOREM UnmodifiedStored == CrawlSpec => []UnmodifiedIsStored
<1>1. CrawlInv => UnmodifiedIsStored
  <2> SUFFICES ASSUME CrawlInv, NEW u \in Urls, NEW now, now # 0,
                      now = Validator(PageOf[u], version[PageOf[u]]),
                      now \in {tags[u], crawl.next[u]}
               PROVE  pages[u] # 0 /\ Validator(PageOf[u], pages[u]) = now
    BY DEF UnmodifiedIsStored
  <2>1. PageOf[u] \in Pages /\ version[PageOf[u]] \in 1 .. MaxVersion
        /\ pages[u] \in 0 .. MaxVersion
    BY CrawlAssumption DEF CrawlInv, TagsInv, TypeOK
  <2>2. Stored(u, now)
    BY DEF CrawlInv, TagsInv
  <2>3. PICK v \in 1 .. pages[u] : now = Validator(PageOf[u], v)
    BY <2>2 DEF Stored
  <2>4. /\ v \in 1 .. MaxVersion /\ pages[u] \in 1 .. MaxVersion /\ v <= pages[u]
        /\ pages[u] <= version[PageOf[u]]
    BY <2>1, <2>2, <2>3, CrawlAssumption DEF Stored
  <2>5. /\ Validator(PageOf[u], v) <= Validator(PageOf[u], pages[u])
        /\ Validator(PageOf[u], pages[u]) <= Validator(PageOf[u], version[PageOf[u]])
        /\ Validator(PageOf[u], v) \in Nat /\ Validator(PageOf[u], pages[u]) \in Nat
    BY <2>1, <2>4, Validators
  <2> QED
    BY <2>3, <2>4, <2>5
<1> QED
  BY <1>1, CrawlInvariant, PTL
=============================================================================
