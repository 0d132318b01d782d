------------------------- MODULE RemoteSourcesProofs -------------------------
(***************************************************************************)
(* Proofs about RemoteSources, for every kind of source, any items and any *)
(* number of changes and failures.                                         *)
(***************************************************************************)
EXTENDS RemoteSources, WellFoundedInduction, TLAPS

\* The world the theorems are about: none of the hazards, and a consumer that
\* persists the cursor at each document only where the source permits it.
Orderly == Hazards = {} /\ PerDocument \subseteq {"table"} \cup Maps

USE DEF Notion

-----------------------------------------------------------------------------
(* Numbers.                                                                *)

\* Minutes are numbered like positions, and no position precedes its minute.
LEMMA MinuteFacts ==
    ASSUME NEW p \in Nat
    PROVE  Minute(p) \in Nat /\ Minute(p) <= p /\ (p > 0 => Minute(p) > 0)
<1> DEFINE a == p + Rough - 1
           m == a \div Rough
<1>1. Rough \in Nat \ {0}
  BY SourcesAssumption, Zenon
<1>2. Rough \in Nat \ {0} /\ a \in Nat /\ a >= Rough - 1 /\ (p > 0 => a >= Rough)
  BY <1>1
<1>3. m \in Int /\ m * Rough <= a /\ a < (m + 1) * Rough
  <2> HIDE DEF a
  <2> QED
    BY <1>2
<1> QED
  BY <1>2, <1>3 DEF Minute

-----------------------------------------------------------------------------
(* The invariants.                                                         *)

Commits == IF kind \in Git THEN Seq(Events) ELSE Positions
Syncs == [pc : {"idle", "list", "emit"}, at : Commits, todo : SUBSET Entries, next : Cursors]

Typed ==
    /\ kind \in Kinds
    /\ log \in Seq(Events) /\ Len(log) <= MaxLog /\ open \subseteq 1 .. Len(log)
    /\ saved \in Cursors /\ sync \in Syncs
    /\ sync.pc # "emit" => sync.todo = {}
    /\ sync.pc = "list" => kind \in {"drive", "gitlab"}
    /\ target \in [Items -> Positions]
    /\ settled \in BOOLEAN /\ faults \in 0 .. MaxFaults

\* Contents are numbered by their place in the log; only tables have open
\* transactions; a message is posted once and a reply belongs to a message.
LogInv ==
    /\ \A p \in 1 .. Len(log) : log[p].data \in {Gone, p}
    /\ kind = "table" \/ open = {}
    /\ kind = "slack" => \A p \in 1 .. Len(log) :
          /\ log[p].data = p /\ LastOf(log, log[p].item) = p /\ log[p].item \notin Unwanted
          /\ log[p].parent # 0 => log[p].parent \in 1 .. p - 1 /\ log[log[p].parent].parent = 0

Counted == {"table", "drive", "dropbox", "slack"} \cup Notion \cup Git

\* What a cursor or a position stands for, as a number ...
Reach(c) == IF kind \in Git THEN Len(c) ELSE c

\* ... and how far it must reach to speak for what item i is now.
Stamp(i) ==
    LET p == LastOf(log, i)
    IN CASE kind \in Notion -> Minute(p)
         [] kind = "slack" /\ p # 0 /\ log[p].parent # 0 -> log[p].parent
         [] OTHER -> p

Wanted(i) == i \in Live(log) \ Unwanted

\* The persisted cursor speaks for what was written only.
SavedInv ==
    kind \in Counted =>
        /\ \A i \in Items : Wanted(i) /\ Stamp(i) <= Reach(saved) => Current(i)
        /\ kind \notin Notion => Reach(saved) <= Len(log)
        /\ \A p \in open : p > saved

\* An item will be written, or the message it replies to, which brings it.
Coming(i) ==
    \E e \in sync.todo :
        \/ e.item = i
        \/ kind = "slack" /\ log[LastOf(log, i)].parent = e.pos

\* Every item that the running cursor could speak for is written or coming.
FlightInv ==
    kind \in Counted /\ sync.pc # "idle" =>
        /\ Reach(saved) <= Reach(sync.at) /\ Reach(sync.next) <= Reach(sync.at)
        /\ kind \notin Notion => Reach(sync.at) <= Len(log)
        /\ \A p \in open : p > sync.at
        /\ kind = "slack" => \A p \in 1 .. Len(log) : log[p].parent # 0 => p <= sync.at
        /\ sync.pc = "list" => sync.next = saved /\ Reach(saved) = 0
        /\ sync.pc = "emit" => \A i \in Items :
              Wanted(i) /\ Stamp(i) <= Reach(sync.at) => Current(i) \/ Coming(i)

\* What was listed is still so, unless the item has changed since.
TodoInv ==
    \A e \in sync.todo :
        /\ e.replies => kind = "slack"
        /\ /\ kind \in {"table", "slack"} \cup Notion
              /\ e.item \in Live(log) /\ Stamp(e.item) <= sync.at
           => e.data \in {Unread, DataIn(log, e.item)}
        /\ kind \in {"rss", "table", "s3", "slack"} \cup Git => e.data # Unread
        /\ kind = "table" =>
              /\ e.pos > sync.next /\ e.pos <= sync.at /\ e.thread = e.pos /\ ~e.replies
              /\ log[e.pos].item = e.item /\ log[e.pos].data = e.data
              /\ LastOf(log, e.item) <= sync.at => e.pos = LastOf(log, e.item)
        /\ kind = "slack" =>
              /\ e.item \in Live(log) /\ e.pos = LastOf(log, e.item) /\ e.pos <= sync.at
              /\ e.replies = (Replies(e.pos) # {})

\* page_ids: as long as some page is to be fetched, whatever the cursor may
\* come to speak for is written or coming, and what was read is still so.
FetchInv ==
    kind = "notion_ids" =>
        /\ \A e \in sync.todo : e.pos = 0 => e.data = Unread
        /\ Fetching =>
              /\ sync.next = saved
              /\ \A i \in Items : Wanted(i) => Current(i) \/ Coming(i)
              /\ \A e \in sync.todo : e.item \in Live(log) => e.data \in {Unread, DataIn(log, e.item)}

\* GitHub and GitLab: cursors are commits of the branch.
GitInv ==
    kind \in Git =>
        /\ Len(saved) <= Len(log) /\ saved = SubSeq(log, 1, Len(saved))
        /\ sync.pc # "idle" => /\ Len(sync.at) <= Len(log)
                               /\ sync.at = SubSeq(log, 1, Len(sync.at))
                               /\ sync.next \in {saved, sync.at}

\* S3 and Drive's file_ids: what the cursor has of an item is no newer than
\* what was written, nor that than the item.
MapsInv ==
    kind \in Maps =>
        /\ \A i \in Items : /\ saved[i] <= target[i] /\ target[i] <= LastOf(log, i)
                            /\ sync.pc # "idle" => sync.next[i] <= target[i]
        /\ \A e \in sync.todo : (IF kind = "s3" THEN e.data ELSE e.pos) <= LastOf(log, e.item)

SyncInv == Typed /\ LogInv /\ SavedInv /\ FlightInv /\ TodoInv /\ FetchInv /\ GitInv /\ MapsInv

-----------------------------------------------------------------------------
(* A sync that nothing disturbs.                                           *)

\* What the sync has listed is what there is, and the running cursor speaks
\* for what it has passed.
CalmInv ==
    settled /\ sync.pc # "idle" =>
        /\ open = {}
        /\ kind \in Git => sync.at = log
        /\ kind \in {"table", "drive", "dropbox", "slack"} => sync.at = Len(log)
        /\ kind = "notion" => \A i \in Live(log) \ Unwanted : Minute(LastOf(log, i)) <= sync.at
        /\ kind = "notion_ids" =>
              /\ \A i \in Live(log) \ Unwanted : \/ Minute(LastOf(log, i)) <= sync.at
                                                 \/ \E e \in sync.todo : e.item = i /\ e.pos = 0
              /\ \/ sync.next = sync.at /\ ~ Fetching
                 \/ /\ sync.next = saved
                    /\ \A i \in Changed(saved) \ Left : \E e \in sync.todo : e.item = i
        /\ kind \in {"drive", "dropbox", "notion"} \cup Git =>
              \/ sync.next = sync.at
              \/ /\ sync.next = saved
                 /\ sync.pc = "emit" => {e.item : e \in sync.todo} = Changed(saved) \ Left
        /\ kind = "table" => \A i \in Live(log) :
              LastOf(log, i) <= sync.next \/ \E e \in sync.todo : e.item = i
        /\ kind = "s3" =>
              /\ \A e \in sync.todo : e.data = DataIn(log, e.item)
              /\ \A i \in Live(log) \ Unwanted :
                    sync.next[i] = DataIn(log, i) \/ \E e \in sync.todo : e.item = i
        /\ kind = "drive_ids" =>
              /\ \A e \in sync.todo : e.pos \in {0, LastOf(log, e.item)}
              /\ \A i \in Items : sync.next[i] \in {saved[i], LastOf(log, i)}
              /\ \A i \in Live(log) \ Unwanted :
                    sync.next[i] = LastOf(log, i) \/ \E e \in sync.todo : e.item = i
        /\ kind = "slack" =>
              /\ \A e \in sync.todo : e.thread <= e.pos
              /\ \A p \in 1 .. Len(log) : log[p].parent = 0 =>
                    \/ \E e \in sync.todo : e.pos = p /\ e.thread = p
                    \/ p <= sync.next /\ \A f \in sync.todo : p <= f.thread

SettledInv == CalmInv /\ SettledIsDone

-----------------------------------------------------------------------------
(* The largest of a set, and what a history says of an item.               *)

\* Every set of numbers with a bound that has a member has a largest one.
LEMMA BoundedMax ==
    ASSUME NEW b \in Nat, NEW S \in SUBSET (0 .. b), S # {}
    PROVE  Max(S) \in S /\ \A y \in S : y <= Max(S)
<1> DEFINE R == OpToRel(<, Nat)
           T == {b - x : x \in S}
<1>1. IsWellFoundedOn(R, Nat)
  BY NatLessThanWellFounded
<1>2. R = {ss \in Nat \X Nat : ss[1] < ss[2]}
  BY DEF OpToRel
<1>3. T \in SUBSET Nat /\ T # {}
  <2>1. PICK x \in S : TRUE
    OBVIOUS
  <2>2. b - x \in T
    BY <2>1
  <2>3. \A y \in S : b - y \in Nat
    OBVIOUS
  <2> QED
    BY <2>2, <2>3
<1>4. PICK t \in T : \A y \in T : ~ (<<y, t>> \in R)
  <2> HIDE DEF R, T
  <2> QED
    BY <1>1, <1>3, WFMin
<1>5. \A y \in T : ~ (y < t)
  BY <1>2, <1>3, <1>4
<1>6. PICK x \in S : t = b - x
  OBVIOUS
<1>7. \A y \in S : y <= x
  <2> SUFFICES ASSUME NEW y \in S PROVE y <= x
    OBVIOUS
  <2>1. b - y \in T
    OBVIOUS
  <2>2. ~ (b - y < b - x)
    BY <1>5, <1>6, <2>1
  <2> QED
    BY <2>2
<1> QED
  BY <1>7 DEF Max

\* Max is the member that no other one exceeds.
LEMMA MaxIs ==
    ASSUME NEW S \in SUBSET Nat, NEW x \in S, \A y \in S : y <= x
    PROVE  Max(S) = x
<1>1. Max(S) \in S /\ \A y \in S : Max(S) >= y
  BY DEF Max
<1>2. Max(S) >= x /\ Max(S) <= x /\ Max(S) \in Nat /\ x \in Nat
  BY <1>1
<1> QED
  BY <1>2

\* LastOf is the last place at which a history speaks of the item.
LEMMA LastOfFacts ==
    ASSUME NEW h \in Seq(Events), NEW i
    PROVE  /\ LastOf(h, i) \in 0 .. Len(h) /\ Len(h) \in Nat
           /\ LastOf(h, i) # 0 => h[LastOf(h, i)].item = i /\ LastOf(h, i) \notin open
           /\ \A p \in 1 .. Len(h) : h[p].item = i /\ p \notin open => p <= LastOf(h, i)
<1> DEFINE S == {0} \cup {p \in 1 .. Len(h) : h[p].item = i /\ p \notin open}
<1>1. Len(h) \in Nat /\ S \in SUBSET (0 .. Len(h)) /\ S # {}
  OBVIOUS
<1>2. LastOf(h, i) = Max(S)
  BY DEF LastOf
<1>3. Max(S) \in S /\ \A y \in S : y <= Max(S)
  <2> HIDE DEF S
  <2> QED
    BY <1>1, BoundedMax
<1> QED
  BY <1>1, <1>2, <1>3

\* And the only one of which that can be said.
LastAt(h, i, H) == Max({0} \cup {p \in 1 .. Len(h) : h[p].item = i /\ p \notin H})
LEMMA LastAtIs ==
    ASSUME NEW h \in Seq(Events), NEW i, NEW H, NEW n \in 0 .. Len(h),
           n # 0 => h[n].item = i /\ n \notin H,
           \A p \in 1 .. Len(h) : h[p].item = i /\ p \notin H => p <= n
    PROVE  LastAt(h, i, H) = n
<1> DEFINE S == {0} \cup {p \in 1 .. Len(h) : h[p].item = i /\ p \notin H}
<1>1. Len(h) \in Nat /\ n \in Nat
  OBVIOUS
<1>2. S \in SUBSET Nat /\ n \in S /\ \A y \in S : y <= n
  BY <1>1
<1> HIDE DEF S
<1>3. Max(S) = n
  BY <1>2, MaxIs
<1> QED
  BY <1>3 DEF LastAt, S

\* What an item is now, it is since the last change; contents are numbered.
LEMMA ItemFacts ==
    ASSUME Typed, LogInv, NEW i \in Items
    PROVE  /\ LastOf(log, i) \in 0 .. Len(log) /\ Len(log) \in Nat /\ LastOf(log, i) \in Positions
           /\ LastOf(log, i) # 0 => LastOf(log, i) \in 1 .. Len(log)
                                     /\ log[LastOf(log, i)].item = i /\ LastOf(log, i) \notin open
           /\ DataIn(log, i) \in {Gone, LastOf(log, i)} /\ DataIn(log, i) \in Positions
           /\ i \in Live(log) <=> DataIn(log, i) # Gone
           /\ i \in Live(log) => DataIn(log, i) = LastOf(log, i) /\ LastOf(log, i) # 0
<1>1. log \in Seq(Events) /\ Len(log) <= MaxLog /\ MaxLog \in Nat
  BY SourcesAssumption, Zenon DEF Typed
<1>2. /\ LastOf(log, i) \in 0 .. Len(log) /\ Len(log) \in Nat
      /\ LastOf(log, i) # 0 => log[LastOf(log, i)].item = i /\ LastOf(log, i) \notin open
  BY <1>1, LastOfFacts
<1>3. LastOf(log, i) # 0 => LastOf(log, i) \in 1 .. Len(log) /\ log[LastOf(log, i)].data \in {Gone, LastOf(log, i)}
  BY <1>2 DEF LogInv
<1>4. DataIn(log, i) \in {Gone, LastOf(log, i)}
  BY <1>3 DEF DataIn, Gone
<1> QED
  BY <1>1, <1>2, <1>3, <1>4 DEF Live, Gone, Positions

\* A step that leaves the source alone leaves alone what is read from it.
LEMMA SameSource ==
    ASSUME UNCHANGED <<kind, log, open>>
    PROVE  /\ \A i \in Items : /\ LastOf(log, i)' = LastOf(log, i) /\ DataIn(log, i)' = DataIn(log, i)
                               /\ Stamp(i)' = Stamp(i) /\ (Wanted(i)' <=> Wanted(i))
           /\ Live(log)' = Live(log)
           /\ \A p : Replies(p)' = Replies(p)
<1>1. \A i : LastOf(log, i)' = LastOf(log, i)
  BY DEF LastOf
<1>2. \A i : DataIn(log, i)' = DataIn(log, i)
  BY <1>1 DEF DataIn
<1>3. Live(log)' = Live(log)
  BY <1>2 DEF Live
<1>4. \A i : Stamp(i)' = Stamp(i)
  BY <1>1 DEF Stamp
<1>5. \A p : Replies(p)' = Replies(p)
  BY DEF Replies
<1> QED
  BY <1>1, <1>2, <1>3, <1>4, <1>5 DEF Wanted

\* A Boolean summary of the types that the steps use.
LEMMA TypeFacts ==
    ASSUME Typed
    PROVE  /\ log \in Seq(Events) /\ Len(log) \in Nat /\ Len(log) <= MaxLog /\ MaxLog \in Nat
           /\ Gone \in Positions /\ Gone = 0 /\ Unread = -1 /\ Unread \notin Positions
           /\ \A p \in 1 .. Len(log) : /\ log[p].item \in Items /\ log[p].parent \in Positions
                                       /\ log[p].data \in Positions /\ p \in Positions
           /\ kind \in Counted \cup Maps \cup NoCursor /\ kind \in AllKinds
           /\ kind \in Counted => Reach(saved) \in Nat /\ Reach(sync.at) \in Nat /\ Reach(sync.next) \in Nat
           /\ kind \in Maps => saved \in [Items -> Positions] /\ sync.next \in [Items -> Positions]
           /\ kind \in Git => saved \in Seq(Events) /\ sync.next \in Seq(Events) /\ sync.at \in Seq(Events)
           /\ kind \notin Maps \cup Git => saved \in Positions /\ sync.next \in Positions
           /\ kind \notin Git => sync.at \in Positions
           /\ Len(log) \in Positions
<1>1. log \in Seq(Events) /\ Len(log) <= MaxLog /\ MaxLog \in Nat /\ kind \in AllKinds /\ saved \in Cursors /\ sync \in Syncs
  BY SourcesAssumption, Zenon DEF Typed
<1>2. Len(log) \in Nat
  BY <1>1
<1>3. \A p \in 1 .. Len(log) : log[p] \in Events
  BY <1>1
<1>4. \A p \in 1 .. Len(log) : /\ log[p].item \in Items /\ log[p].parent \in Positions
                               /\ log[p].data \in Positions /\ p \in Positions
  BY <1>1, <1>2, <1>3 DEF Events, Positions
<1>5. kind \in Counted \cup Maps \cup NoCursor
  BY <1>1 DEF AllKinds, Counted, Maps, NoCursor, Git
<1>6. sync.next \in Cursors /\ sync.at \in Commits
  BY <1>1 DEF Syncs
<1>7. /\ kind \in Maps => saved \in [Items -> Positions] /\ sync.next \in [Items -> Positions]
      /\ kind \in Git => saved \in Seq(Events) /\ sync.next \in Seq(Events) /\ sync.at \in Seq(Events)
      /\ kind \notin Maps \cup Git => saved \in Positions /\ sync.next \in Positions
      /\ kind \notin Git => sync.at \in Positions
  BY <1>1, <1>6 DEF Cursors, Commits, Maps, Git
<1>8. \A c \in Seq(Events) : Len(c) \in Nat
  OBVIOUS
<1>9. kind \in Counted => Reach(saved) \in Nat /\ Reach(sync.at) \in Nat /\ Reach(sync.next) \in Nat
  <2>1. CASE kind \in Git
    BY <1>7, <1>8, <2>1 DEF Reach
  <2>2. CASE kind \in Counted \ Git
    <3>1. kind \notin Maps /\ kind \notin Git
      BY <2>2 DEF Counted, Maps, Git
    <3>2. saved \in Positions /\ sync.next \in Positions /\ sync.at \in Positions
      BY <1>7, <3>1
    <3> QED
      BY <1>1, <3>1, <3>2 DEF Reach, Positions
  <2> QED
    BY <2>1, <2>2
<1> QED
  BY <1>1, <1>2, <1>4, <1>5, <1>7, <1>9 DEF Positions, Gone, Unread

\* The entry that a listing has for an item.
LEMMA EntryFacts ==
    ASSUME Typed, LogInv, NEW i \in Items
    PROVE  /\ EntryOf(i) \in Entries
           /\ EntryOf(i).item = i /\ EntryOf(i).pos = LastOf(log, i) /\ EntryOf(i).thread = LastOf(log, i)
           /\ EntryOf(i).data \in {Unread, DataIn(log, i)}
           /\ kind \in {"rss", "table", "s3", "slack"} \cup Git => EntryOf(i).data = DataIn(log, i)
           /\ kind \in Notion => EntryOf(i).data = Unread
           /\ EntryOf(i).replies = (kind = "slack" /\ Replies(LastOf(log, i)) # {})
<1>1. LastOf(log, i) \in Positions /\ DataIn(log, i) \in Positions
  BY ItemFacts
<1>2. (kind = "slack" /\ Replies(LastOf(log, i)) # {}) \in BOOLEAN
  OBVIOUS
<1> QED
  BY <1>1, <1>2 DEF EntryOf, Entries, Git

\* What is listed are items.
LEMMA ListingFacts ==
    ASSUME Typed, LogInv, NEW c
    PROVE  /\ Changed(c) \subseteq Items
           /\ kind # "slack" => Changed(c) \subseteq Live(log)
           /\ Listing(c) \in SUBSET Entries
           /\ {e.item : e \in Listing(c)} = Changed(c) \ Left
           /\ \A e \in Listing(c) : e.item \in Changed(c) \ Left /\ e = EntryOf(e.item)
           /\ \A i \in Changed(c) \ Left : EntryOf(i) \in Listing(c) /\ EntryOf(i).item = i
<1>1. kind \in AllKinds /\ \A p \in 1 .. Len(log) : log[p].item \in Items
  BY TypeFacts
<1>2. kind # "slack" => Changed(c) \subseteq Live(log)
  BY <1>1 DEF AllKinds, Changed, FeedEntries, Blobs, TableRows, S3Objects, DriveSelected, DriveChanges,
     DriveFiles, DropboxChanges, DropboxFolder, NotionPages, NotionChanged, NotionQuery, GithubChanges,
     GithubWalk, GitlabChanges, GitlabTree, Compared
<1>3. Live(log) \subseteq Items
  BY DEF Live
<1>4. kind = "slack" => Changed(c) \subseteq Items
  BY <1>1 DEF Changed, SlackMessages, History
<1>5. Changed(c) \subseteq Items
  BY <1>2, <1>3, <1>4
<1>6. \A i \in Changed(c) : EntryOf(i) \in Entries /\ EntryOf(i).item = i
  BY <1>5, EntryFacts
<1> QED
  BY <1>2, <1>5, <1>6 DEF Listing

-----------------------------------------------------------------------------
(* Commits of the branch.                                                  *)

\* A commit's tree has an item as the head has it just when the commit
\* includes the item's last change.
LEMMA PrefixFacts ==
    ASSUME Typed, LogInv, kind \in Git, NEW n \in 0 .. Len(log), NEW c, c = SubSeq(log, 1, n), NEW i \in Items
    PROVE  /\ DataIn(c, i) \in Positions
           /\ LastOf(log, i) <= n => DataIn(c, i) = DataIn(log, i)
           /\ i \in Live(log) /\ DataIn(c, i) = DataIn(log, i) => LastOf(log, i) <= n
<1>1. /\ log \in Seq(Events) /\ Len(log) \in Nat /\ Len(log) <= MaxLog /\ MaxLog \in Nat
      /\ \A p \in 1 .. Len(log) : p \in Positions
  BY TypeFacts
<1>2. open = {}
  BY DEF LogInv, Git
<1>3. c \in Seq(Events) /\ Len(c) = n /\ \A p \in 1 .. n : c[p] = log[p]
  BY <1>1
<1>4. /\ LastOf(c, i) \in 0 .. n
      /\ LastOf(c, i) # 0 => c[LastOf(c, i)].item = i
      /\ \A p \in 1 .. n : c[p].item = i => p <= LastOf(c, i)
  BY <1>2, <1>3, LastOfFacts
<1>5. /\ LastOf(log, i) \in 0 .. Len(log)
      /\ LastOf(log, i) # 0 => log[LastOf(log, i)].item = i
      /\ \A p \in 1 .. Len(log) : log[p].item = i => p <= LastOf(log, i)
  BY <1>1, <1>2, LastOfFacts
<1>6. DataIn(c, i) \in {Gone, LastOf(c, i)} /\ DataIn(c, i) \in Positions
  <2>1. LastOf(c, i) # 0 => LastOf(c, i) \in 1 .. Len(log) /\ c[LastOf(c, i)] = log[LastOf(c, i)]
    BY <1>1, <1>3, <1>4
  <2>2. LastOf(c, i) # 0 => c[LastOf(c, i)].data \in {Gone, LastOf(c, i)} /\ LastOf(c, i) \in Positions
    BY <1>1, <2>1 DEF LogInv
  <2>3. DataIn(c, i) \in {Gone, LastOf(c, i)}
    BY <2>2 DEF DataIn
  <2>4. Gone \in Positions
    BY TypeFacts
  <2> QED
    BY <2>2, <2>3, <2>4 DEF Gone
<1>7. ASSUME LastOf(log, i) <= n
      PROVE  DataIn(c, i) = DataIn(log, i)
  <2>1. LastOf(log, i) <= LastOf(c, i)
    BY <1>1, <1>3, <1>4, <1>5, <1>7
  <2>2. LastOf(c, i) <= LastOf(log, i)
    BY <1>1, <1>3, <1>4, <1>5
  <2>3. LastOf(c, i) = LastOf(log, i)
    BY <1>1, <1>4, <1>5, <2>1, <2>2
  <2>4. LastOf(log, i) # 0 => c[LastOf(log, i)] = log[LastOf(log, i)]
    BY <1>1, <1>3, <1>5, <1>7
  <2> QED
    BY <2>3, <2>4 DEF DataIn
<1>8. ASSUME i \in Live(log), DataIn(c, i) = DataIn(log, i)
      PROVE  LastOf(log, i) <= n
  <2>1. DataIn(log, i) = LastOf(log, i) /\ DataIn(log, i) # Gone
    BY <1>8, ItemFacts
  <2> QED
    BY <1>4, <1>6, <1>8, <2>1
<1> QED
  BY <1>6, <1>7, <1>8

\* The merge base of a commit of the branch is that commit.
LEMMA BaseOfPrefix ==
    ASSUME Typed, kind \in Git, NEW n \in 0 .. Len(log), NEW c, c = SubSeq(log, 1, n)
    PROVE  MergeBase(c) = c
<1>1. log \in Seq(Events) /\ Len(log) \in Nat
  BY TypeFacts
<1>2. c \in Seq(Events) /\ Len(c) = n /\ n <= Len(log) /\ n \in Nat
  BY <1>1
<1>3. Min({n, Len(log)}) = n
  <2>1. Min({n, Len(log)}) \in {n, Len(log)} /\ \A y \in {n, Len(log)} : Min({n, Len(log)}) <= y
    <3>1. n \in {n, Len(log)} /\ \A y \in {n, Len(log)} : n <= y
      BY <1>1, <1>2
    <3> QED
      BY <3>1 DEF Min
  <2> QED
    BY <1>1, <1>2, <2>1
<1> DEFINE S == {m \in 0 .. n : SubSeq(c, 1, m) = SubSeq(log, 1, m)}
<1>4. SubSeq(c, 1, n) = c
  BY <1>2
<1>5. S \in SUBSET Nat /\ n \in S /\ \A y \in S : y <= n
  BY <1>2, <1>4
<1>6. Max(S) = n
  <2> HIDE DEF S
  <2> QED
    BY <1>5, MaxIs
<1> QED
  BY <1>2, <1>3, <1>6 DEF MergeBase

-----------------------------------------------------------------------------
(* What is due.                                                            *)

\* The stamp of an item is a number, by kind.
LEMMA StampFacts ==
    ASSUME Typed, LogInv, NEW i \in Items
    PROVE  /\ Stamp(i) \in Nat
           /\ i \in Live(log) => Stamp(i) > 0
           /\ kind \notin {"slack"} \cup Notion => Stamp(i) = LastOf(log, i)
           /\ kind \in Notion => Stamp(i) = Minute(LastOf(log, i))
           /\ kind = "slack" =>
                 IF LastOf(log, i) # 0 /\ log[LastOf(log, i)].parent # 0
                 THEN Stamp(i) = log[LastOf(log, i)].parent /\ log[LastOf(log, i)].parent \in 1 .. LastOf(log, i) - 1
                 ELSE Stamp(i) = LastOf(log, i)
<1> DEFINE p == LastOf(log, i)
<1>1. /\ p \in Nat /\ (p # 0 => p \in 1 .. Len(log) /\ log[p].item = i) /\ (i \in Live(log) => p # 0)
  BY ItemFacts
<1>2. Minute(p) \in Nat /\ (p > 0 => Minute(p) > 0)
  BY <1>1, MinuteFacts
<1>3. kind = "slack" /\ p # 0 /\ log[p].parent # 0 => log[p].parent \in 1 .. p - 1
  BY <1>1 DEF LogInv
<1> HIDE DEF p
<1>4. Stamp(i) = IF kind \in Notion THEN Minute(p)
                 ELSE IF kind = "slack" /\ p # 0 /\ log[p].parent # 0 THEN log[p].parent
                 ELSE p
  BY DEF Stamp, p
<1> QED
  BY <1>1, <1>2, <1>3, <1>4 DEF p

\* What a listing does of the items that are there, kind by kind.
LEMMA ChangedFacts ==
    ASSUME Typed, LogInv, NEW c, NEW i \in Live(log)
    PROVE  /\ kind \in NoCursor => i \in Changed(c)
           /\ kind = "table" => (i \in Changed(c) <=> LastOf(log, i) > c)
           /\ kind = "s3" => (i \in Changed(c) <=> c[i] # DataIn(log, i))
           /\ kind = "drive_ids" => (i \in Changed(c) <=> c[i] # LastOf(log, i))
           /\ kind \in {"drive", "dropbox"} => (i \in Changed(c) <=> c = 0 \/ LastOf(log, i) > c)
           /\ kind \in Notion /\ c \in Nat => (i \in Changed(c) <=> c = 0 \/ Minute(LastOf(log, i)) > c)
           /\ kind \in Git => (i \in Changed(c) <=> c = <<>> \/ DataIn(MergeBase(c), i) # DataIn(log, i))
<1>1. i \in Items
  BY DEF Live
<1>2. kind \in NoCursor => i \in Changed(c)
  BY DEF NoCursor, Changed, FeedEntries, Blobs
<1>3. kind = "table" => (i \in Changed(c) <=> LastOf(log, i) > c)
  BY DEF Changed, TableRows
<1>4. kind = "s3" => (i \in Changed(c) <=> c[i] # DataIn(log, i))
  BY DEF Changed, S3Objects
<1>5. kind = "drive_ids" => (i \in Changed(c) <=> c[i] # LastOf(log, i))
  BY DEF Changed, DriveSelected
<1>6. kind = "drive" => (i \in Changed(c) <=> c = 0 \/ LastOf(log, i) > c)
  BY DEF Changed, DriveChanges, DriveFiles
<1>7. kind = "dropbox" => (i \in Changed(c) <=> c = 0 \/ LastOf(log, i) > c)
  BY DEF Changed, DropboxChanges, DropboxFolder
<1>8. kind \in Notion /\ c \in Nat => (i \in Changed(c) <=> c = 0 \/ Minute(LastOf(log, i)) > c)
  <2>1. LastOf(log, i) \in Nat
    BY <1>1, ItemFacts
  <2>2. Minute(LastOf(log, i)) \in Nat
    BY <2>1, MinuteFacts
  <2> QED
    BY <2>2 DEF Changed, NotionPages, NotionChanged, NotionQuery
<1>9. kind = "github" => (i \in Changed(c) <=> c = <<>> \/ DataIn(MergeBase(c), i) # DataIn(log, i))
  BY DEF Changed, GithubChanges, GithubWalk, Compared
<1>10. kind = "gitlab" => (i \in Changed(c) <=> c = <<>> \/ DataIn(MergeBase(c), i) # DataIn(log, i))
  BY DEF Changed, GitlabChanges, GitlabTree, Compared
<1> QED
  BY <1>2, <1>3, <1>4, <1>5, <1>6, <1>7, <1>8, <1>9, <1>10 DEF Git

\* A channel's messages.
LEMMA SlackFacts ==
    ASSUME Typed, LogInv, kind = "slack", NEW c, NEW p \in 1 .. Len(log)
    PROVE  /\ log[p].item \in Live(log) \ Unwanted /\ LastOf(log, log[p].item) = p /\ DataIn(log, log[p].item) = log[p].data
           /\ log[p].parent = 0 /\ p > c =>
                 log[p].item \in Changed(c) \ Left /\ EntryOf(log[p].item).pos = p
           /\ log[p].parent # 0 => Replies(p) = {} /\ log[p].parent \in 1 .. Len(log) /\ p \in Replies(log[p].parent)
<1>1. log[p].item \in Items /\ Len(log) \in Nat
  BY TypeFacts
<1>2. log[p].data = p /\ LastOf(log, log[p].item) = p /\ log[p].item \notin Unwanted
  BY DEF LogInv
<1>3. DataIn(log, log[p].item) = p /\ p # 0
  BY <1>1, <1>2 DEF DataIn
<1>4. log[p].item \in Live(log)
  BY <1>1, <1>3 DEF Live, Gone
<1>5. log[p].parent = 0 /\ p > c => log[p].item \in Changed(c)
  BY DEF Changed, SlackMessages, History
<1>6. EntryOf(log[p].item).pos = p
  BY <1>1, <1>2, EntryFacts
<1>7. log[p].parent # 0 => log[p].parent \in 1 .. p - 1 /\ p \in Replies(log[p].parent)
  BY DEF LogInv, Replies
<1>8. ASSUME log[p].parent # 0 PROVE Replies(p) = {}
  <2>1. \A q \in 1 .. Len(log) : log[q].parent # 0 => log[log[q].parent].parent = 0
    BY DEF LogInv
  <2>2. \A q \in 1 .. Len(log) : log[q].parent # p
    BY <1>1, <1>8, <2>1
  <2> QED
    BY <2>2 DEF Replies
<1> QED
  BY <1>1, <1>2, <1>3, <1>4, <1>5, <1>6, <1>7, <1>8 DEF Left

\* A sync from the persisted cursor lists what that does not speak for, or the
\* message that brings it.
LEMMA BeyondIsDue ==
    ASSUME Typed, LogInv, GitInv, kind \in Counted, NEW i \in Items, Wanted(i), Stamp(i) > Reach(saved)
    PROVE  /\ i \in Due(saved)
           /\ \E e \in Listing(saved) :
                 e.item = i \/ (kind = "slack" /\ log[LastOf(log, i)].parent = e.pos)
<1> DEFINE p == LastOf(log, i)
<1>1. i \in Live(log) /\ i \notin Unwanted
  BY DEF Wanted
<1>2. p \in 1 .. Len(log) /\ log[p].item = i /\ DataIn(log, i) = p
  BY <1>1, ItemFacts
<1>3. Reach(saved) \in Nat /\ Len(log) \in Nat
  BY TypeFacts
<1>4. CASE kind # "slack"
  <2>1. i \in Changed(saved)
    <3>1. CASE kind \in {"table", "drive", "dropbox"}
      <4>1. Stamp(i) = LastOf(log, i) /\ Reach(saved) = saved
        BY <3>1, StampFacts DEF Reach, Git
      <4> QED
        BY <1>1, <3>1, <4>1, ChangedFacts
    <3>2. CASE kind \in Notion
      <4>1. Stamp(i) = Minute(LastOf(log, i)) /\ Reach(saved) = saved
        BY <3>2, StampFacts DEF Reach, Git
      <4> QED
        BY <1>1, <1>3, <3>2, <4>1, ChangedFacts
    <3>3. CASE kind \in Git
      <4>1. Stamp(i) = LastOf(log, i) /\ Reach(saved) = Len(saved)
        BY <3>3, StampFacts DEF Reach, Git
      <4>2. saved = SubSeq(log, 1, Len(saved)) /\ Len(saved) \in 0 .. Len(log)
        BY <1>3, <3>3, <4>1 DEF GitInv
      <4>3. MergeBase(saved) = saved
        BY <3>3, <4>2, BaseOfPrefix
      <4>4. DataIn(saved, i) # DataIn(log, i)
        <5>1. ~ (LastOf(log, i) <= Len(saved))
          BY <1>2, <1>3, <4>1
        <5> QED
          BY <1>1, <3>3, <4>2, <5>1, PrefixFacts
      <4> QED
        BY <1>1, <3>3, <4>3, <4>4, ChangedFacts
    <3> QED
      BY <1>4, <3>1, <3>2, <3>3 DEF Counted
  <2>2. i \in Changed(saved) \ Left
    BY <1>1, <2>1 DEF Left
  <2>3. EntryOf(i) \in Listing(saved) /\ EntryOf(i).item = i
    BY <2>2, ListingFacts
  <2> QED
    BY <2>1, <2>3 DEF Due
<1>5. CASE kind = "slack"
  <2>1. Reach(saved) = saved
    BY <1>5 DEF Reach, Git
  <2>2. CASE log[p].parent = 0
    <3>1. p > saved
      BY <1>2, <1>5, <2>1, <2>2, StampFacts
    <3>2. i \in Changed(saved) \ Left
      BY <1>2, <1>5, <2>2, <3>1, SlackFacts
    <3>3. EntryOf(i) \in Listing(saved) /\ EntryOf(i).item = i
      BY <3>2, ListingFacts
    <3> QED
      BY <3>2, <3>3 DEF Due
  <2>3. CASE log[p].parent # 0
    <3> DEFINE r == log[p].parent
    <3>1. r > saved /\ r \in 1 .. Len(log) /\ log[r].parent = 0
      <4>1. Stamp(i) = r /\ r \in 1 .. p - 1
        BY <1>2, <1>5, <2>3, StampFacts
      <4>2. log[r].parent = 0
        BY <1>2, <1>5, <2>3 DEF LogInv
      <4> QED
        BY <1>2, <1>3, <2>1, <4>1, <4>2
    <3>2. log[r].item \in Changed(saved) \ Left /\ EntryOf(log[r].item).pos = r
      BY <1>5, <3>1, SlackFacts
    <3>3. EntryOf(log[r].item) \in Listing(saved)
      BY <3>2, ListingFacts
    <3>4. r \in History(saved)
      BY <3>1 DEF History
    <3>5. i \in Due(saved)
      BY <1>2, <1>5, <3>4 DEF Due
    <3> QED
      BY <1>5, <3>2, <3>3, <3>5
  <2> QED
    BY <2>2, <2>3
<1> QED
  BY <1>4, <1>5

\* What the cursor does not speak for, and what it never speaks for, is due.
LEMMA StaleFollows ==
    ASSUME Typed, LogInv, SavedInv, GitInv, MapsInv
    PROVE  StaleIsDue
<1> SUFFICES ASSUME NEW i \in Live(log) \ Unwanted, ~ Current(i)
             PROVE  i \in Due(saved)
  BY DEF StaleIsDue
<1>1. i \in Items /\ Wanted(i)
  BY DEF Live, Wanted
<1>2. kind \in Counted \cup Maps \cup NoCursor
  BY TypeFacts
<1>3. CASE kind \in NoCursor
  BY <1>3, ChangedFacts DEF Due
<1>4. CASE kind \in Counted
  <2>1. ~ (Stamp(i) <= Reach(saved))
    BY <1>1, <1>4 DEF SavedInv
  <2>2. Stamp(i) \in Nat /\ Reach(saved) \in Nat
    BY <1>1, <1>4, StampFacts, TypeFacts
  <2> QED
    BY <1>1, <1>4, <2>1, <2>2, BeyondIsDue
<1>5. CASE kind \in Maps
  <2>1. saved[i] <= target[i] /\ target[i] <= LastOf(log, i)
    BY <1>1, <1>5 DEF MapsInv
  <2>2. saved[i] \in Nat /\ target[i] \in Nat /\ LastOf(log, i) \in Nat
    <3>1. saved[i] \in Positions /\ target[i] \in Positions /\ LastOf(log, i) \in Positions
      BY <1>1, <1>5, TypeFacts, ItemFacts DEF Typed
    <3>2. MaxLog \in Nat
      BY TypeFacts
    <3> QED
      BY <3>1, <3>2 DEF Positions
  <2>3. DataIn(log, i) = LastOf(log, i)
    BY <1>1, ItemFacts
  <2>4. saved[i] # LastOf(log, i)
    BY <2>1, <2>2, <2>3 DEF Current
  <2>5. i \in Changed(saved)
    BY <1>5, <2>3, <2>4, ChangedFacts DEF Maps
  <2> QED
    BY <2>5 DEF Due
<1> QED
  BY <1>2, <1>3, <1>4, <1>5

-----------------------------------------------------------------------------
(* The world changes.                                                      *)

\* An item that a change leaves alone, and one that it moves beyond whatever
\* the cursors speak for.
Same(i) == LastOf(log, i)' = LastOf(log, i) /\ DataIn(log, i)' = DataIn(log, i)
Newer(i) ==
    /\ LastOf(log, i)' \in Nat /\ LastOf(log, i)' >= LastOf(log, i)
    /\ kind = "slack" => i \notin Live(log)
    /\ kind \in Counted =>
          /\ Stamp(i)' \in Nat /\ Stamp(i)' > Reach(saved)
          /\ sync.pc # "idle" => \/ Stamp(i)' > Reach(sync.at) /\ ~ Fetching
                                 \/ kind = "notion_ids" /\ Awaited(i)

\* The history grows, under a consumer that does not notice.
Grows ==
    /\ UNCHANGED <<kind, saved, sync, target>>
    /\ Len(log') >= Len(log) /\ \A p \in 1 .. Len(log) : log'[p] = log[p]
    /\ \A p \in open' : kind = "table" /\ (p \in open \/ p > Len(log))
    /\ kind = "slack" /\ sync.pc # "idle" =>
          \A p \in 1 .. Len(log') : p > Len(log) => log'[p].parent = 0
    /\ \A i \in Items : Same(i) \/ Newer(i)

\* An awaited page is in hand, and nothing of it has been read.
LEMMA AwaitedFacts ==
    ASSUME NEW i, Awaited(i)
    PROVE  /\ \E e \in sync.todo : e.item = i /\ e.pos = 0
           /\ \A e \in sync.todo : e.item = i => e.pos = 0
<1> DEFINE S == {e.pos : e \in {f \in sync.todo : f.item = i}}
<1>1. S = {0}
  BY DEF Awaited
<1>2. \A e \in sync.todo : e.item = i => e.pos \in S
  OBVIOUS
<1>3. \A x \in S : \E e \in sync.todo : e.item = i /\ e.pos = x
  OBVIOUS
<1> HIDE DEF S
<1> QED
  BY <1>1, <1>2, <1>3

\* An item that a change leaves alone keeps its stamp.
LEMMA SameStamp ==
    ASSUME Typed, LogInv, Grows, NEW i \in Items, Same(i)
    PROVE  Stamp(i)' = Stamp(i) /\ (Wanted(i)' <=> Wanted(i)) /\ (i \in Live(log)' <=> i \in Live(log))
           /\ (LastOf(log, i) # 0 => log'[LastOf(log, i)'].parent = log[LastOf(log, i)].parent)
<1>1. LastOf(log, i)' = LastOf(log, i) /\ DataIn(log, i)' = DataIn(log, i) /\ kind' = kind
  BY DEF Same, Grows
<1>2. LastOf(log, i) # 0 => LastOf(log, i) \in 1 .. Len(log)
  BY ItemFacts
<1>3. LastOf(log, i) # 0 => log'[LastOf(log, i)] = log[LastOf(log, i)]
  BY <1>2 DEF Grows
<1>4. Stamp(i)' = Stamp(i)
  BY <1>1, <1>3 DEF Stamp
<1>5. i \in Live(log)' <=> i \in Live(log)
  BY <1>1 DEF Live
<1> QED
  BY <1>1, <1>3, <1>4, <1>5 DEF Wanted

\* The persisted cursor still speaks for what was written only.
LEMMA GrowsSaved ==
    ASSUME Typed, LogInv, SavedInv, Grows, LogInv', Typed'
    PROVE  SavedInv'
<1> SUFFICES ASSUME kind \in Counted PROVE SavedInv'
  BY DEF SavedInv, Grows
<1>1. kind' = kind /\ saved' = saved /\ target' = target
  BY DEF Grows
<1>2. Reach(saved)' = Reach(saved) /\ Reach(saved) \in Nat
  BY <1>1, TypeFacts DEF Reach
<1>3. Len(log) \in Nat /\ Len(log') \in Nat /\ Len(log') >= Len(log)
  BY TypeFacts DEF Grows, Typed
<1>4. ASSUME NEW i \in Items, Wanted(i)', Stamp(i)' <= Reach(saved)'
      PROVE  Current(i)'
  <2>1. CASE Same(i)
    BY <1>1, <1>2, <1>4, <2>1, SameStamp DEF SavedInv, Current, Same
  <2>2. CASE Newer(i)
    BY <1>2, <1>4, <2>2 DEF Newer
  <2> QED
    BY <2>1, <2>2 DEF Grows
<1>5. kind \notin Notion => Reach(saved) <= Len(log')
  BY <1>2, <1>3 DEF SavedInv
<1>6. ASSUME NEW p \in open' PROVE p > saved
  <2>1. kind = "table" /\ (p \in open \/ p > Len(log))
    BY <1>6 DEF Grows
  <2>2. Reach(saved) = saved /\ saved <= Len(log)
    BY <2>1 DEF Reach, Git, SavedInv
  <2>3. p \in open => p > saved
    BY DEF SavedInv
  <2>4. p \in Int
    BY DEF Typed
  <2> QED
    BY <1>2, <1>3, <2>1, <2>2, <2>3, <2>4
<1> QED
  BY <1>1, <1>2, <1>4, <1>5, <1>6 DEF SavedInv

\* The running cursor still speaks for what is written or coming.
LEMMA GrowsFlight ==
    ASSUME Typed, LogInv, FlightInv, Grows, LogInv', Typed'
    PROVE  FlightInv'
<1> SUFFICES ASSUME kind \in Counted, sync.pc # "idle" PROVE FlightInv'
  BY DEF FlightInv, Grows
<1>1. kind' = kind /\ saved' = saved /\ target' = target /\ sync' = sync
  BY DEF Grows
<1>2. /\ Reach(saved)' = Reach(saved) /\ Reach(saved) \in Nat
      /\ Reach(sync.at)' = Reach(sync.at) /\ Reach(sync.at) \in Nat
      /\ Reach(sync.next)' = Reach(sync.next) /\ Reach(sync.next) \in Nat
  BY <1>1, TypeFacts DEF Reach
<1>3. Len(log) \in Nat /\ Len(log') \in Nat /\ Len(log') >= Len(log)
  BY TypeFacts DEF Grows, Typed
<1>4. ASSUME sync.pc = "emit", NEW i \in Items, Wanted(i)', Stamp(i)' <= Reach(sync.at)'
      PROVE  Current(i)' \/ Coming(i)'
  <2>1. CASE Same(i)
    <3>1. Wanted(i) /\ Stamp(i) <= Reach(sync.at)
      BY <1>2, <1>4, <2>1, SameStamp
    <3>2. Current(i) \/ Coming(i)
      BY <1>4, <3>1 DEF FlightInv
    <3>3. Current(i) => Current(i)'
      BY <1>1, <2>1 DEF Current, Same
    <3>4. LastOf(log, i) # 0
      BY <3>1, ItemFacts DEF Wanted
    <3>5. Coming(i) => Coming(i)'
      BY <1>1, <2>1, <3>4, SameStamp DEF Coming
    <3> QED
      BY <3>2, <3>3, <3>5
  <2>2. CASE Newer(i)
    <3>1. kind = "notion_ids" /\ Awaited(i)
      BY <1>2, <1>4, <2>2 DEF Newer
    <3> QED
      BY <1>1, <3>1, AwaitedFacts DEF Coming
  <2> QED
    BY <2>1, <2>2 DEF Grows
<1>5. kind \notin Notion => Reach(sync.at) <= Len(log')
  BY <1>2, <1>3 DEF FlightInv
<1>6. ASSUME NEW p \in open' PROVE p > sync.at
  <2>1. kind = "table" /\ (p \in open \/ p > Len(log))
    BY <1>6 DEF Grows
  <2>2. Reach(sync.at) = sync.at /\ sync.at <= Len(log)
    BY <2>1 DEF Reach, Git, FlightInv
  <2>3. p \in open => p > sync.at
    BY DEF FlightInv
  <2>4. p \in Int
    BY DEF Typed
  <2> QED
    BY <1>2, <1>3, <2>1, <2>2, <2>3, <2>4
<1>7. ASSUME kind = "slack", NEW p \in 1 .. Len(log'), log'[p].parent # 0
      PROVE  p <= sync.at
  <2>1. ~ (p > Len(log))
    BY <1>7 DEF Grows
  <2>2. p \in 1 .. Len(log) /\ log'[p] = log[p]
    BY <1>3, <2>1 DEF Grows
  <2> QED
    BY <1>7, <2>2 DEF FlightInv
<1>8. /\ Reach(saved) <= Reach(sync.at) /\ Reach(sync.next) <= Reach(sync.at)
      /\ sync.pc = "list" => sync.next = saved /\ Reach(saved) = 0
  BY DEF FlightInv
<1> QED
  BY <1>1, <1>2, <1>4, <1>5, <1>6, <1>7, <1>8 DEF FlightInv

\* What was listed is still so, or the cursors do not speak for the item.
LEMMA GrowsTodo ==
    ASSUME Typed, LogInv, FlightInv, TodoInv, FetchInv, Grows, LogInv', Typed'
    PROVE  TodoInv'
<1>1. kind' = kind /\ sync' = sync
  BY DEF Grows
<1>2. SUFFICES ASSUME NEW e \in sync.todo
      PROVE  /\ e.replies => kind = "slack"
             /\ /\ kind \in {"table", "slack"} \cup Notion
                   /\ e.item \in Live(log)' /\ Stamp(e.item)' <= sync.at
                => e.data \in {Unread, DataIn(log, e.item)'}
             /\ kind \in {"rss", "table", "s3", "slack"} \cup Git => e.data # Unread
             /\ kind = "table" =>
                   /\ e.pos > sync.next /\ e.pos <= sync.at /\ e.thread = e.pos /\ ~e.replies
                   /\ log'[e.pos].item = e.item /\ log'[e.pos].data = e.data
                   /\ LastOf(log, e.item)' <= sync.at => e.pos = LastOf(log, e.item)'
             /\ kind = "slack" =>
                   /\ e.item \in Live(log)' /\ e.pos = LastOf(log, e.item)' /\ e.pos <= sync.at
                   /\ e.replies = (Replies(e.pos)' # {})
  BY <1>1 DEF TodoInv
<1>3. e \in Entries /\ sync.pc = "emit"
  BY DEF Typed, Syncs
<1>4. e.item \in Items /\ e.pos \in Positions
  BY <1>3 DEF Entries
<1>5. Len(log) \in Nat /\ Len(log') \in Nat /\ Len(log') >= Len(log) /\ MaxLog \in Nat
  BY TypeFacts DEF Grows, Typed
<1>6. /\ kind \in {"table", "slack"} \cup Notion => kind \in Counted /\ Reach(sync.at) = sync.at /\ sync.at \in Nat
      /\ kind \in {"table", "slack"} => sync.at <= Len(log)
  <2>1. kind \in {"table", "slack"} \cup Notion => kind \in Counted /\ Reach(sync.at) = sync.at
    BY DEF Counted, Reach, Git
  <2>2. kind \in {"table", "slack"} \cup Notion => sync.at \in Nat
    BY <2>1, TypeFacts
  <2> QED
    BY <1>3, <2>1, <2>2 DEF FlightInv
<1>7. /\ kind \in {"table", "slack"} \cup Notion /\ e.item \in Live(log) /\ Stamp(e.item) <= sync.at
            => e.data \in {Unread, DataIn(log, e.item)}
      /\ kind \in {"rss", "table", "s3", "slack"} \cup Git => e.data # Unread
      /\ e.replies => kind = "slack"
  BY DEF TodoInv
<1>8. ASSUME kind \in {"table", "slack"} \cup Notion, e.item \in Live(log)', Stamp(e.item)' <= sync.at
      PROVE  e.data \in {Unread, DataIn(log, e.item)'}
  <2>1. CASE Same(e.item)
    BY <1>4, <1>7, <1>8, <2>1, SameStamp DEF Same
  <2>2. CASE Newer(e.item)
    <3>1. kind = "notion_ids" /\ Awaited(e.item)
      BY <1>3, <1>6, <1>8, <2>2 DEF Newer
    <3>2. e.pos = 0
      BY <3>1, AwaitedFacts
    <3> QED
      BY <3>1, <3>2 DEF FetchInv
  <2> QED
    BY <1>4, <2>1, <2>2 DEF Grows
<1>9. ASSUME kind = "table"
      PROVE  /\ e.pos > sync.next /\ e.pos <= sync.at /\ e.thread = e.pos /\ ~e.replies
             /\ log'[e.pos].item = e.item /\ log'[e.pos].data = e.data
             /\ LastOf(log, e.item)' <= sync.at => e.pos = LastOf(log, e.item)'
  <2>1. /\ e.pos > sync.next /\ e.pos <= sync.at /\ e.thread = e.pos /\ ~e.replies
        /\ log[e.pos].item = e.item /\ log[e.pos].data = e.data
        /\ LastOf(log, e.item) <= sync.at => e.pos = LastOf(log, e.item)
    BY <1>9 DEF TodoInv
  <2>2. sync.next \in Positions
    BY <1>9, TypeFacts DEF Maps, Git
  <2>3. e.pos \in 1 .. Len(log)
    BY <1>4, <1>5, <1>6, <1>9, <2>1, <2>2 DEF Positions
  <2>4. log'[e.pos] = log[e.pos]
    BY <2>3 DEF Grows
  <2>5. CASE Same(e.item)
    BY <2>1, <2>4, <2>5 DEF Same
  <2>6. CASE Newer(e.item)
    <3>1. Stamp(e.item)' > sync.at
      BY <1>3, <1>6, <1>9, <2>6 DEF Newer
    <3>2. Stamp(e.item)' = LastOf(log, e.item)'
      BY <1>1, <1>9 DEF Stamp
    <3>3. ~ (LastOf(log, e.item)' <= sync.at)
      BY <1>6, <1>9, <2>6, <3>1, <3>2 DEF Newer
    <3> QED
      BY <2>1, <2>4, <3>3
  <2> QED
    BY <1>4, <2>5, <2>6 DEF Grows
<1>10. ASSUME kind = "slack"
       PROVE  /\ e.item \in Live(log)' /\ e.pos = LastOf(log, e.item)' /\ e.pos <= sync.at
              /\ e.replies = (Replies(e.pos)' # {})
  <2>1. /\ e.item \in Live(log) /\ e.pos = LastOf(log, e.item) /\ e.pos <= sync.at
        /\ e.replies = (Replies(e.pos) # {})
    BY <1>10 DEF TodoInv
  <2>2. Same(e.item)
    BY <1>4, <1>10, <2>1 DEF Grows, Newer
  <2>3. e.item \in Live(log)' /\ LastOf(log, e.item)' = LastOf(log, e.item)
    BY <1>4, <2>1, <2>2, SameStamp DEF Same
  <2>4. e.pos # 0
    BY <1>4, <2>1, ItemFacts
  <2>5. Replies(e.pos)' = Replies(e.pos)
    <3>1. \A p \in 1 .. Len(log') : p > Len(log) => log'[p].parent # e.pos
      BY <1>3, <1>10, <2>4 DEF Grows
    <3>2. \A p \in 1 .. Len(log') : ~ (p > Len(log)) => p \in 1 .. Len(log) /\ log'[p] = log[p]
      BY <1>5 DEF Grows
    <3>3. \A p \in 1 .. Len(log) : p \in 1 .. Len(log') /\ ~ (p > Len(log)) /\ log'[p] = log[p]
      BY <1>5 DEF Grows
    <3> QED
      BY <3>1, <3>2, <3>3 DEF Replies
  <2> QED
    BY <2>1, <2>3, <2>5
<1> QED
  BY <1>7, <1>8, <1>9, <1>10

\* While pages are fetched, only those that are awaited change.
LEMMA GrowsFetch ==
    ASSUME Typed, LogInv, FetchInv, Grows, LogInv', Typed'
    PROVE  FetchInv'
<1> SUFFICES ASSUME kind = "notion_ids" PROVE FetchInv'
  BY DEF FetchInv, Grows
<1>1. kind' = kind /\ saved' = saved /\ target' = target /\ sync' = sync
  BY DEF Grows
<1>2. \A e \in sync.todo : e.pos = 0 => e.data = Unread
  BY DEF FetchInv
<1>3. ASSUME Fetching
      PROVE  /\ \A i \in Items : Wanted(i)' => Current(i)' \/ Coming(i)'
             /\ \A e \in sync.todo : e.item \in Live(log)' => e.data \in {Unread, DataIn(log, e.item)'}
  <2>1. kind \in Counted /\ sync.pc # "idle"
    BY <1>3 DEF Counted, Typed, Fetching
  <2>2. \A i \in Items : Same(i) \/ Awaited(i)
    BY <1>3, <2>1 DEF Grows, Newer
  <2>3. ASSUME NEW i \in Items, Wanted(i)' PROVE Current(i)' \/ Coming(i)'
    <3>1. CASE Same(i)
      <4>1. Wanted(i)
        BY <2>3, <3>1, SameStamp
      <4>2. Current(i) \/ \E e \in sync.todo : e.item = i
        BY <1>3, <4>1 DEF FetchInv, Coming
      <4> QED
        BY <1>1, <3>1, <4>2 DEF Current, Coming, Same
    <3>2. CASE Awaited(i)
      BY <1>1, <3>2, AwaitedFacts DEF Coming
    <3> QED
      BY <2>2, <3>1, <3>2
  <2>4. ASSUME NEW e \in sync.todo, e.item \in Live(log)'
        PROVE  e.data \in {Unread, DataIn(log, e.item)'}
    <3>1. e.item \in Items
      BY <2>4 DEF Live
    <3>2. CASE Same(e.item)
      BY <1>3, <2>4, <3>1, <3>2, SameStamp DEF FetchInv, Same
    <3>3. CASE Awaited(e.item)
      BY <1>2, <3>3, AwaitedFacts
    <3> QED
      BY <2>2, <3>1, <3>2, <3>3
  <2> QED
    BY <2>3, <2>4
<1> QED
  BY <1>1, <1>2, <1>3 DEF FetchInv, Fetching

\* Commits stay commits of the branch.
LEMMA GrowsGit ==
    ASSUME Typed, GitInv, Grows, Typed'
    PROVE  GitInv'
<1> SUFFICES ASSUME kind \in Git PROVE GitInv'
  BY DEF GitInv, Grows
<1>1. kind' = kind /\ saved' = saved /\ sync' = sync /\ log' \in Seq(Events)
  BY DEF Grows, Typed
<1>2. log \in Seq(Events) /\ Len(log) \in Nat /\ Len(log') \in Nat /\ Len(log') >= Len(log)
  BY <1>1, TypeFacts DEF Grows
<1>3. \A p \in 1 .. Len(log) : log'[p] = log[p]
  BY DEF Grows
<1>4. ASSUME NEW c \in Seq(Events), Len(c) <= Len(log), c = SubSeq(log, 1, Len(c))
      PROVE  Len(c) <= Len(log') /\ c = SubSeq(log', 1, Len(c))
  <2>1. Len(c) \in Nat /\ Len(c) <= Len(log')
    BY <1>2, <1>4
  <2>2. SubSeq(log, 1, Len(c)) = SubSeq(log', 1, Len(c))
    BY <1>1, <1>2, <1>3, <1>4, <2>1
  <2> QED
    BY <1>4, <2>1, <2>2
<1>5. saved \in Seq(Events) /\ sync.at \in Seq(Events)
  BY TypeFacts
<1> QED
  BY <1>1, <1>4, <1>5 DEF GitInv

\* What the cursors of a map have of an item stays no newer than it.
LEMMA GrowsMaps ==
    ASSUME Typed, LogInv, MapsInv, Grows, Typed'
    PROVE  MapsInv'
<1> SUFFICES ASSUME kind \in Maps PROVE MapsInv'
  BY DEF MapsInv, Grows
<1>1. kind' = kind /\ saved' = saved /\ sync' = sync /\ target' = target /\ MaxLog \in Nat
  BY TypeFacts DEF Grows
<1>2. \A i \in Items : LastOf(log, i)' \in Int /\ LastOf(log, i) \in Nat /\ LastOf(log, i)' >= LastOf(log, i)
  <2> SUFFICES ASSUME NEW i \in Items
               PROVE  LastOf(log, i)' \in Int /\ LastOf(log, i) \in Nat /\ LastOf(log, i)' >= LastOf(log, i)
    OBVIOUS
  <2>1. LastOf(log, i) \in Nat
    BY ItemFacts
  <2> QED
    BY <2>1 DEF Grows, Same, Newer
<1>3. \A i \in Items : target[i] \in Int /\ saved[i] \in Int
  BY <1>1, TypeFacts DEF Typed, Positions
<1>4. \A i \in Items : /\ saved[i] <= target[i] /\ target[i] <= LastOf(log, i)'
                       /\ sync.pc # "idle" => sync.next[i] <= target[i]
  BY <1>2, <1>3 DEF MapsInv
<1>5. ASSUME NEW e \in sync.todo
      PROVE  (IF kind = "s3" THEN e.data ELSE e.pos) <= LastOf(log, e.item)'
  <2>1. e.item \in Items /\ e.data \in Int /\ e.pos \in Int
    BY <1>1 DEF Typed, Syncs, Entries, Positions, Unread
  <2> QED
    BY <1>2, <2>1 DEF MapsInv
<1> QED
  BY <1>1, <1>4, <1>5 DEF MapsInv

\* So a change that moves items only forward keeps every invariant.
LEMMA GrowsKeeps ==
    ASSUME SyncInv, Grows, settled' = FALSE, LogInv', Typed'
    PROVE  SyncInv' /\ SettledInv'
<1>1. Typed /\ LogInv /\ SavedInv /\ FlightInv /\ TodoInv /\ FetchInv /\ GitInv /\ MapsInv
  BY DEF SyncInv
<1>2. SavedInv'
  BY <1>1, GrowsSaved
<1>3. FlightInv'
  BY <1>1, GrowsFlight
<1>4. TodoInv' /\ FetchInv'
  BY <1>1, GrowsTodo, GrowsFetch
<1>5. GitInv' /\ MapsInv'
  BY <1>1, GrowsGit, GrowsMaps
<1>6. CalmInv' /\ SettledIsDone'
  BY DEF CalmInv, SettledIsDone
<1> QED
  BY <1>2, <1>3, <1>4, <1>5, <1>6 DEF SyncInv, SettledInv

\* What an event at the end of the history changes: its item, unless its
\* transaction stays open.
LEMMA AppendFacts ==
    ASSUME Typed, NEW v \in Events, log' = Append(log, v), open' \in {open, open \cup {Len(log) + 1}}, NEW i \in Items
    PROVE  /\ v.item = i /\ open' = open => LastOf(log, i)' = Len(log) + 1 /\ DataIn(log, i)' = v.data
           /\ v.item # i \/ open' # open => Same(i)
<1>1. /\ log \in Seq(Events) /\ Len(log) \in Nat /\ open \subseteq 1 .. Len(log)
      /\ log' \in Seq(Events) /\ Len(log') = Len(log) + 1
      /\ \A p \in 1 .. Len(log) : log'[p] = log[p]
      /\ log'[Len(log) + 1] = v
  <2>1. log \in Seq(Events) /\ open \subseteq 1 .. Len(log)
    BY DEF Typed
  <2> QED
    BY <2>1
<1>2. LastOf(log, i)' = LastAt(log', i, open')
  BY DEF LastOf, LastAt
<1>3. ASSUME v.item = i, open' = open
      PROVE  LastOf(log, i)' = Len(log) + 1 /\ DataIn(log, i)' = v.data
  <2>1. Len(log) + 1 \notin open'
    BY <1>1, <1>3
  <2>2. LastAt(log', i, open') = Len(log) + 1
    <3> DEFINE n == Len(log) + 1
    <3>1. n \in 0 .. Len(log') /\ log'[n].item = i /\ n \notin open' /\ \A p \in 1 .. Len(log') : p <= n
      BY <1>1, <1>3, <2>1
    <3> HIDE DEF n
    <3>2. LastAt(log', i, open') = n
      BY <1>1, <3>1, LastAtIs
    <3> QED
      BY <3>2 DEF n
  <2> QED
    BY <1>1, <1>2, <2>2 DEF DataIn
<1>4. ASSUME v.item # i \/ open' # open
      PROVE  Same(i)
  <2>1. /\ LastOf(log, i) \in 0 .. Len(log)
        /\ LastOf(log, i) # 0 => log[LastOf(log, i)].item = i /\ LastOf(log, i) \notin open
        /\ \A p \in 1 .. Len(log) : log[p].item = i /\ p \notin open => p <= LastOf(log, i)
    BY <1>1, LastOfFacts
  <2> DEFINE n == LastOf(log, i)
  <2>2. n \in 0 .. Len(log') /\ (n # 0 => log'[n] = log[n] /\ n \in 1 .. Len(log))
    BY <1>1, <2>1
  <2>3. n # 0 => log'[n].item = i /\ n \notin open'
    BY <1>1, <2>1, <2>2
  <2>4. ASSUME NEW p \in 1 .. Len(log'), log'[p].item = i, p \notin open'
        PROVE  p <= n
    <3>1. p # Len(log) + 1
      BY <1>1, <1>4, <2>4
    <3>2. p \in 1 .. Len(log) /\ log'[p] = log[p] /\ p \notin open
      BY <1>1, <2>4, <3>1
    <3> QED
      BY <2>1, <2>4, <3>2
  <2>5. LastAt(log', i, open') = n
    <3> HIDE DEF n
    <3> QED
      BY <1>1, <2>2, <2>3, <2>4, LastAtIs
  <2>6. LastOf(log, i)' = LastOf(log, i)
    BY <1>2, <2>5
  <2>7. DataIn(log, i)' = DataIn(log, i)
    BY <2>2, <2>6 DEF DataIn
  <2> QED
    BY <2>6, <2>7 DEF Same
<1> QED
  BY <1>3, <1>4

\* An item is created, edited or deleted.
LEMMA ChangeKeeps ==
    ASSUME Orderly, SyncInv, NEW i \in Items, NEW c, Change(i, c)
    PROVE  SyncInv' /\ SettledInv'
<1> DEFINE n == Len(log) + 1
           v == [item |-> i, data |-> c, parent |-> 0]
<1>1. Typed /\ LogInv /\ SavedInv /\ FlightInv
  BY DEF SyncInv
<1>2. /\ log \in Seq(Events) /\ Len(log) \in Nat /\ MaxLog \in Nat /\ open \subseteq 1 .. Len(log) /\ Len(log) < MaxLog
      /\ Gone = 0 /\ kind \in AllKinds
  BY <1>1, TypeFacts DEF Typed, Change
<1>3. /\ kind # "slack" /\ kind' = kind /\ saved' = saved /\ sync' = sync /\ target' = target /\ faults' = faults
      /\ settled' = FALSE /\ log' = Append(log, v)
      /\ open' \in {open, open \cup {n}} /\ (kind # "table" => open' = open)
  BY DEF Change, consumer
<1>4. c \in {Gone, n}
  <2>1. Contents(i) = {n}
    BY DEF Orderly, Contents
  <2> QED
    BY <2>1 DEF Change
<1>5. v \in Events
  BY <1>2, <1>4 DEF Events, Positions
<1>6. /\ log' \in Seq(Events) /\ Len(log') = n /\ n <= MaxLog
      /\ \A p \in 1 .. Len(log) : log'[p] = log[p]
      /\ log'[n] = v
  BY <1>2, <1>3, <1>5
<1>7. Typed'
  <2>1. open' \subseteq 1 .. Len(log')
    BY <1>2, <1>3, <1>6
  <2>2. saved' \in Cursors' /\ sync' \in Syncs'
    BY <1>1, <1>3 DEF Typed, Cursors, Syncs, Commits
  <2> QED
    BY <1>1, <1>3, <1>6, <2>1, <2>2 DEF Typed
<1>8. LogInv'
  <2>1. ASSUME NEW p \in 1 .. Len(log') PROVE log'[p].data \in {Gone, p}
    <3>1. CASE p = n
      BY <1>4, <1>6, <3>1
    <3>2. CASE p # n
      <4>1. p \in 1 .. Len(log) /\ log'[p] = log[p]
        BY <1>2, <1>6, <3>2
      <4> QED
        BY <1>1, <4>1 DEF LogInv
    <3> QED
      BY <3>1, <3>2
  <2>2. kind = "table" \/ open' = {}
    BY <1>1, <1>3 DEF LogInv
  <2> QED
    BY <1>3, <2>1, <2>2 DEF LogInv
<1>9. ASSUME NEW j \in Items PROVE Same(j) \/ Newer(j)
  <2>1. CASE v.item # j \/ open' # open
    BY <1>1, <1>3, <1>5, <2>1, AppendFacts
  <2>2. CASE v.item = j /\ open' = open
    <3>1. LastOf(log, j)' = n
      BY <1>1, <1>3, <1>5, <2>2, AppendFacts
    <3>2. LastOf(log, j) \in 0 .. Len(log)
      BY <1>1, ItemFacts
    <3>3. LastOf(log, j)' \in Nat /\ LastOf(log, j)' >= LastOf(log, j)
      BY <1>2, <3>1, <3>2
    <3>4. kind \in Counted => Reach(saved) \in Nat /\ Reach(sync.at) \in Nat
      BY <1>1, TypeFacts
    <3>5. ASSUME kind \in Counted, kind \notin Notion
          PROVE  /\ Stamp(j)' \in Nat /\ Stamp(j)' > Reach(saved)
                 /\ sync.pc # "idle" => Stamp(j)' > Reach(sync.at)
      <4>1. Stamp(j)' = n
        BY <1>3, <3>1, <3>5 DEF Stamp
      <4>2. Reach(saved) <= Len(log) /\ (sync.pc # "idle" => Reach(sync.at) <= Len(log))
        BY <1>1, <3>5 DEF SavedInv, FlightInv
      <4> QED
        BY <1>2, <3>4, <3>5, <4>1, <4>2
    <3>6. ASSUME kind \in Notion
          PROVE  /\ Stamp(j)' \in Nat /\ Stamp(j)' > Reach(saved)
                 /\ Stamp(j)' > Reach(sync.at) \/ Awaited(j)
      <4> DEFINE a == IF Awaited(j) THEN 0 ELSE sync.at
      <4>1. Stamp(j)' = Minute(n)
        BY <1>3, <3>1, <3>6 DEF Stamp
      <4>2. Minute(n) \in Nat
        BY <1>2, MinuteFacts
      <4>3. Minute(n) > Max({saved, a})
        <5>1. i = j
          BY <2>2
        <5> QED
          BY <3>6, <5>1 DEF Change, Orderly
      <4>4. Reach(saved) = saved /\ Reach(sync.at) = sync.at /\ saved \in Nat /\ sync.at \in Nat /\ a \in Nat
        BY <3>4, <3>6 DEF Counted, Reach, Git
      <4>5. a = sync.at \/ Awaited(j)
        OBVIOUS
      <4> HIDE DEF a
      <4>6. Max({saved, a}) \in {saved, a} /\ \A y \in {saved, a} : y <= Max({saved, a})
        <5>1. \E x \in {saved, a} : \A y \in {saved, a} : x >= y
          BY <4>4
        <5>2. Max({saved, a}) \in {saved, a} /\ \A y \in {saved, a} : Max({saved, a}) >= y
          BY <5>1 DEF Max
        <5> QED
          BY <4>4, <5>2
      <4>7. Minute(n) > saved /\ Minute(n) > a
        BY <4>2, <4>3, <4>4, <4>6
      <4> QED
        BY <4>1, <4>2, <4>4, <4>5, <4>7
    <3>7. Fetching => kind = "notion_ids" /\ Awaited(j)
      BY <2>2 DEF Change, Orderly, Fetching
    <3>8. Awaited(j) => kind = "notion_ids"
      BY DEF Awaited
    <3>9. Fetching => kind = "notion_ids"
      BY DEF Fetching
    <3> QED
      BY <1>3, <3>3, <3>5, <3>6, <3>7, <3>8, <3>9 DEF Newer
  <2> QED
    BY <2>1, <2>2
<1>10. Grows
  <2>1. \A p \in open' : kind = "table" /\ (p \in open \/ p > Len(log))
    BY <1>1, <1>2, <1>3 DEF LogInv
  <2> QED
    BY <1>2, <1>3, <1>6, <1>9, <2>1 DEF Grows
<1> QED
  BY <1>3, <1>7, <1>8, <1>10, GrowsKeeps

\* A transaction ends: its row shows under the time it was written.
LEMMA CommitKeeps ==
    ASSUME SyncInv, NEW p \in open, Commit(p)
    PROVE  SyncInv' /\ SettledInv'
<1>1. Typed /\ LogInv /\ SavedInv /\ FlightInv
  BY DEF SyncInv
<1>2. /\ log \in Seq(Events) /\ Len(log) \in Nat /\ open \subseteq 1 .. Len(log) /\ p \in 1 .. Len(log) /\ p \in open
  BY <1>1, TypeFacts DEF Typed
<1>3. /\ kind' = kind /\ saved' = saved /\ sync' = sync /\ target' = target /\ faults' = faults
      /\ settled' = FALSE /\ log' = log /\ open' = open \ {p}
  BY DEF Commit, consumer
<1>4. kind = "table"
  BY <1>1 DEF LogInv
<1>5. Typed'
  <2>1. open' \subseteq 1 .. Len(log')
    BY <1>2, <1>3
  <2>2. saved' \in Cursors' /\ sync' \in Syncs'
    BY <1>1, <1>3 DEF Typed, Cursors, Syncs, Commits
  <2> QED
    BY <1>1, <1>3, <2>1, <2>2 DEF Typed
<1>6. LogInv'
  BY <1>1, <1>3, <1>4 DEF LogInv
<1>7. ASSUME NEW j \in Items PROVE Same(j) \/ Newer(j)
  <2> DEFINE n == LastOf(log, j)
  <2>1. LastOf(log, j)' = LastAt(log, j, open')
    BY <1>3 DEF LastOf, LastAt
  <2>2. /\ n \in 0 .. Len(log)
        /\ n # 0 => log[n].item = j /\ n \notin open
        /\ \A q \in 1 .. Len(log) : log[q].item = j /\ q \notin open => q <= n
    BY <1>2, LastOfFacts
  <2>3. n # 0 => n \notin open'
    BY <1>3, <2>2
  <2>4. CASE log[p].item # j \/ p <= n
    <3>1. \A q \in 1 .. Len(log) : log[q].item = j /\ q \notin open' => q <= n
      BY <1>3, <2>2, <2>4
    <3>2. LastAt(log, j, open') = n
      <4> HIDE DEF n
      <4> QED
        BY <1>2, <2>2, <2>3, <3>1, LastAtIs
    <3> QED
      BY <1>3, <2>1, <3>2 DEF Same, DataIn
  <2>5. CASE log[p].item = j /\ ~ (p <= n)
    <3>1. \A q \in 1 .. Len(log) : log[q].item = j /\ q \notin open' => q <= p
      BY <1>2, <1>3, <2>2, <2>5
    <3>2. p \in 0 .. Len(log) /\ p # 0 /\ p \notin open'
      BY <1>2, <1>3
    <3>3. LastAt(log, j, open') = p
      BY <1>2, <2>5, <3>1, <3>2, LastAtIs
    <3>4. LastOf(log, j)' = p /\ Stamp(j)' = p
      BY <1>3, <1>4, <2>1, <3>3 DEF Stamp
    <3>5. p > Reach(saved) /\ (sync.pc # "idle" => p > Reach(sync.at))
      BY <1>1, <1>4 DEF SavedInv, FlightInv, Counted, Reach, Git
    <3>6. p \in Nat /\ p >= n
      BY <1>2, <2>2, <2>5
    <3> QED
      BY <1>4, <3>4, <3>5, <3>6 DEF Newer, Fetching
  <2> QED
    BY <2>4, <2>5
<1>8. Grows
  BY <1>2, <1>3, <1>4, <1>7 DEF Grows
<1> QED
  BY <1>3, <1>5, <1>6, <1>8, GrowsKeeps

\* A message is posted: to the channel, or as a reply that no sync passes by.
LEMMA PostedKeeps ==
    ASSUME SyncInv, NEW i \in Items, NEW r \in 0 .. Len(log), kind = "slack", Posted(i, r),
           r # 0 => r > saved /\ sync.pc = "idle" /\ log[r].parent = 0
    PROVE  SyncInv' /\ SettledInv'
<1> DEFINE n == Len(log) + 1
           v == [item |-> i, data |-> n, parent |-> r]
<1>1. Typed /\ LogInv /\ SavedInv /\ FlightInv
  BY DEF SyncInv
<1>2. /\ log \in Seq(Events) /\ Len(log) \in Nat /\ MaxLog \in Nat /\ open \subseteq 1 .. Len(log) /\ Len(log) < MaxLog
      /\ Gone = 0 /\ open = {} /\ i \notin Live(log) /\ i \notin Unwanted /\ n # 0
  BY <1>1, TypeFacts DEF Typed, Posted, LogInv
<1>3. /\ kind' = kind /\ saved' = saved /\ sync' = sync /\ target' = target /\ faults' = faults
      /\ settled' = FALSE /\ log' = Append(log, v) /\ open' = open
  BY DEF Posted, consumer
<1>4. v \in Events
  BY <1>2 DEF Events, Positions
<1>5. /\ log' \in Seq(Events) /\ Len(log') = n /\ n <= MaxLog
      /\ \A p \in 1 .. Len(log) : log'[p] = log[p]
      /\ log'[n] = v
  BY <1>2, <1>3, <1>4
<1>6. Typed'
  <2>1. open' \subseteq 1 .. Len(log')
    BY <1>2, <1>3
  <2>2. saved' \in Cursors' /\ sync' \in Syncs'
    BY <1>1, <1>3 DEF Typed, Cursors, Syncs, Commits
  <2> QED
    BY <1>1, <1>3, <1>5, <2>1, <2>2 DEF Typed
<1>7. \A p \in 1 .. Len(log) : log[p].item \in Live(log) /\ log[p].item # i
  BY <1>1, <1>2, SlackFacts
<1>8. ASSUME NEW p \in 1 .. Len(log')
      PROVE  /\ log'[p].data = p /\ LastOf(log, log[p].item)' = p /\ log'[p].item \notin Unwanted
             /\ log'[p].parent # 0 => log'[p].parent \in 1 .. p - 1 /\ log'[log'[p].parent].parent = 0
  <2>1. LastOf(log, log[p].item)' = LastAt(log', log'[p].item, open')
    BY DEF LastOf, LastAt
  <2>2. CASE p = n
    <3>1. log'[p] = v
      BY <1>5, <2>2
    <3>2. LastOf(log, i)' = n
      BY <1>1, <1>3, <1>4, AppendFacts
    <3>3. r # 0 => r \in 1 .. n - 1 /\ log'[r] = log[r]
      BY <1>2, <1>5
    <3>4. LastAt(log', i, open') = n
      BY <3>2 DEF LastOf, LastAt
    <3>5. LastOf(log, log[p].item)' = p
      BY <2>1, <2>2, <3>1, <3>4
    <3> QED
      BY <1>2, <2>2, <3>1, <3>3, <3>5
  <2>3. CASE p # n
    <3>1. p \in 1 .. Len(log) /\ log'[p] = log[p]
      BY <1>2, <1>5, <2>3
    <3>2. /\ log[p].item \in Items /\ log[p].item \notin Unwanted /\ log[p].data = p /\ LastOf(log, log[p].item) = p
          /\ log[p].parent # 0 => log[p].parent \in 1 .. p - 1 /\ log[log[p].parent].parent = 0
      BY <1>1, <3>1, TypeFacts DEF LogInv
    <3>3. log[p].parent # 0 => log'[log[p].parent] = log[log[p].parent]
      BY <1>2, <1>5, <3>1, <3>2
    <3>4. PICK j \in Items : j = log[p].item
      BY <3>2
    <3>5. LastOf(log, j)' = p
      BY <1>1, <1>3, <1>4, <1>7, <3>1, <3>2, <3>4, AppendFacts DEF Same
    <3>6. LastAt(log', j, open') = p
      BY <3>5 DEF LastOf, LastAt
    <3> QED
      BY <2>1, <3>1, <3>2, <3>3, <3>4, <3>6
  <2> QED
    BY <2>2, <2>3
<1>9. LogInv'
  BY <1>2, <1>3, <1>5, <1>8 DEF LogInv
<1>10. ASSUME NEW j \in Items PROVE Same(j) \/ Newer(j)
  <2>1. CASE i # j
    BY <1>1, <1>3, <1>4, <2>1, AppendFacts
  <2>2. CASE i = j
    <3>1. LastOf(log, j)' = n
      BY <1>1, <1>3, <1>4, <2>2, AppendFacts
    <3>2. LastOf(log, j) \in 0 .. Len(log)
      BY <1>1, ItemFacts
    <3>3. LastOf(log, j)' \in Nat /\ LastOf(log, j)' >= LastOf(log, j)
      BY <1>2, <3>1, <3>2
    <3>4. Stamp(j)' = IF r # 0 THEN r ELSE n
      BY <1>2, <1>3, <1>5, <3>1 DEF Stamp
    <3>5. /\ Reach(saved) = saved /\ saved \in Nat /\ saved <= Len(log)
          /\ sync.pc # "idle" => Reach(sync.at) = sync.at /\ sync.at \in Nat /\ sync.at <= Len(log)
      <4>1. kind \in Counted /\ Reach(saved) = saved /\ Reach(sync.at) = sync.at
        BY DEF Counted, Reach, Git
      <4>2. saved \in Nat /\ sync.at \in Nat
        BY <1>1, <4>1, TypeFacts
      <4> QED
        BY <1>1, <4>1, <4>2 DEF SavedInv, FlightInv
    <3>6. Stamp(j)' \in Nat /\ Stamp(j)' > saved /\ (sync.pc # "idle" => Stamp(j)' > sync.at)
      BY <1>2, <3>4, <3>5
    <3> QED
      BY <1>2, <2>2, <3>3, <3>5, <3>6 DEF Newer, Fetching
  <2> QED
    BY <2>1, <2>2
<1>11. Grows
  <2>1. ASSUME sync.pc # "idle", NEW p \in 1 .. Len(log'), p > Len(log)
        PROVE  log'[p].parent = 0
    <3>1. p = n /\ r = 0
      BY <1>2, <1>5, <2>1
    <3> QED
      BY <1>5, <3>1
  <2> QED
    BY <1>2, <1>3, <1>5, <1>10, <2>1 DEF Grows
<1> QED
  BY <1>3, <1>6, <1>9, <1>11, GrowsKeeps

\* A reset of the branch before anything was synced.
LEMMA RewriteKeeps ==
    ASSUME Orderly, SyncInv, NEW n \in 1 .. Len(log), Rewrite(n)
    PROVE  SyncInv' /\ SettledInv'
<1>1. Typed /\ LogInv /\ GitInv
  BY DEF SyncInv
<1>2. /\ kind \in Git /\ saved = <<>> /\ sync.pc = "idle" /\ n \in 1 .. Len(log) - 1
      /\ kind' = kind /\ saved' = saved /\ sync' = sync /\ target' = target
      /\ settled' = FALSE /\ log' = SubSeq(log, 1, n) /\ open' = open /\ open = {}
      /\ faults' = faults + 1 /\ faults < MaxFaults
  BY <1>1 DEF Rewrite, Orderly, LogInv, Git
<1>3. /\ log \in Seq(Events) /\ Len(log) \in Nat /\ Len(log) <= MaxLog /\ MaxLog \in Nat
      /\ kind \notin Maps /\ kind \notin {"table", "slack"} \cup Notion
  BY <1>1, <1>2, TypeFacts DEF Maps, Git
<1>4. log' \in Seq(Events) /\ Len(log') = n /\ \A p \in 1 .. n : p \in 1 .. Len(log) /\ log'[p] = log[p]
  BY <1>2, <1>3
<1>5. Typed'
  <2>1. Len(log') <= MaxLog /\ open' \subseteq 1 .. Len(log')
    BY <1>2, <1>3, <1>4
  <2>2. saved' \in Cursors' /\ sync' \in Syncs'
    BY <1>1, <1>2 DEF Typed, Cursors, Syncs, Commits
  <2>3. faults' \in 0 .. MaxFaults
    <3>1. MaxFaults \in Nat
      BY SourcesAssumption, Zenon
    <3> QED
      BY <1>1, <1>2, <3>1 DEF Typed
  <2> QED
    BY <1>1, <1>2, <1>4, <2>1, <2>2, <2>3 DEF Typed
<1>6. LogInv'
  BY <1>1, <1>2, <1>3, <1>4 DEF LogInv
<1>7. SavedInv'
  <2>1. Reach(saved)' = 0
    BY <1>2 DEF Reach
  <2>2. ASSUME NEW i \in Items, Wanted(i)' PROVE ~ (Stamp(i)' <= 0)
    <3>1. DataIn(log, i)' # Gone
      BY <2>2 DEF Wanted, Live
    <3>2. LastOf(log, i)' # 0
      BY <3>1 DEF DataIn
    <3>3. LastOf(log, i)' = LastAt(log', i, {})
      BY <1>2 DEF LastOf, LastAt
    <3>4. LastAt(log', i, {}) = LastOf(log', i)
      BY <1>2 DEF LastOf, LastAt
    <3>5. LastOf(log', i) \in 0 .. Len(log')
      BY <1>4, LastOfFacts
    <3>6. Stamp(i)' = LastOf(log, i)'
      BY <1>2, <1>3 DEF Stamp
    <3> QED
      BY <1>4, <3>2, <3>3, <3>4, <3>5, <3>6
  <2> QED
    BY <1>2, <1>4, <2>1, <2>2 DEF SavedInv
<1>8. FlightInv' /\ MapsInv' /\ CalmInv' /\ SettledIsDone'
  BY <1>2, <1>3 DEF FlightInv, MapsInv, CalmInv, SettledIsDone
<1>9. TodoInv'
  BY <1>1, <1>2 DEF TodoInv, Typed
<1>11. FetchInv'
  BY <1>2 DEF FetchInv, Git
<1>10. GitInv'
  <2>1. Len(saved') = 0 /\ SubSeq(log', 1, 0) = <<>>
    BY <1>2, <1>4
  <2> QED
    BY <1>2, <1>4, <2>1 DEF GitInv
<1> QED
  BY <1>5, <1>6, <1>7, <1>8, <1>9, <1>10, <1>11 DEF SyncInv, SettledInv

-----------------------------------------------------------------------------
(* A sync begins.                                                          *)

\* Notion's next cursor is no earlier than the last one, nor than any page.
LEMMA LatestFacts ==
    ASSUME Typed, saved \in Positions, NEW es \in SUBSET Entries
    PROVE  LatestEdit(es) \in Positions /\ saved <= LatestEdit(es) /\ \A e \in es : Minute(e.pos) <= LatestEdit(es)
<1> DEFINE S == {saved} \cup {Minute(e.pos) : e \in es}
<1>1. MaxLog \in Nat
  BY TypeFacts
<1>2. \A e \in es : Minute(e.pos) \in 0 .. MaxLog
  <2> SUFFICES ASSUME NEW e \in es PROVE Minute(e.pos) \in 0 .. MaxLog
    OBVIOUS
  <2>1. e.pos \in Nat /\ e.pos <= MaxLog
    BY <1>1 DEF Entries, Positions
  <2>2. Minute(e.pos) \in Nat /\ Minute(e.pos) <= e.pos
    BY <2>1, MinuteFacts
  <2> QED
    BY <1>1, <2>1, <2>2
<1>3. S \in SUBSET (0 .. MaxLog) /\ S # {}
  BY <1>2 DEF Positions
<1>4. Max(S) \in S /\ \A y \in S : y <= Max(S)
  <2> HIDE DEF S
  <2> QED
    BY <1>1, <1>3, BoundedMax
<1> QED
  BY <1>3, <1>4 DEF LatestEdit, Positions

\* The files and pages that are named, and have not been asked for.
LEMMA NamedFacts ==
    ASSUME Typed, LogInv, kind \in {"drive_ids", "notion_ids"}
    PROVE  /\ Named \in SUBSET Entries
           /\ \A e \in Named : /\ e.pos = 0 /\ ~ e.replies /\ e.item \in Items
                               /\ kind = "notion_ids" => e.data = Unread /\ e.item \in Live(log) \ Unwanted
           /\ kind = "drive_ids" => \A i \in Items \ Unwanted : \E e \in Named : e.item = i
           /\ kind = "notion_ids" => \A i \in Live(log) \ Unwanted : \E e \in Named : e.item = i
<1> DEFINE Bare(i) == [EntryOf(i) EXCEPT !.pos = 0]
           Ids == (IF kind = "notion_ids" THEN Live(log) ELSE Items) \ Unwanted
<1>1. ASSUME NEW i \in Items
      PROVE  /\ Bare(i) \in Entries /\ Bare(i).pos = 0 /\ Bare(i).item = i /\ ~ Bare(i).replies
             /\ kind = "notion_ids" => Bare(i).data = Unread
  <2>1. /\ EntryOf(i) \in Entries /\ EntryOf(i).item = i /\ ~ EntryOf(i).replies
        /\ kind = "notion_ids" => EntryOf(i).data = Unread
    BY EntryFacts
  <2>2. 0 \in Positions
    BY TypeFacts DEF Gone
  <2> QED
    BY <2>1, <2>2 DEF Entries
<1>2. /\ Ids \subseteq Items
      /\ kind = "drive_ids" => Ids = Items \ Unwanted
      /\ kind = "notion_ids" => Ids = Live(log) \ Unwanted
  BY DEF Live
<1>3. Named = {Bare(i) : i \in Ids}
  BY DEF Named
<1> HIDE DEF Bare, Ids
<1>4. \A e \in Named : \E i \in Ids : e = Bare(i)
  BY <1>3
<1>5. \A i \in Ids : \E e \in Named : e.item = i
  BY <1>1, <1>2, <1>3
<1>6. Named \in SUBSET Entries
  BY <1>1, <1>2, <1>4
<1>7. \A e \in Named : /\ e.pos = 0 /\ ~ e.replies /\ e.item \in Items
                       /\ kind = "notion_ids" => e.data = Unread /\ e.item \in Live(log) \ Unwanted
  BY <1>1, <1>2, <1>4
<1>8. kind = "drive_ids" => \A i \in Items \ Unwanted : \E e \in Named : e.item = i
  BY <1>2, <1>5
<1>9. kind = "notion_ids" => \A i \in Live(log) \ Unwanted : \E e \in Named : e.item = i
  BY <1>2, <1>5
<1> QED
  BY <1>6, <1>7, <1>8, <1>9

\* A step of the consumer leaves what holds of the source.
LEMMA SameLog ==
    ASSUME LogInv, UNCHANGED <<kind, log, open>>
    PROVE  LogInv'
BY DEF LogInv, LastOf

\* Nor does a step that leaves the source and the cursor alone change what
\* would be listed.
LEMMA SameChanged ==
    ASSUME UNCHANGED <<kind, log, open, saved>>
    PROVE  Changed(saved)' = Changed(saved) /\ Left' = Left
<1>1. Changed(saved)' = Changed(saved)
  BY DEF Changed, FeedEntries, Blobs, TableRows, S3Objects, DriveSelected, DriveChanges,
     DriveFiles, DropboxChanges, DropboxFolder, NotionPages, NotionChanged, NotionQuery, GithubChanges,
     GithubWalk, GitlabChanges, GitlabTree, Compared, SlackMessages, History, MergeBase, Live, DataIn, LastOf
<1> QED
  BY <1>1 DEF Left

\* What a listing says is so when it is made.
LEMMA ListingIsTrue ==
    ASSUME Typed, LogInv, NEW c, NEW e \in Listing(c)
    PROVE  /\ e.item \in Items /\ e.item \in Changed(c) \ Left /\ e.pos = LastOf(log, e.item) /\ e.thread = e.pos
           /\ e.data \in {Unread, DataIn(log, e.item)}
           /\ kind \in {"rss", "table", "s3", "slack"} \cup Git => e.data = DataIn(log, e.item) /\ e.data # Unread
           /\ kind # "slack" => e.item \in Live(log) /\ ~e.replies /\ log[e.pos].item = e.item /\ log[e.pos].data = DataIn(log, e.item)
           /\ kind = "slack" => /\ e.item \in Live(log) /\ e.pos \in 1 .. Len(log) /\ log[e.pos].parent = 0
                                /\ log[e.pos].item = e.item /\ e.pos > c /\ e.replies = (Replies(e.pos) # {})
<1>1. e.item \in Changed(c) \ Left /\ e = EntryOf(e.item) /\ Changed(c) \subseteq Items
  BY ListingFacts
<1>2. e.item \in Items
  BY <1>1
<1>3. /\ e.pos = LastOf(log, e.item) /\ e.thread = LastOf(log, e.item)
      /\ e.data \in {Unread, DataIn(log, e.item)}
      /\ kind \in {"rss", "table", "s3", "slack"} \cup Git => e.data = DataIn(log, e.item)
      /\ e.replies = (kind = "slack" /\ Replies(LastOf(log, e.item)) # {})
  <2>1. PICK i \in Items : i = e.item
    BY <1>2
  <2> QED
    BY <1>1, <2>1, EntryFacts
<1>4. DataIn(log, e.item) # Unread
  BY <1>2, ItemFacts, TypeFacts
<1>5. ASSUME kind # "slack"
      PROVE  e.item \in Live(log) /\ ~e.replies /\ log[e.pos].item = e.item /\ log[e.pos].data = DataIn(log, e.item)
  <2>1. e.item \in Live(log)
    BY <1>1, <1>5, ListingFacts
  <2>2. LastOf(log, e.item) # 0 /\ log[LastOf(log, e.item)].item = e.item
    BY <1>2, <2>1, ItemFacts
  <2>3. log[LastOf(log, e.item)].data = DataIn(log, e.item)
    BY <2>2 DEF DataIn
  <2> QED
    BY <1>3, <1>5, <2>1, <2>2, <2>3
<1>6. ASSUME kind = "slack"
      PROVE  /\ e.item \in Live(log) /\ e.pos \in 1 .. Len(log) /\ log[e.pos].parent = 0
             /\ log[e.pos].item = e.item /\ e.pos > c /\ e.replies = (Replies(e.pos) # {})
  <2>1. PICK p \in 1 .. Len(log) : log[p].parent = 0 /\ p > c /\ log[p].item = e.item
    BY <1>1, <1>6 DEF Changed, SlackMessages, History
  <2>2. LastOf(log, e.item) = p /\ e.item \in Live(log)
    BY <1>6, <2>1, SlackFacts
  <2> QED
    BY <1>3, <1>6, <2>1, <2>2
<1> QED
  BY <1>1, <1>2, <1>3, <1>4, <1>5, <1>6

\* A listing made now is what TodoInv asks of it.
LEMMA ListingTodo ==
    ASSUME Typed, LogInv, UNCHANGED <<kind, log, open>>, NEW c, sync'.todo = Listing(c),
           kind \in {"table", "slack"} => sync'.next = c /\ sync'.at = Len(log)
    PROVE  TodoInv'
<1>1. SUFFICES ASSUME NEW e \in Listing(c)
      PROVE  /\ e.replies => kind = "slack"
             /\ /\ kind \in {"table", "slack"} \cup Notion
                   /\ e.item \in Live(log)' /\ Stamp(e.item)' <= sync'.at
                => e.data \in {Unread, DataIn(log, e.item)'}
             /\ kind \in {"rss", "table", "s3", "slack"} \cup Git => e.data # Unread
             /\ kind = "table" =>
                   /\ e.pos > sync'.next /\ e.pos <= sync'.at /\ e.thread = e.pos /\ ~e.replies
                   /\ log'[e.pos].item = e.item /\ log'[e.pos].data = e.data
                   /\ LastOf(log, e.item)' <= sync'.at => e.pos = LastOf(log, e.item)'
             /\ kind = "slack" =>
                   /\ e.item \in Live(log)' /\ e.pos = LastOf(log, e.item)' /\ e.pos <= sync'.at
                   /\ e.replies = (Replies(e.pos)' # {})
  BY DEF TodoInv
<1>2. /\ e.item \in Items /\ e.item \in Changed(c) \ Left /\ e.pos = LastOf(log, e.item) /\ e.thread = e.pos
      /\ e.data \in {Unread, DataIn(log, e.item)}
      /\ kind \in {"rss", "table", "s3", "slack"} \cup Git => e.data = DataIn(log, e.item) /\ e.data # Unread
      /\ kind # "slack" => e.item \in Live(log) /\ ~e.replies /\ log[e.pos].item = e.item /\ log[e.pos].data = DataIn(log, e.item)
      /\ kind = "slack" => e.item \in Live(log) /\ e.pos \in 1 .. Len(log) /\ e.replies = (Replies(e.pos) # {})
  BY ListingIsTrue
<1>3. /\ LastOf(log, e.item)' = LastOf(log, e.item) /\ DataIn(log, e.item)' = DataIn(log, e.item)
      /\ Live(log)' = Live(log) /\ Replies(e.pos)' = Replies(e.pos) /\ log' = log
  BY <1>2, SameSource
<1>4. kind = "table" => e.pos > c
  BY <1>2, ChangedFacts
<1>5. LastOf(log, e.item) <= Len(log)
  BY <1>2, ItemFacts
<1>6. kind = "table" =>
         /\ e.pos > sync'.next /\ e.pos <= sync'.at /\ e.thread = e.pos /\ ~e.replies
         /\ log'[e.pos].item = e.item /\ log'[e.pos].data = e.data
         /\ LastOf(log, e.item)' <= sync'.at => e.pos = LastOf(log, e.item)'
  BY <1>2, <1>3, <1>4, <1>5
<1>7. kind = "slack" =>
         /\ e.item \in Live(log)' /\ e.pos = LastOf(log, e.item)' /\ e.pos <= sync'.at
         /\ e.replies = (Replies(e.pos)' # {})
  BY <1>2, <1>3, <1>5
<1> QED
  BY <1>2, <1>3, <1>6, <1>7

\* After a listing, an item is as it was written, or it is listed.
LEMMA ListedIsComing ==
    ASSUME Typed, LogInv, SavedInv, GitInv, kind \in Counted, UNCHANGED <<kind, log, open, target>>,
           sync'.todo = Listing(saved), NEW i \in Items, Wanted(i)'
    PROVE  Current(i)' \/ Coming(i)'
<1>1. /\ Wanted(i) /\ DataIn(log, i)' = DataIn(log, i) /\ LastOf(log, i)' = LastOf(log, i)
      /\ kind' = kind /\ log' = log /\ target' = target
  BY SameSource
<1>2. CASE Current(i)
  BY <1>1, <1>2 DEF Current
<1>3. CASE ~ Current(i)
  <2>1. ~ (Stamp(i) <= Reach(saved))
    BY <1>1, <1>3 DEF SavedInv
  <2>2. Stamp(i) \in Nat /\ Reach(saved) \in Nat
    BY StampFacts, TypeFacts
  <2>3. \E e \in Listing(saved) : e.item = i \/ (kind = "slack" /\ log[LastOf(log, i)].parent = e.pos)
    BY <1>1, <2>1, <2>2, BeyondIsDue
  <2> QED
    BY <1>1, <2>3 DEF Coming
<1> QED
  BY <1>2, <1>3

\* A sync begins: with a listing, or with a mark that a listing will follow.
LEMMA StartKeeps ==
    ASSUME Orderly, SyncInv, Start
    PROVE  SyncInv' /\ SettledInv'
<1> DEFINE found == IF kind \in {"drive_ids", "notion_ids"} THEN Named
                    ELSE Listing(saved)
           at == CASE kind \in Git -> log
                   [] kind = "notion" -> LatestEdit(found)
                   [] kind = "notion_ids" -> saved
                   [] OTHER -> Mark
           pc == IF ListsLater THEN "list" ELSE "emit"
           todo == IF ListsLater THEN {} ELSE found
<1>1. Typed /\ LogInv /\ SavedInv /\ FlightInv /\ TodoInv /\ GitInv /\ MapsInv
  BY DEF SyncInv
<1>2. /\ sync' = [pc |-> pc, at |-> at, todo |-> todo, next |-> saved] /\ settled' = TRUE
      /\ kind' = kind /\ log' = log /\ open' = open /\ saved' = saved /\ target' = target /\ faults' = faults
      /\ open = {}
  BY DEF Start, source, Orderly
<1>3. found \in SUBSET Entries
  <2>1. Listing(saved) \in SUBSET Entries
    BY <1>1, ListingFacts
  <2>2. kind \in {"drive_ids", "notion_ids"} => Named \in SUBSET Entries
    BY <1>1, NamedFacts
  <2> QED
    BY <2>1, <2>2
<1>4. /\ kind \in Git => at = log
      /\ kind = "notion" => at = LatestEdit(found)
      /\ kind = "notion_ids" => at = saved
      /\ kind \notin Git \cup Notion => at = Len(log)
  BY DEF Mark, Git
<1>5. /\ kind \notin {"drive_ids", "notion_ids"} => found = Listing(saved)
      /\ kind \in {"drive_ids", "notion_ids"} => found = Named
  OBVIOUS
<1>6. pc \in {"list", "emit"} /\ (pc = "list" => ListsLater /\ todo = {}) /\ (pc = "emit" => ~ ListsLater /\ todo = found)
  OBVIOUS
<1>7. sync'.pc = pc /\ sync'.at = at /\ sync'.todo = todo /\ sync'.next = saved
  BY <1>2
<1> HIDE DEF found, at, pc, todo
<1>8. /\ \A i \in Items : /\ LastOf(log, i)' = LastOf(log, i) /\ DataIn(log, i)' = DataIn(log, i)
                          /\ Stamp(i)' = Stamp(i) /\ (Wanted(i)' <=> Wanted(i))
      /\ Live(log)' = Live(log)
  BY <1>2, SameSource
<1>9. /\ kind \in Notion => saved \in Positions /\ at \in Positions /\ saved <= at
      /\ kind = "notion" => \A e \in found : Minute(e.pos) <= at
  <2>1. kind \in Notion => saved \in Positions /\ MaxLog \in Nat
    BY <1>1, TypeFacts DEF Maps, Git
  <2>2. saved \in Positions /\ MaxLog \in Nat => saved <= saved
    BY DEF Positions
  <2> QED
    BY <1>1, <1>3, <1>4, <2>1, <2>2, LatestFacts DEF Git
<1>10. at \in Commits
  BY <1>1, <1>4, <1>9, TypeFacts DEF Commits, Git
<1>11. Typed'
  <2>1. todo \in SUBSET Entries
    BY <1>3, <1>6
  <2>2. sync' \in Syncs
    BY <1>1, <1>2, <1>6, <1>10, <2>1 DEF Syncs, Typed
  <2>3. sync' \in Syncs' /\ saved' \in Cursors'
    BY <1>1, <1>2, <2>2 DEF Syncs, Cursors, Commits, Typed
  <2> QED
    BY <1>1, <1>2, <1>6, <1>7, <2>3 DEF Typed, ListsLater
<1>12. LogInv'
  BY <1>1, <1>2, SameLog
<1>13. SavedInv'
  BY <1>1, <1>2, <1>8 DEF SavedInv, Reach, Current
<1>14. FlightInv'
  <2> SUFFICES ASSUME kind \in Counted PROVE FlightInv'
    BY <1>2 DEF FlightInv
  <2>1. Reach(saved) \in Nat /\ Len(log) \in Nat /\ MaxLog \in Nat
    BY <1>1, TypeFacts
  <2>2. Reach(saved) <= Reach(sync.at)' /\ (kind \notin Notion => Reach(sync.at)' <= Len(log))
    <3>1. CASE kind \in Notion
      BY <1>2, <1>7, <1>9, <3>1 DEF Reach, Git
    <3>2. CASE kind \notin Notion
      <4>1. Reach(saved) <= Len(log)
        BY <1>1, <3>2 DEF SavedInv
      <4>2. Reach(sync.at)' = Len(log)
        BY <1>2, <1>4, <1>7, <3>2 DEF Reach
      <4> QED
        BY <2>1, <4>1, <4>2
    <3> QED
      BY <3>1, <3>2
  <2>3. Reach(saved)' = Reach(saved) /\ Reach(sync.next)' = Reach(saved)
    BY <1>2, <1>7 DEF Reach
  <2>4. pc = "list" => Reach(saved) = 0
    BY <1>6 DEF ListsLater, Reach, Git
  <2>7. ASSUME kind = "notion_ids", NEW i \in Items, Wanted(i)'
        PROVE  Coming(i)'
    <3>1. i \in Live(log) \ Unwanted
      BY <1>8, <2>7 DEF Wanted
    <3>2. sync'.todo = Named
      BY <1>5, <1>6, <1>7, <2>7 DEF ListsLater
    <3> QED
      BY <1>1, <2>7, <3>1, <3>2, NamedFacts DEF Coming
  <2>5. ASSUME pc = "emit", NEW i \in Items, Wanted(i)'
        PROVE  Current(i)' \/ Coming(i)'
    <3>1. CASE kind # "notion_ids"
      <4>1. sync'.todo = Listing(saved)
        BY <1>5, <1>6, <1>7, <2>5, <3>1 DEF Counted, Git
      <4> QED
        BY <1>1, <1>2, <2>5, <4>1, ListedIsComing
    <3>2. CASE kind = "notion_ids"
      BY <2>7, <2>5, <3>2
    <3> QED
      BY <3>1, <3>2
  <2>6. kind = "slack" => \A p \in 1 .. Len(log) : p <= sync'.at
    BY <1>4, <1>7, <2>1 DEF Git
  <2> QED
    BY <1>2, <1>7, <2>2, <2>3, <2>4, <2>5, <2>6 DEF FlightInv
<1>15. TodoInv'
  <2>1. CASE todo = {}
    BY <1>7, <2>1 DEF TodoInv
  <2>2. CASE kind \notin {"drive_ids", "notion_ids"} /\ todo = found
    <3>1. kind \in {"table", "slack"} => sync'.next = saved /\ sync'.at = Len(log)
      BY <1>4, <1>7 DEF Git
    <3> QED
      BY <1>1, <1>2, <1>5, <1>7, <2>2, <3>1, ListingTodo
  <2>3. CASE kind \in {"drive_ids", "notion_ids"} /\ todo = found
    <3>1. \A e \in todo : ~ e.replies /\ (kind = "notion_ids" => e.data = Unread)
      BY <1>1, <1>5, <2>3, NamedFacts
    <3> QED
      BY <1>2, <1>7, <2>3, <3>1 DEF TodoInv, Git
  <2> QED
    BY <1>6, <2>1, <2>2, <2>3
<1>16. GitInv'
  <2>1. kind \in Git => log = SubSeq(log, 1, Len(log)) /\ Len(log) \in Nat
    <3>1. log \in Seq(Events)
      BY <1>1, TypeFacts
    <3> QED
      BY <3>1
  <2> QED
    BY <1>1, <1>2, <1>4, <1>7, <2>1 DEF GitInv
<1>17. MapsInv'
  <2> SUFFICES ASSUME kind \in Maps PROVE MapsInv'
    BY <1>2 DEF MapsInv
  <2>1. ASSUME NEW e \in todo
        PROVE  (IF kind = "s3" THEN e.data ELSE e.pos) <= LastOf(log, e.item)'
    <3>1. todo = found
      BY <1>6, <2>1
    <3>2. CASE kind = "s3"
      <4>1. e \in Listing(saved)
        BY <1>5, <2>1, <3>1, <3>2
      <4>2. e.item \in Live(log) /\ e.data = DataIn(log, e.item) /\ e.item \in Items
        BY <1>1, <3>2, <4>1, ListingIsTrue
      <4>3. e.data = LastOf(log, e.item) /\ LastOf(log, e.item) \in Nat
        BY <1>1, <4>2, ItemFacts
      <4> QED
        BY <1>8, <3>2, <4>2, <4>3
    <3>3. CASE kind = "drive_ids"
      <4>3. e.pos = 0 /\ e.item \in Items
        BY <1>1, <1>5, <2>1, <3>1, <3>3, NamedFacts
      <4>4. LastOf(log, e.item) \in Nat
        BY <1>1, <4>3, ItemFacts
      <4> QED
        BY <1>8, <3>3, <4>3, <4>4
    <3> QED
      BY <3>2, <3>3 DEF Maps
  <2>2. \A i \in Items : saved[i] <= target[i] /\ target[i] <= LastOf(log, i)
    BY <1>1 DEF MapsInv
  <2> QED
    BY <1>2, <1>7, <1>8, <2>1, <2>2 DEF MapsInv
<1>18. CalmInv'
  <2>1. Len(log) \in Nat /\ kind \in AllKinds
    BY <1>1, TypeFacts
  <2>2. kind \notin {"drive_ids", "notion_ids"} =>
           /\ \A i \in Changed(saved) \ Left : \E e \in found : e.item = i
           /\ {e.item : e \in found} = Changed(saved) \ Left
    BY <1>1, <1>5, ListingFacts
  <2>3. kind = "notion" => \A i \in Live(log) \ Unwanted : Minute(LastOf(log, i)) <= at
    <3> SUFFICES ASSUME kind = "notion", NEW i \in Live(log) \ Unwanted PROVE Minute(LastOf(log, i)) <= at
      OBVIOUS
    <3>1. i \in Items /\ saved \in Nat /\ at \in Nat /\ saved <= at
      BY <1>9, TypeFacts, <1>1 DEF Live, Positions
    <3>2. LastOf(log, i) \in Nat
      BY <1>1, <3>1, ItemFacts
    <3>3. Minute(LastOf(log, i)) \in Nat
      BY <3>2, MinuteFacts
    <3>4. CASE i \in Changed(saved)
      <4>1. EntryOf(i) \in found /\ EntryOf(i).pos = LastOf(log, i)
        <5>1. EntryOf(i) \in Listing(saved)
          BY <1>1, <3>4, ListingFacts DEF Left
        <5> QED
          BY <1>1, <1>5, <3>1, <5>1, EntryFacts
      <4> QED
        BY <1>9, <4>1
    <3>5. CASE i \notin Changed(saved)
      <4>1. ~ (Minute(LastOf(log, i)) > saved)
        BY <1>1, <3>1, <3>5, ChangedFacts
      <4> QED
        BY <3>1, <3>3, <4>1
    <3> QED
      BY <3>4, <3>5
  <2>4. pc = "emit" => sync'.todo = found
    BY <1>6, <1>7
  <2>5. kind \in {"table", "s3", "drive_ids", "notion_ids", "slack"} => todo = found
    BY <1>6 DEF ListsLater
  <2>6. ASSUME kind = "table", NEW i \in Live(log)
        PROVE  LastOf(log, i) <= saved \/ \E e \in todo : e.item = i
    <3>1. saved \in Int /\ LastOf(log, i) \in Int
      <4>1. saved \in Positions /\ i \in Items
        BY <1>1, <2>6, TypeFacts DEF Maps, Git, Live
      <4> QED
        BY <1>1, <4>1, ItemFacts DEF Positions
    <3>2. LastOf(log, i) > saved => i \in Changed(saved) \ Left
      BY <1>1, <2>6, ChangedFacts DEF Left
    <3> QED
      BY <2>2, <2>5, <2>6, <3>1, <3>2
  <2>7. kind = "s3" =>
           /\ \A e \in todo : e.data = DataIn(log, e.item) /\ e.item \in Items
           /\ \A i \in Live(log) \ Unwanted : saved[i] = DataIn(log, i) \/ \E e \in todo : e.item = i
    <3> SUFFICES ASSUME kind = "s3"
                 PROVE  /\ \A e \in todo : e.data = DataIn(log, e.item) /\ e.item \in Items
                        /\ \A i \in Live(log) \ Unwanted : saved[i] = DataIn(log, i) \/ \E e \in todo : e.item = i
      OBVIOUS
    <3>1. \A e \in Listing(saved) : e.data = DataIn(log, e.item) /\ e.item \in Items
      BY <1>1, ListingIsTrue
    <3>2. \A i \in Live(log) \ Unwanted : saved[i] = DataIn(log, i) \/ i \in Changed(saved) \ Left
      BY <1>1, ChangedFacts DEF Left
    <3> QED
      BY <1>5, <2>2, <2>5, <3>1, <3>2
  <2>8. kind = "drive_ids" =>
           /\ \A e \in todo : e.pos = 0 /\ e.item \in Items
           /\ \A i \in Items \ Unwanted : \E e \in todo : e.item = i
    BY <1>1, <1>5, <2>5, NamedFacts
  <2>16. kind = "notion_ids" =>
            /\ \A i \in Live(log) \ Unwanted : \E e \in todo : e.item = i /\ e.pos = 0
            /\ \A i \in Changed(saved) \ Left : \E e \in todo : e.item = i
    <3> SUFFICES ASSUME kind = "notion_ids"
                 PROVE  /\ \A i \in Live(log) \ Unwanted : \E e \in todo : e.item = i /\ e.pos = 0
                        /\ \A i \in Changed(saved) \ Left : \E e \in todo : e.item = i
      OBVIOUS
    <3>1. \A i \in Live(log) \ Unwanted : \E e \in todo : e.item = i /\ e.pos = 0
      BY <1>1, <1>5, <2>5, NamedFacts
    <3>2. Changed(saved) \ Left \subseteq Live(log) \ Unwanted
      <4>1. Changed(saved) \subseteq Live(log)
        BY <1>1, ListingFacts
      <4> QED
        BY <4>1 DEF Left
    <3> QED
      BY <3>1, <3>2
  <2>9. kind = "slack" =>
           /\ \A e \in todo : e.thread = e.pos /\ e.pos > saved /\ e.pos \in 1 .. Len(log)
           /\ \A p \in 1 .. Len(log) : log[p].parent = 0 /\ p > saved => \E e \in todo : e.pos = p /\ e.thread = p
    <3> SUFFICES ASSUME kind = "slack"
                 PROVE  /\ \A e \in todo : e.thread = e.pos /\ e.pos > saved /\ e.pos \in 1 .. Len(log)
                        /\ \A p \in 1 .. Len(log) : log[p].parent = 0 /\ p > saved => \E e \in todo : e.pos = p /\ e.thread = p
      OBVIOUS
    <3>1. \A e \in Listing(saved) : e.thread = e.pos /\ e.pos > saved /\ e.pos \in 1 .. Len(log)
      BY <1>1, ListingIsTrue
    <3>2. ASSUME NEW p \in 1 .. Len(log), log[p].parent = 0, p > saved
          PROVE  EntryOf(log[p].item) \in Listing(saved) /\ EntryOf(log[p].item).pos = p
      <4>1. log[p].item \in Changed(saved) \ Left /\ EntryOf(log[p].item).pos = p
        BY <1>1, <3>2, SlackFacts
      <4> QED
        BY <1>1, <4>1, ListingFacts
    <3> QED
      BY <1>5, <2>5, <3>1, <3>2
  <2>10. kind = "slack" => saved \in Nat
    BY <1>1, TypeFacts DEF Maps, Git, Positions
  <2>11. kind = "slack" => \A p \in 1 .. Len(log) : log[p].parent = 0 =>
            \/ \E e \in todo : e.pos = p /\ e.thread = p
            \/ p <= saved /\ \A f \in todo : p <= f.thread
    BY <2>1, <2>9, <2>10
  <2>12. /\ kind \in Git => at = log
         /\ kind \in {"table", "drive", "dropbox", "slack"} => at = Len(log)
    BY <1>4 DEF Git
  <2>13. kind \in {"drive", "dropbox", "notion"} \cup Git =>
            (pc = "emit" => {e.item : e \in sync'.todo} = Changed(saved) \ Left)
    BY <2>2, <2>4 DEF Git
  <2>14. Changed(saved)' = Changed(saved) /\ Left' = Left
    BY <1>2, SameChanged
  <2>15. \A i \in Live(log) : i \in Items
    BY DEF Live
  <2> QED
    BY <1>2, <1>7, <1>8, <2>3, <2>6, <2>7, <2>8, <2>9, <2>11, <2>12, <2>13, <2>14, <2>15, <2>16 DEF CalmInv
<1>19. SettledIsDone'
  BY <1>6, <1>7 DEF SettledIsDone
<1>20. FetchInv'
  <2> SUFFICES ASSUME kind = "notion_ids" PROVE FetchInv'
    BY <1>2 DEF FetchInv
  <2>1. sync'.todo = Named
    BY <1>5, <1>6, <1>7 DEF ListsLater
  <2>2. \A i \in Items : Wanted(i)' => Coming(i)'
    <3> SUFFICES ASSUME NEW i \in Items, Wanted(i)' PROVE Coming(i)'
      OBVIOUS
    <3>1. i \in Live(log) \ Unwanted
      BY <1>8 DEF Wanted
    <3> QED
      BY <1>1, <2>1, <3>1, NamedFacts DEF Coming
  <2>3. \A e \in sync'.todo : e.data = Unread
    BY <1>1, <2>1, NamedFacts
  <2> QED
    BY <1>2, <1>7, <2>2, <2>3 DEF FetchInv
<1> QED
  BY <1>20, <1>11, <1>12, <1>13, <1>14, <1>15, <1>16, <1>17, <1>18, <1>19 DEF SyncInv, SettledInv

-----------------------------------------------------------------------------
(* A sync goes on.                                                         *)

\* The listing that follows a mark.
LEMMA ListKeeps ==
    ASSUME SyncInv, SettledInv, List
    PROVE  SyncInv' /\ SettledInv'
<1>1. Typed /\ LogInv /\ SavedInv /\ FlightInv /\ TodoInv /\ GitInv /\ MapsInv /\ CalmInv
  BY DEF SyncInv, SettledInv
<1>2. /\ sync' = [sync EXCEPT !.pc = "emit", !.todo = Listing(saved)] /\ settled' = settled /\ sync.pc = "list"
      /\ kind' = kind /\ log' = log /\ open' = open /\ saved' = saved /\ target' = target /\ faults' = faults
  BY DEF List, source
<1>3. sync \in Syncs /\ kind \in {"drive", "gitlab"}
  BY <1>1, <1>2 DEF Typed
<1>4. sync'.pc = "emit" /\ sync'.at = sync.at /\ sync'.todo = Listing(saved) /\ sync'.next = sync.next
  BY <1>2, <1>3 DEF Syncs
<1>5. Listing(saved) \in SUBSET Entries /\ {e.item : e \in Listing(saved)} = Changed(saved) \ Left
  BY <1>1, ListingFacts
<1>6. Typed'
  <2>1. sync' \in Syncs
    BY <1>2, <1>3, <1>5 DEF Syncs
  <2>2. sync' \in Syncs' /\ saved' \in Cursors'
    BY <1>1, <1>2, <2>1 DEF Syncs, Cursors, Commits, Typed
  <2> QED
    BY <1>1, <1>2, <1>4, <2>2 DEF Typed
<1>7. LogInv'
  BY <1>1, <1>2, SameLog
<1>8. /\ \A i \in Items : /\ LastOf(log, i)' = LastOf(log, i) /\ DataIn(log, i)' = DataIn(log, i)
                          /\ Stamp(i)' = Stamp(i) /\ (Wanted(i)' <=> Wanted(i))
      /\ Live(log)' = Live(log)
  BY <1>2, SameSource
<1>9. SavedInv'
  BY <1>1, <1>2, <1>8 DEF SavedInv, Reach, Current
<1>10. FlightInv'
  <2>1. kind \in Counted
    BY <1>3 DEF Counted, Git
  <2>2. ASSUME NEW i \in Items, Wanted(i)'
        PROVE  Current(i)' \/ Coming(i)'
    BY <1>1, <1>2, <1>4, <2>1, <2>2, ListedIsComing
  <2>3. /\ Reach(saved)' = Reach(saved) /\ Reach(sync.at)' = Reach(sync.at) /\ Reach(sync.next)' = Reach(sync.next)
    BY <1>2, <1>4 DEF Reach
  <2> QED
    BY <1>1, <1>2, <1>3, <1>4, <2>1, <2>2, <2>3 DEF FlightInv
<1>11. TodoInv'
  BY <1>1, <1>2, <1>3, <1>4, ListingTodo
<1>16. FetchInv'
  BY <1>2, <1>3 DEF FetchInv
<1>12. GitInv'
  BY <1>1, <1>2, <1>4 DEF GitInv
<1>13. MapsInv'
  BY <1>2, <1>3 DEF MapsInv, Maps
<1>14. CalmInv'
  <2>1. Changed(saved)' = Changed(saved) /\ Left' = Left
    BY <1>2, SameChanged
  <2> QED
    BY <1>1, <1>2, <1>3, <1>4, <1>5, <2>1 DEF CalmInv, Git
<1>15. SettledIsDone'
  BY <1>4 DEF SettledIsDone
<1> QED
  BY <1>6, <1>7, <1>9, <1>10, <1>11, <1>12, <1>13, <1>14, <1>15, <1>16 DEF SyncInv, SettledInv

\* A sync that is not running.
LEMMA IdleTyped == Idle(kind) \in Syncs
<1>1. EmptyCursor(kind) \in Cursors /\ (IF kind \in Git THEN <<>> ELSE 0) \in Commits
  <2>1. 0 \in Positions
    <3>1. MaxLog \in Nat
      BY SourcesAssumption, Zenon
    <3> QED
      BY <3>1 DEF Positions
  <2>2. CASE kind \in Maps
    <3>1. kind \notin Git
      BY <2>2 DEF Maps, Git
    <3>2. EmptyCursor(kind) = [i \in Items |-> 0]
      BY <2>2, <3>1 DEF EmptyCursor
    <3>3. Cursors = [Items -> Positions] /\ Commits = Positions
      BY <2>2, <3>1 DEF Cursors, Commits
    <3> QED
      BY <2>1, <3>1, <3>2, <3>3
  <2>3. CASE kind \in Git
    <3>1. kind \notin Maps
      BY <2>3 DEF Maps, Git
    <3> QED
      BY <2>3, <3>1 DEF EmptyCursor, Cursors, Commits
  <2>4. CASE kind \notin Maps \cup Git
    BY <2>1, <2>4 DEF EmptyCursor, Cursors, Commits
  <2> QED
    BY <2>2, <2>3, <2>4
<1> QED
  BY <1>1 DEF Idle, Syncs

\* The sync is given up: what it had in hand is lost, what it wrote stays.
LEMMA IdleKeeps ==
    ASSUME SyncInv, sync' = Idle(kind), settled' = FALSE, faults' \in 0 .. MaxFaults,
           UNCHANGED <<kind, log, open, saved, target>>
    PROVE  SyncInv' /\ SettledInv'
<1>1. Typed /\ LogInv /\ SavedInv /\ GitInv /\ MapsInv
  BY DEF SyncInv
<1>2. sync'.pc = "idle" /\ sync'.todo = {}
  BY DEF Idle
<1>3. Typed'
  <2>1. sync' \in Syncs
    BY IdleTyped
  <2>2. sync' \in Syncs' /\ saved' \in Cursors'
    BY <1>1, <2>1 DEF Syncs, Cursors, Commits, Typed
  <2> QED
    BY <1>1, <1>2, <2>2 DEF Typed
<1>4. LogInv'
  BY <1>1, SameLog
<1>5. \A i \in Items : /\ LastOf(log, i)' = LastOf(log, i) /\ DataIn(log, i)' = DataIn(log, i)
                       /\ Stamp(i)' = Stamp(i) /\ (Wanted(i)' <=> Wanted(i))
  BY SameSource
<1>6. SavedInv'
  BY <1>1, <1>5 DEF SavedInv, Reach, Current
<1>7. FlightInv' /\ TodoInv' /\ FetchInv' /\ CalmInv' /\ SettledIsDone'
  BY <1>2 DEF FlightInv, TodoInv, FetchInv, Fetching, CalmInv, SettledIsDone
<1>8. GitInv'
  BY <1>1, <1>2 DEF GitInv
<1>9. MapsInv'
  BY <1>1, <1>2, <1>5 DEF MapsInv
<1> QED
  BY <1>3, <1>4, <1>6, <1>7, <1>8, <1>9 DEF SyncInv, SettledInv

\* Drive asks for one selected file, and leaves the others alone.
LEMMA StatKeeps ==
    ASSUME SyncInv, SettledInv, NEW e \in sync.todo, Stat(e)
    PROVE  SyncInv' /\ SettledInv'
<1> DEFINE p == LastOf(log, e.item)
           skip == e.item \notin Live(log) \/ saved[e.item] = p
           todo == (sync.todo \ {e}) \cup (IF skip THEN {} ELSE {[e EXCEPT !.pos = p]})
<1>1. Typed /\ LogInv /\ MapsInv /\ TodoInv /\ CalmInv
  BY DEF SyncInv, SettledInv
<1>2. /\ sync' = [sync EXCEPT !.todo = todo] /\ settled' = settled /\ sync.pc = "emit" /\ kind = "drive_ids"
      /\ kind' = kind /\ log' = log /\ open' = open /\ saved' = saved /\ target' = target /\ faults' = faults
  BY DEF Stat, source
<1>3. sync \in Syncs /\ sync.todo \in SUBSET Entries
  BY <1>1 DEF Typed, Syncs
<1> HIDE DEF todo
<1>4. sync'.pc = "emit" /\ sync'.at = sync.at /\ sync'.todo = todo /\ sync'.next = sync.next
  BY <1>2, <1>3 DEF Syncs
<1>5. e \in Entries /\ e.item \in Items /\ p \in Positions /\ p \in Nat
  <2>1. e \in Entries
    BY <1>3
  <2>2. e.item \in Items
    BY <2>1 DEF Entries
  <2> QED
    BY <1>1, <2>1, <2>2, ItemFacts
<1> HIDE DEF p
<1>6. /\ [e EXCEPT !.pos = p] \in Entries /\ [e EXCEPT !.pos = p].pos = p /\ [e EXCEPT !.pos = p].item = e.item
      /\ [e EXCEPT !.pos = p].replies = e.replies
  BY <1>5 DEF Entries
<1>7. todo \in SUBSET Entries /\ \A f \in todo : f \in sync.todo \/ (f.pos = p /\ f.item = e.item /\ f.replies = e.replies)
  BY <1>3, <1>6 DEF todo
<1>8. \A f \in sync.todo : \/ \E g \in todo : g.item = f.item
                           \/ f.item = e.item /\ (e.item \notin Live(log) \/ saved[e.item] = p)
  BY <1>6 DEF todo
<1>9. Typed'
  <2>1. sync' \in Syncs
    BY <1>2, <1>3, <1>7 DEF Syncs
  <2>2. sync' \in Syncs' /\ saved' \in Cursors'
    BY <1>1, <1>2, <2>1 DEF Syncs, Cursors, Commits, Typed
  <2> QED
    BY <1>1, <1>2, <1>4, <2>2 DEF Typed
<1>10. LogInv'
  BY <1>1, <1>2, SameLog
<1>11. /\ \A i \in Items : LastOf(log, i)' = LastOf(log, i) /\ DataIn(log, i)' = DataIn(log, i)
       /\ Live(log)' = Live(log)
  BY <1>2, SameSource
<1>12. SavedInv' /\ FlightInv' /\ FetchInv' /\ GitInv'
  BY <1>2 DEF SavedInv, FlightInv, FetchInv, GitInv, Counted, Git
<1>13. MapsInv'
  <2>1. ASSUME NEW f \in todo PROVE f.pos <= LastOf(log, f.item)'
    <3>1. f.item \in Items
      BY <1>7 DEF Entries
    <3>2. f.pos <= LastOf(log, f.item)
      BY <1>1, <1>2, <1>5, <1>7 DEF MapsInv, Maps, p
    <3> QED
      BY <1>11, <3>1, <3>2
  <2> QED
    BY <1>1, <1>2, <1>4, <1>11, <2>1 DEF MapsInv
<1>14. CalmInv'
  <2> SUFFICES ASSUME settled PROVE CalmInv'
    BY <1>2 DEF CalmInv
  <2>1. /\ open = {}
        /\ \A f \in sync.todo : f.pos \in {0, LastOf(log, f.item)}
        /\ \A i \in Items : sync.next[i] \in {saved[i], LastOf(log, i)}
        /\ \A i \in Live(log) \ Unwanted :
              sync.next[i] = LastOf(log, i) \/ \E f \in sync.todo : f.item = i
    BY <1>1, <1>2 DEF CalmInv
  <2>2. \A f \in todo : f.pos \in {0, LastOf(log, f.item)} /\ f.item \in Items
    BY <1>7, <2>1 DEF p, Entries
  <2>3. ASSUME NEW i \in Live(log) \ Unwanted
        PROVE  sync.next[i] = LastOf(log, i) \/ \E f \in todo : f.item = i
    <3>1. i \in Items
      BY DEF Live
    <3> QED
      BY <1>8, <2>1, <3>1 DEF p
  <2> QED
    BY <1>2, <1>4, <1>11, <2>1, <2>2, <2>3 DEF CalmInv, Git, Live
<1>15. TodoInv'
  BY <1>1, <1>2, <1>4, <1>7 DEF TodoInv, Git
<1>16. SettledIsDone'
  BY <1>4 DEF SettledIsDone
<1> QED
  BY <1>9, <1>10, <1>12, <1>13, <1>14, <1>15, <1>16 DEF SyncInv, SettledInv

\* The larger of two numbers.
LEMMA MaxOfTwo ==
    ASSUME NEW a \in Nat, NEW b \in Nat
    PROVE  Max({a, b}) \in {a, b} /\ a <= Max({a, b}) /\ b <= Max({a, b})
<1>1. \E x \in {a, b} : \A y \in {a, b} : x >= y
  OBVIOUS
<1>2. Max({a, b}) \in {a, b} /\ \A y \in {a, b} : Max({a, b}) >= y
  BY <1>1 DEF Max
<1> QED
  BY <1>2

\* Notion, page_ids: one page is fetched, and is skipped or is in hand.
LEMMA FetchPageKeeps ==
    ASSUME SyncInv, SettledInv, NEW e \in sync.todo, FetchPage(e)
    PROVE  SyncInv' /\ SettledInv'
<1> DEFINE p == LastOf(log, e.item)
           m == Minute(p)
           skip == m <= saved
           got == [e EXCEPT !.pos = p]
           todo == (sync.todo \ {e}) \cup (IF skip THEN {} ELSE {got})
           at == IF skip THEN sync.at ELSE Max({sync.at, m})
<1>1. Typed /\ LogInv /\ SavedInv /\ FlightInv /\ TodoInv /\ FetchInv /\ CalmInv
  BY DEF SyncInv, SettledInv
<1>2. /\ sync' = [sync EXCEPT !.todo = todo, !.at = at] /\ settled' = settled /\ sync.pc = "emit"
      /\ kind = "notion_ids" /\ e.pos = 0 /\ e.item \in Live(log)
      /\ kind' = kind /\ log' = log /\ open' = open /\ saved' = saved /\ target' = target /\ faults' = faults
  BY DEF FetchPage, source
<1>3. sync \in Syncs /\ sync.todo \in SUBSET Entries
  BY <1>1 DEF Typed, Syncs
<1> HIDE DEF todo, at
<1>4. sync'.pc = "emit" /\ sync'.at = at /\ sync'.todo = todo /\ sync'.next = sync.next
  BY <1>2, <1>3 DEF Syncs
<1>5. e \in Entries /\ e.item \in Items /\ p \in Positions /\ p \in Nat /\ p <= MaxLog /\ p > 0 /\ MaxLog \in Nat
  <2>1. e \in Entries
    BY <1>3
  <2>2. e.item \in Items
    BY <2>1 DEF Entries
  <2>3. Len(log) \in Nat /\ Len(log) <= MaxLog /\ MaxLog \in Nat
    BY <1>1, TypeFacts
  <2>4. p \in 0 .. Len(log) /\ p \in Positions /\ p # 0
    BY <1>1, <1>2, <2>2, ItemFacts
  <2> QED
    BY <2>1, <2>2, <2>3, <2>4
<1>6. /\ got \in Entries /\ got.pos = p /\ got.item = e.item /\ got.replies = e.replies /\ got.data = Unread
  <2>1. e.data = Unread
    BY <1>1, <1>2 DEF FetchInv
  <2> QED
    BY <1>5, <2>1 DEF Entries
<1>7. /\ kind \in Counted /\ Reach(saved) = saved /\ Reach(sync.at) = sync.at /\ Reach(sync.next) = sync.next
      /\ saved \in Nat /\ sync.at \in Nat /\ sync.at \in Positions /\ sync.next \in Nat
  <2>1. kind \in Counted /\ kind \notin Maps \cup Git
    BY <1>2 DEF Counted, Maps, Git
  <2>2. Reach(saved) = saved /\ Reach(sync.at) = sync.at /\ Reach(sync.next) = sync.next
    BY <2>1 DEF Reach
  <2> QED
    BY <1>1, <2>1, <2>2, TypeFacts
<1>8. m \in Nat /\ m > 0 /\ m \in Positions /\ m = Stamp(e.item)
  <2>1. m \in Nat /\ m <= p /\ m > 0
    BY <1>5, MinuteFacts
  <2>2. m = Stamp(e.item)
    BY <1>1, <1>2, <1>5, StampFacts
  <2> HIDE DEF m, p
  <2> QED
    BY <1>5, <2>1, <2>2 DEF Positions
<1> HIDE DEF got, m, p
<1>9. at \in Positions /\ at \in Nat /\ sync.at <= at /\ (skip \/ m <= at)
  BY <1>7, <1>8, MaxOfTwo DEF at
<1>10. /\ todo \in SUBSET Entries
       /\ \A f \in todo : f \in sync.todo \/ f = got
       /\ \A f \in sync.todo : f = e \/ f \in todo
       /\ skip \/ got \in todo
  BY <1>3, <1>6 DEF todo
<1>11. Fetching /\ sync.next = saved
  BY <1>1, <1>2 DEF Fetching, FetchInv
<1>12. Typed'
  <2>1. sync' \in Syncs
    BY <1>2, <1>3, <1>9, <1>10 DEF Syncs, Commits, Git
  <2>2. sync' \in Syncs' /\ saved' \in Cursors'
    BY <1>1, <1>2, <2>1 DEF Syncs, Cursors, Commits, Typed
  <2> QED
    BY <1>1, <1>2, <1>4, <2>2 DEF Typed
<1>13. LogInv'
  BY <1>1, <1>2, SameLog
<1>14. /\ \A i \in Items : /\ LastOf(log, i)' = LastOf(log, i) /\ DataIn(log, i)' = DataIn(log, i)
                           /\ Stamp(i)' = Stamp(i) /\ (Wanted(i)' <=> Wanted(i))
       /\ Live(log)' = Live(log)
  BY <1>2, SameSource
<1>15. SavedInv'
  BY <1>1, <1>2, <1>14 DEF SavedInv, Reach, Current
<1>16. ASSUME NEW i \in Items, Wanted(i)
       PROVE  Current(i)' \/ Coming(i)'
  <2>1. Current(i) => Current(i)'
    BY <1>2, <1>14 DEF Current
  <2>2. Current(i) \/ \E f \in sync.todo : f.item = i
    BY <1>1, <1>2, <1>11, <1>16 DEF FetchInv, Coming
  <2>3. CASE skip /\ i = e.item
    <3>1. Stamp(i) <= Reach(saved)
      BY <1>7, <1>8, <2>3
    <3> QED
      BY <1>1, <1>7, <1>16, <2>1, <3>1 DEF SavedInv
  <2>4. CASE ~ skip /\ i = e.item
    BY <1>4, <1>6, <1>10, <2>4 DEF Coming
  <2>5. CASE i # e.item
    BY <1>4, <1>10, <2>1, <2>2, <2>5 DEF Coming
  <2> QED
    BY <2>3, <2>4, <2>5
<1>17. FlightInv'
  <2>1. saved <= sync.at /\ sync.next <= sync.at /\ open = {}
    BY <1>1, <1>2, <1>7 DEF FlightInv, LogInv
  <2>2. saved <= at /\ sync.next <= at
    BY <1>7, <1>9, <2>1
  <2>3. Reach(saved)' = saved /\ Reach(sync.at)' = at /\ Reach(sync.next)' = sync.next
    BY <1>2, <1>4 DEF Reach, Git
  <2> QED
    BY <1>2, <1>4, <1>14, <1>16, <2>1, <2>2, <2>3 DEF FlightInv
<1>18. \A f \in todo : f.item \in Items /\ ~ f.replies
  BY <1>1, <1>2, <1>6, <1>10 DEF TodoInv, Entries
<1>19. \A f \in todo : f.item \in Live(log) => f.data \in {Unread, DataIn(log, f.item)}
  BY <1>1, <1>2, <1>6, <1>10, <1>11 DEF FetchInv
<1>20. TodoInv'
  BY <1>2, <1>4, <1>14, <1>18, <1>19 DEF TodoInv, Git
<1>21. FetchInv'
  <2>1. \A f \in todo : f.pos = 0 => f.data = Unread
    BY <1>1, <1>2, <1>6, <1>10 DEF FetchInv
  <2> QED
    BY <1>2, <1>4, <1>11, <1>14, <1>16, <1>18, <1>19, <2>1 DEF FetchInv
<1>22. GitInv' /\ MapsInv'
  BY <1>2 DEF GitInv, MapsInv, Git, Maps
<1>23. CalmInv'
  <2> SUFFICES ASSUME settled PROVE CalmInv'
    BY <1>2 DEF CalmInv
  <2>1. /\ open = {} /\ saved <= sync.at
        /\ \A i \in Live(log) \ Unwanted : \/ Minute(LastOf(log, i)) <= sync.at
                                           \/ \E f \in sync.todo : f.item = i /\ f.pos = 0
        /\ \A i \in Changed(saved) \ Left : \E f \in sync.todo : f.item = i
    BY <1>1, <1>2, <1>7, <1>11 DEF CalmInv, FlightInv
  <2>2. ASSUME NEW i \in Live(log) \ Unwanted
        PROVE  Minute(LastOf(log, i)) <= at \/ \E f \in todo : f.item = i /\ f.pos = 0
    <3>1. i \in Items
      BY DEF Live
    <3>2. Minute(LastOf(log, i)) \in Nat
      <4>1. LastOf(log, i) \in Nat
        BY <1>1, <3>1, ItemFacts
      <4> QED
        BY <4>1, MinuteFacts
    <3>3. CASE i = e.item
      <4>1. Minute(LastOf(log, i)) = m
        BY <3>3 DEF m, p
      <4> QED
        BY <1>7, <1>8, <1>9, <2>1, <4>1
    <3>4. CASE i # e.item
      BY <1>7, <1>9, <1>10, <2>1, <3>2, <3>4
    <3> QED
      BY <3>3, <3>4
  <2>3. ASSUME NEW i \in Changed(saved) \ Left
        PROVE  \E f \in todo : f.item = i
    <3>1. CASE i = e.item
      <4>1. saved = 0 \/ m > saved
        BY <1>1, <1>2, <1>7, <2>3, <3>1, ChangedFacts DEF m, p
      <4>2. ~ skip
        BY <1>7, <1>8, <4>1
      <4> QED
        BY <1>6, <1>10, <3>1, <4>2
    <3>2. CASE i # e.item
      BY <1>10, <2>1, <3>2
    <3> QED
      BY <3>1, <3>2
  <2>4. Changed(saved)' = Changed(saved) /\ Left' = Left
    BY <1>2, SameChanged
  <2>5. \A i \in Live(log) : i \in Items
    BY DEF Live
  <2> QED
    BY <1>2, <1>4, <1>11, <1>14, <2>1, <2>2, <2>3, <2>4, <2>5 DEF CalmInv, Git
<1>24. SettledIsDone'
  BY <1>4 DEF SettledIsDone
<1> QED
  BY <1>12, <1>13, <1>15, <1>17, <1>20, <1>21, <1>22, <1>23, <1>24 DEF SyncInv, SettledInv

\* Notion reads one page.
LEMMA ReadPageKeeps ==
    ASSUME SyncInv, SettledInv, NEW e \in sync.todo, ReadPage(e)
    PROVE  SyncInv' /\ SettledInv'
<1> DEFINE d == DataIn(log, e.item)
           read == [e EXCEPT !.data = d]
           todo == (sync.todo \ {e}) \cup {read}
<1>1. Typed /\ LogInv /\ SavedInv /\ FlightInv /\ TodoInv /\ FetchInv /\ CalmInv
  BY DEF SyncInv, SettledInv
<1>2. /\ sync' = [sync EXCEPT !.todo = todo] /\ settled' = settled /\ sync.pc = "emit" /\ kind \in Notion /\ e.pos # 0
      /\ kind' = kind /\ log' = log /\ open' = open /\ saved' = saved /\ target' = target /\ faults' = faults
  BY DEF ReadPage, source
<1>3. sync \in Syncs /\ sync.todo \in SUBSET Entries
  BY <1>1 DEF Typed, Syncs
<1> HIDE DEF todo
<1>4. sync'.pc = "emit" /\ sync'.at = sync.at /\ sync'.todo = todo /\ sync'.next = sync.next
  BY <1>2, <1>3 DEF Syncs
<1>5. e \in Entries /\ e.item \in Items /\ d \in Positions
  <2>1. e \in Entries
    BY <1>3
  <2>2. e.item \in Items
    BY <2>1 DEF Entries
  <2> QED
    BY <1>1, <2>1, <2>2, ItemFacts
<1> HIDE DEF d
<1>6. read \in Entries /\ read.data = d /\ read.item = e.item /\ read.replies = e.replies /\ read.pos = e.pos
  BY <1>5 DEF Entries
<1> HIDE DEF read
<1>7. /\ todo \in SUBSET Entries
      /\ \A f \in todo : f \in sync.todo \/ (f.data = d /\ f.item = e.item /\ f.replies = e.replies /\ f.pos # 0)
      /\ \A f \in sync.todo : \E g \in todo : g.item = f.item /\ g.pos = f.pos
      /\ {f.item : f \in todo} = {f.item : f \in sync.todo}
  BY <1>2, <1>3, <1>6 DEF todo
<1>8. Typed'
  <2>1. sync' \in Syncs
    BY <1>2, <1>3, <1>7 DEF Syncs
  <2>2. sync' \in Syncs' /\ saved' \in Cursors'
    BY <1>1, <1>2, <2>1 DEF Syncs, Cursors, Commits, Typed
  <2> QED
    BY <1>1, <1>2, <1>4, <2>2 DEF Typed
<1>9. LogInv'
  BY <1>1, <1>2, SameLog
<1>10. /\ \A i \in Items : /\ LastOf(log, i)' = LastOf(log, i) /\ DataIn(log, i)' = DataIn(log, i)
                           /\ Stamp(i)' = Stamp(i) /\ (Wanted(i)' <=> Wanted(i))
       /\ Live(log)' = Live(log)
  BY <1>2, SameSource
<1>11. SavedInv'
  BY <1>1, <1>2, <1>10 DEF SavedInv, Reach, Current
<1>12. FlightInv'
  <2>1. kind \in Counted
    BY <1>2 DEF Counted, Git
  <2>2. ASSUME NEW i \in Items, Wanted(i), Stamp(i) <= Reach(sync.at)
        PROVE  Current(i)' \/ Coming(i)'
    <3>1. Current(i) \/ \E f \in sync.todo : f.item = i
      BY <1>1, <1>2, <2>1, <2>2 DEF FlightInv, Coming
    <3>2. Current(i) => Current(i)'
      BY <1>2, <1>10 DEF Current
    <3> QED
      BY <1>4, <1>7, <3>1, <3>2 DEF Coming
  <2>3. /\ Reach(saved)' = Reach(saved) /\ Reach(sync.at)' = Reach(sync.at) /\ Reach(sync.next)' = Reach(sync.next)
    BY <1>2, <1>4 DEF Reach
  <2> QED
    BY <1>1, <1>2, <1>4, <1>10, <2>1, <2>2, <2>3 DEF FlightInv
<1>13. TodoInv'
  <2>1. ASSUME NEW f \in todo, f.item \in Live(log), Stamp(f.item) <= sync.at
        PROVE  f.data \in {Unread, DataIn(log, f.item)}
    BY <1>1, <1>2, <1>7, <2>1 DEF TodoInv, d
  <2>2. \A f \in todo : f.item \in Items
    BY <1>7 DEF Entries
  <2>3. \A f \in todo : ~ f.replies
    BY <1>1, <1>2, <1>7 DEF TodoInv
  <2> QED
    BY <1>2, <1>4, <1>10, <2>1, <2>2, <2>3 DEF TodoInv, Git
<1>17. FetchInv'
  <2>1. kind = "notion_ids" => \A f \in todo : f.pos = 0 => f.data = Unread
    BY <1>1, <1>7 DEF FetchInv
  <2>2. Fetching' => Fetching
    BY <1>2, <1>4, <1>7 DEF Fetching
  <2>3. ASSUME Fetching
        PROVE  /\ sync.next = saved
               /\ \A i \in Items : Wanted(i)' => Current(i)' \/ Coming(i)'
               /\ \A f \in todo : f.item \in Live(log) => f.data \in {Unread, DataIn(log, f.item)}
    <3>1. kind = "notion_ids"
      BY <2>3 DEF Fetching
    <3>2. ASSUME NEW i \in Items, Wanted(i)' PROVE Current(i)' \/ Coming(i)'
      <4>1. Current(i) \/ \E f \in sync.todo : f.item = i
        BY <1>1, <1>10, <2>3, <3>1, <3>2 DEF FetchInv, Coming
      <4> QED
        BY <1>2, <1>4, <1>7, <1>10, <4>1 DEF Current, Coming
    <3> QED
      BY <1>1, <1>7, <2>3, <3>1, <3>2 DEF FetchInv, d
  <2>4. \A f \in todo : f.item \in Items
    BY <1>7 DEF Entries
  <2> QED
    BY <1>2, <1>4, <1>10, <2>1, <2>2, <2>3, <2>4 DEF FetchInv
<1>14. GitInv' /\ MapsInv'
  BY <1>2 DEF GitInv, MapsInv, Git, Maps
<1>15. CalmInv'
  <2>1. Changed(saved)' = Changed(saved) /\ Left' = Left
    BY <1>2, SameChanged
  <2>3. Fetching' => Fetching
    BY <1>2, <1>4, <1>7 DEF Fetching
  <2>2. \A i \in Live(log) : i \in Items
    BY DEF Live
  <2> QED
    BY <1>1, <1>2, <1>4, <1>7, <1>10, <2>1, <2>2, <2>3 DEF CalmInv, Git
<1>16. SettledIsDone'
  BY <1>4 DEF SettledIsDone
<1> QED
  BY <1>8, <1>9, <1>11, <1>12, <1>13, <1>14, <1>15, <1>16, <1>17 DEF SyncInv, SettledInv

\* The body that a document comes with: that of the item, unless it changed
\* since the cursor's mark.
LEMMA BodyFacts ==
    ASSUME Typed, LogInv, TodoInv, GitInv, NEW e \in sync.todo, Turn(e)
    PROVE  /\ e \in Entries /\ e.item \in Items /\ Body(e) \in Positions /\ sync.pc = "emit"
           /\ kind \in Counted /\ e.item \in Live(log) /\ Stamp(e.item) <= Reach(sync.at)
                 => Body(e) = DataIn(log, e.item)
           /\ kind \in {"s3", "blob", "drive", "drive_ids", "dropbox"} => Body(e) = DataIn(log, e.item)
           /\ kind \in Git /\ sync.at = log => Body(e) = DataIn(log, e.item)
           /\ kind = "s3" => e.data \in Positions
<1>1. sync.pc = "emit" /\ e \in Entries /\ e.item \in Items /\ kind \in AllKinds
  <2>1. sync.todo \in SUBSET Entries /\ sync.pc = "emit"
    BY DEF Typed, Syncs, Turn
  <2>2. e \in Entries
    BY <2>1
  <2> QED
    BY <2>1, <2>2, TypeFacts DEF Entries
<1>2. e.data \in Positions \cup {Unread}
  BY <1>1 DEF Entries
<1>3. DataIn(log, e.item) \in Positions
  BY <1>1, ItemFacts
<1>4. CASE kind \in {"table", "slack", "rss"} \cup Notion
  <2>1. Body(e) = e.data
    BY <1>4 DEF Body, TableBody, MessageBody, FeedBody, PageBody
  <2>2. e.data # Unread
    BY <1>4 DEF TodoInv, Turn
  <2>3. kind \in Counted => Reach(sync.at) = sync.at /\ kind \in {"table", "slack"} \cup Notion
    BY <1>4 DEF Reach, Git, Counted
  <2>4. kind \in Counted /\ e.item \in Live(log) /\ Stamp(e.item) <= sync.at => e.data = DataIn(log, e.item)
    BY <2>2, <2>3 DEF TodoInv
  <2> QED
    BY <1>1, <1>2, <1>4, <2>1, <2>2, <2>3, <2>4 DEF Git
<1>5. CASE kind \in {"s3", "blob", "drive", "drive_ids", "dropbox"}
  <2>1. Body(e) = DataIn(log, e.item)
    BY <1>5 DEF Body, S3Body, BlobBody, DriveBody, DropboxBody
  <2>2. kind = "s3" => e.data # Unread
    BY DEF TodoInv
  <2> QED
    BY <1>1, <1>2, <1>3, <2>1, <2>2
<1>6. CASE kind \in Git
  <2>1. Body(e) = DataIn(sync.at, e.item)
    BY <1>6 DEF Body, GithubBody, GitlabBody, Git
  <2>2. sync.at = SubSeq(log, 1, Len(sync.at)) /\ Len(sync.at) \in 0 .. Len(log)
    <3>1. Len(sync.at) \in Nat /\ Len(log) \in Nat
      <4>1. sync.at \in Seq(Events)
        BY <1>6, TypeFacts
      <4> QED
        BY <4>1, TypeFacts
    <3> QED
      BY <1>1, <1>6, <3>1 DEF GitInv
  <2>3. /\ DataIn(sync.at, e.item) \in Positions
        /\ LastOf(log, e.item) <= Len(sync.at) => DataIn(sync.at, e.item) = DataIn(log, e.item)
    <3> DEFINE c == sync.at
               i == e.item
    <3>1. i \in Items /\ Len(c) \in 0 .. Len(log) /\ c = SubSeq(log, 1, Len(c))
      BY <1>1, <2>2
    <3> HIDE DEF c, i
    <3>2. /\ DataIn(c, i) \in Positions
          /\ LastOf(log, i) <= Len(c) => DataIn(c, i) = DataIn(log, i)
      BY <1>6, <3>1, PrefixFacts
    <3> QED
      BY <3>2 DEF c, i
  <2>4. Stamp(e.item) = LastOf(log, e.item) /\ Reach(sync.at) = Len(sync.at)
    BY <1>1, <1>6, StampFacts DEF Reach, Git
  <2> QED
    BY <1>1, <1>6, <2>1, <2>3, <2>4 DEF Git
<1> QED
  BY <1>1, <1>4, <1>5, <1>6 DEF AllKinds, Git

\* A document less in hand: it is not there, or it cannot be had at present.
LEMMA DropKeeps ==
    ASSUME Orderly, SyncInv, SettledInv, NEW e \in sync.todo, PassOver(e) \/ DownloadFails(e)
    PROVE  SyncInv' /\ SettledInv'
<1> DEFINE todo == sync.todo \ {e}
<1>1. Typed /\ LogInv /\ SavedInv /\ FlightInv /\ TodoInv /\ GitInv /\ MapsInv /\ CalmInv
  BY DEF SyncInv, SettledInv
<1>2. /\ sync' = [sync EXCEPT !.todo = todo] /\ Turn(e) /\ kind \in Lenient
      /\ kind' = kind /\ log' = log /\ open' = open /\ saved' = saved /\ target' = target
  BY DEF PassOver, DownloadFails, source
<1>3. \/ settled' = settled /\ faults' = faults /\ Body(e) = Gone
      \/ settled' = FALSE /\ faults' = faults + 1 /\ faults < MaxFaults /\ kind \in {"blob", "drive_ids"}
  BY DEF PassOver, DownloadFails, Orderly, Lenient
<1>4. sync \in Syncs /\ sync.todo \in SUBSET Entries /\ sync.pc = "emit" /\ e \in Entries /\ e.item \in Items
  BY <1>1, <1>2, BodyFacts DEF Typed, Syncs
<1> HIDE DEF todo
<1>5. sync'.pc = "emit" /\ sync'.at = sync.at /\ sync'.todo = todo /\ sync'.next = sync.next
  BY <1>2, <1>4 DEF Syncs
<1>6. Typed'
  <2>1. sync' \in Syncs
    BY <1>2, <1>4 DEF Syncs, todo
  <2>2. sync' \in Syncs' /\ saved' \in Cursors'
    BY <1>1, <1>2, <2>1 DEF Syncs, Cursors, Commits, Typed
  <2>3. faults' \in 0 .. MaxFaults /\ settled' \in BOOLEAN
    <3>1. MaxFaults \in Nat
      BY SourcesAssumption, Zenon
    <3>2. faults \in 0 .. MaxFaults /\ settled \in BOOLEAN
      BY <1>1 DEF Typed
    <3>3. faults' \in 0 .. MaxFaults
      BY <1>3, <3>1, <3>2
    <3>4. settled' \in BOOLEAN
      BY <1>3, <3>2
    <3> QED
      BY <3>3, <3>4
  <2> QED
    BY <1>1, <1>2, <1>5, <2>2, <2>3 DEF Typed
<1>7. LogInv'
  BY <1>1, <1>2, SameLog
<1>8. /\ \A i \in Items : /\ LastOf(log, i)' = LastOf(log, i) /\ DataIn(log, i)' = DataIn(log, i)
                          /\ Stamp(i)' = Stamp(i) /\ (Wanted(i)' <=> Wanted(i))
      /\ Live(log)' = Live(log)
  BY <1>2, SameSource
<1>9. SavedInv'
  BY <1>1, <1>2, <1>8 DEF SavedInv, Reach, Current
<1>10. FlightInv'
  <2> SUFFICES ASSUME kind \in Counted PROVE FlightInv'
    BY <1>2 DEF FlightInv
  <2>1. Body(e) = Gone
    BY <1>3 DEF Counted, Git
  <2>2. ASSUME NEW i \in Items, Wanted(i), Stamp(i) <= Reach(sync.at)
        PROVE  Current(i)' \/ Coming(i)'
    <3>1. Current(i) \/ \E f \in sync.todo : f.item = i
      BY <1>1, <1>2, <1>4, <2>2 DEF FlightInv, Coming, Lenient
    <3>2. Current(i) => Current(i)'
      BY <1>2, <1>8 DEF Current
    <3>3. e.item # i
      BY <1>1, <1>2, <2>1, <2>2, BodyFacts DEF Wanted, Live
    <3> QED
      BY <1>5, <3>1, <3>2, <3>3 DEF Coming, todo
  <2>3. /\ Reach(saved)' = Reach(saved) /\ Reach(sync.at)' = Reach(sync.at) /\ Reach(sync.next)' = Reach(sync.next)
    BY <1>2, <1>5 DEF Reach
  <2> QED
    BY <1>1, <1>2, <1>4, <1>5, <1>8, <2>2, <2>3 DEF FlightInv
<1>11. TodoInv'
  BY <1>1, <1>2, <1>5 DEF TodoInv, Lenient, Git, todo
<1>16. FetchInv'
  BY <1>2 DEF FetchInv, Lenient
<1>12. GitInv'
  BY <1>1, <1>2, <1>4, <1>5 DEF GitInv
<1>13. MapsInv'
  <2>1. ASSUME kind \in Maps, NEW f \in todo
        PROVE  (IF kind = "s3" THEN f.data ELSE f.pos) <= LastOf(log, f.item)'
    <3>1. f.item \in Items
      BY <1>4 DEF Entries, todo
    <3> QED
      BY <1>1, <1>8, <2>1, <3>1 DEF MapsInv, todo
  <2> QED
    BY <1>1, <1>2, <1>4, <1>5, <1>8, <2>1 DEF MapsInv
<1>14. CalmInv'
  <2> SUFFICES ASSUME settled' PROVE CalmInv'
    BY DEF CalmInv
  <2>1. settled /\ settled' /\ Body(e) = Gone
    BY <1>3
  <2>2. DataIn(log, e.item) = Gone
    <3>1. CASE kind = "gitlab"
      <4>1. sync.at = log
        BY <1>1, <1>4, <2>1, <3>1 DEF CalmInv, Git
      <4> QED
        BY <1>1, <1>2, <2>1, <3>1, <4>1, BodyFacts DEF Git
    <3>2. CASE kind # "gitlab"
      BY <1>1, <1>2, <2>1, <3>2, BodyFacts DEF Lenient
    <3> QED
      BY <3>1, <3>2
  <2>3. e.item \notin Live(log)
    BY <2>2 DEF Live
  <2>4. kind \in {"drive", "dropbox"} \cup Git => sync.next = sync.at
    <3>1. kind # "slack" => Changed(saved) \subseteq Live(log)
      BY <1>1, ListingFacts
    <3> QED
      BY <1>1, <1>4, <2>1, <2>3, <3>1 DEF CalmInv, Git
  <2>5. kind = "drive_ids" =>
           /\ \A f \in todo : f.pos \in {0, LastOf(log, f.item)} /\ f.item \in Items
           /\ \A i \in Items : sync.next[i] \in {saved[i], LastOf(log, i)}
           /\ \A i \in Live(log) \ Unwanted :
                 sync.next[i] = LastOf(log, i) \/ \E f \in todo : f.item = i
    <3>1. \A f \in todo : f \in sync.todo /\ f.item \in Items
      BY <1>4 DEF Entries, todo
    <3>2. \A f \in sync.todo : f.item \in Live(log) => f \in todo
      BY <2>3 DEF todo
    <3> QED
      BY <1>1, <1>4, <2>1, <3>1, <3>2 DEF CalmInv
  <2>6. \A i \in Live(log) : i \in Items
    BY DEF Live
  <2>7. /\ open = {}
        /\ kind \in Git => sync.at = log
        /\ kind \in {"table", "drive", "dropbox", "slack"} => sync.at = Len(log)
    BY <1>1, <1>4, <2>1 DEF CalmInv
  <2> QED
    BY <1>2, <1>5, <1>8, <2>4, <2>5, <2>6, <2>7 DEF CalmInv, Lenient, Git
<1>15. SettledIsDone'
  BY <1>5 DEF SettledIsDone
<1> QED
  BY <1>6, <1>7, <1>9, <1>10, <1>11, <1>12, <1>13, <1>14, <1>15, <1>16 DEF SyncInv, SettledInv

\* A sync ends, and the consumer persists the running cursor.
LEMMA FinishKeeps ==
    ASSUME SyncInv, SettledInv, Finish
    PROVE  SyncInv' /\ SettledInv'
<1>1. Typed /\ LogInv /\ SavedInv /\ FlightInv /\ TodoInv /\ GitInv /\ MapsInv /\ CalmInv
  BY DEF SyncInv, SettledInv
<1>2. /\ saved' = sync.next /\ sync' = Idle(kind) /\ settled' = settled /\ sync.pc = "emit" /\ sync.todo = {}
      /\ kind' = kind /\ log' = log /\ open' = open /\ target' = target /\ faults' = faults
  BY DEF Finish, source
<1>3. sync'.pc = "idle" /\ sync'.todo = {}
  BY <1>2 DEF Idle
<1>4. Typed'
  <2>1. sync' \in Syncs
    BY <1>2, IdleTyped
  <2>2. sync.next \in Cursors
    BY <1>1 DEF Typed, Syncs
  <2>3. sync' \in Syncs' /\ saved' \in Cursors'
    BY <1>2, <2>1, <2>2 DEF Syncs, Cursors, Commits
  <2> QED
    BY <1>1, <1>2, <1>3, <2>3 DEF Typed
<1>5. LogInv'
  BY <1>1, <1>2, SameLog
<1>6. /\ \A i \in Items : /\ LastOf(log, i)' = LastOf(log, i) /\ DataIn(log, i)' = DataIn(log, i)
                          /\ Stamp(i)' = Stamp(i) /\ (Wanted(i)' <=> Wanted(i))
      /\ Live(log)' = Live(log)
  BY <1>2, SameSource
<1>7. SavedInv'
  <2> SUFFICES ASSUME kind \in Counted PROVE SavedInv'
    BY <1>2 DEF SavedInv
  <2>1. /\ Reach(saved)' = Reach(sync.next) /\ Reach(sync.next) \in Nat /\ Reach(sync.at) \in Nat /\ Len(log) \in Nat
        /\ Reach(sync.next) <= Reach(sync.at)
    BY <1>1, <1>2, TypeFacts DEF Reach, FlightInv
  <2>2. kind \notin Notion => Reach(saved)' <= Len(log)
    BY <1>1, <1>2, <2>1 DEF FlightInv
  <2>3. ASSUME NEW i \in Items, Wanted(i), Stamp(i) <= Reach(sync.next)
        PROVE  Current(i)'
    <3>1. Stamp(i) <= Reach(sync.at)
      BY <1>1, <2>1, <2>3, StampFacts
    <3>2. Current(i)
      BY <1>1, <1>2, <2>3, <3>1 DEF FlightInv, Coming
    <3> QED
      BY <1>2, <1>6, <3>2 DEF Current
  <2>4. ASSUME NEW p \in open PROVE p > sync.next
    <3>1. kind = "table" /\ p \in Nat /\ p > sync.at
      BY <1>1, <1>2 DEF LogInv, FlightInv, Typed
    <3> QED
      BY <2>1, <3>1 DEF Reach, Git
  <2> QED
    BY <1>2, <1>6, <2>1, <2>2, <2>3, <2>4 DEF SavedInv
<1>8. FlightInv' /\ TodoInv' /\ FetchInv' /\ CalmInv'
  BY <1>3 DEF FlightInv, TodoInv, FetchInv, Fetching, CalmInv
<1>9. GitInv'
  BY <1>1, <1>2, <1>3 DEF GitInv
<1>10. MapsInv'
  BY <1>1, <1>2, <1>3, <1>6 DEF MapsInv
<1>11. SettledIsDone'
  <2> SUFFICES ASSUME settled, kind \notin NoCursor PROVE Listing(saved)' = {}
    BY <1>2 DEF SettledIsDone
  <2>1. Changed(saved)' = Changed(sync.next) /\ Left' = Left
    <3>1. Changed(saved)' = Changed(sync.next)
      BY <1>2 DEF Changed, FeedEntries, Blobs, TableRows, S3Objects, DriveSelected, DriveChanges,
         DriveFiles, DropboxChanges, DropboxFolder, NotionPages, NotionChanged, NotionQuery, GithubChanges,
         GithubWalk, GitlabChanges, GitlabTree, Compared, SlackMessages, History, MergeBase, Live, DataIn, LastOf
    <3> QED
      BY <1>2, <3>1 DEF Left
  <2>2. SUFFICES ASSUME NEW i \in Changed(sync.next) \ Left PROVE FALSE
    BY <2>1 DEF Listing
  <2>3. /\ Len(log) \in Nat /\ kind \in AllKinds /\ MaxLog \in Nat
        /\ kind \notin Maps \cup Git => sync.next \in Nat
    BY <1>1, TypeFacts DEF Positions
  <2>4. CASE kind = "slack"
    <3>1. PICK p \in 1 .. Len(log) : log[p].parent = 0 /\ p > sync.next
      BY <2>2, <2>4 DEF Changed, SlackMessages, History
    <3>2. p <= sync.next
      BY <1>1, <1>2, <2>4, <3>1 DEF CalmInv
    <3> QED
      BY <2>3, <2>4, <3>1, <3>2 DEF Maps, Git
  <2>5. CASE kind # "slack"
    <3>1. i \in Live(log) /\ i \in Items
      BY <1>1, <2>2, <2>5, ListingFacts
    <3>2. LastOf(log, i) \in 1 .. Len(log)
      BY <1>1, <3>1, ItemFacts
    <3>3. CASE kind = "table"
      <4>1. LastOf(log, i) <= sync.next
        BY <1>1, <1>2, <3>1, <3>3 DEF CalmInv
      <4>2. LastOf(log, i) > sync.next
        BY <1>1, <2>2, <3>1, <3>3, ChangedFacts
      <4> QED
        BY <2>3, <3>2, <3>3, <4>1, <4>2 DEF Maps, Git
    <3>4. CASE kind \in Maps
      <4>1. i \notin Unwanted
        BY <2>2, <3>4 DEF Left, Maps
      <4>2. sync.next[i] = IF kind = "s3" THEN DataIn(log, i) ELSE LastOf(log, i)
        BY <1>1, <1>2, <3>1, <3>4, <4>1 DEF CalmInv, Maps
      <4> QED
        BY <1>1, <2>2, <3>1, <3>4, <4>2, ChangedFacts DEF Maps
    <3>5. CASE kind \in {"drive", "dropbox"} \cup Notion \cup Git
      <4>1. sync.next = sync.at
        <5>1. \/ sync.next = sync.at
              \/ \A j \in Changed(sync.next) \ Left : \E e \in sync.todo : e.item = j
          BY <1>1, <1>2, <3>5 DEF CalmInv
        <5> QED
          BY <1>2, <2>2, <5>1
      <4>2. CASE kind \in {"drive", "dropbox"}
        <5>1. sync.next = Len(log)
          BY <1>1, <1>2, <4>1, <4>2 DEF CalmInv
        <5>2. sync.next = 0 \/ LastOf(log, i) > sync.next
          BY <1>1, <2>2, <3>1, <4>2, ChangedFacts
        <5> QED
          BY <2>3, <3>2, <5>1, <5>2
      <4>3. CASE kind \in Notion
        <5>1. i \notin Unwanted
          BY <2>2, <4>3 DEF Left
        <5>2. Minute(LastOf(log, i)) <= sync.next
          BY <1>1, <1>2, <3>1, <4>1, <4>3, <5>1 DEF CalmInv
        <5>3. sync.next \in Nat
          BY <2>3, <4>3 DEF Maps, Git
        <5>4. sync.next = 0 \/ Minute(LastOf(log, i)) > sync.next
          BY <1>1, <2>2, <3>1, <4>3, <5>3, ChangedFacts
        <5>5. Minute(LastOf(log, i)) \in Nat /\ Minute(LastOf(log, i)) > 0
          <6>1. LastOf(log, i) \in Nat /\ LastOf(log, i) > 0
            BY <2>3, <3>2
          <6> QED
            BY <6>1, MinuteFacts
        <5> QED
          BY <5>2, <5>3, <5>4, <5>5
      <4>4. CASE kind \in Git
        <5>1. sync.next = log
          BY <1>1, <1>2, <4>1, <4>4 DEF CalmInv
        <5>2. MergeBase(log) = log
          <6>1. log = SubSeq(log, 1, Len(log)) /\ Len(log) \in 0 .. Len(log)
            <7>1. log \in Seq(Events)
              BY <1>1, TypeFacts
            <7> QED
              BY <7>1
          <6> QED
            BY <1>1, <4>4, <6>1, BaseOfPrefix
        <5>3. i \in Changed(log) /\ Len(log) # 0
          BY <2>2, <2>3, <3>2, <5>1
        <5>4. log # <<>>
          BY <5>3
        <5> QED
          BY <1>1, <3>1, <4>4, <5>2, <5>3, <5>4, ChangedFacts
      <4> QED
        BY <3>5, <4>2, <4>3, <4>4
    <3> QED
      BY <2>3, <2>5, <3>3, <3>4, <3>5 DEF AllKinds, Maps, NoCursor, Git
  <2> QED
    BY <2>4, <2>5
<1> QED
  BY <1>4, <1>5, <1>7, <1>8, <1>9, <1>10, <1>11 DEF SyncInv, SettledInv

-----------------------------------------------------------------------------
(* A document is yielded and written.                                      *)

\* Rows are handed out in the order of their times, no two of which agree.
LEMMA RowsInOrder ==
    ASSUME Typed, TodoInv, kind = "table", NEW e \in sync.todo, NEW f \in sync.todo, f # e, Turn(e)
    PROVE  e.pos < f.pos
<1>1. sync.todo \in SUBSET Entries /\ MaxLog \in Nat
  BY TypeFacts DEF Typed, Syncs
<1>2. e \in Entries /\ f \in Entries
  BY <1>1
<1>3. e.pos \in Nat /\ f.pos \in Nat
  BY <1>1, <1>2 DEF Entries, Positions
<1>4. /\ e.thread = e.pos /\ ~ e.replies /\ log[e.pos].item = e.item /\ log[e.pos].data = e.data
      /\ f.thread = f.pos /\ ~ f.replies /\ log[f.pos].item = f.item /\ log[f.pos].data = f.data
  BY DEF TodoInv
<1>5. e.pos <= f.pos
  BY <1>3, <1>4 DEF Turn
<1>6. ASSUME e.pos = f.pos PROVE FALSE
  <2>1. e.item = f.item /\ e.data = f.data /\ e.thread = f.thread
    BY <1>4, <1>6
  <2>2. e.replies = FALSE /\ f.replies = FALSE
    BY <1>2, <1>4 DEF Entries
  <2>3. /\ e = [item |-> e.item, pos |-> e.pos, thread |-> e.thread, data |-> e.data, replies |-> e.replies]
        /\ f = [item |-> f.item, pos |-> f.pos, thread |-> f.thread, data |-> f.data, replies |-> f.replies]
    BY <1>2 DEF Entries
  <2> QED
    BY <1>6, <2>1, <2>2, <2>3
<1> QED
  BY <1>3, <1>5, <1>6

\* The cursor that a document brings, by kind.
LEMMA MergedFacts ==
    ASSUME Typed, TodoInv, NEW e \in sync.todo
    PROVE  /\ kind \in {"table", "slack"} => Merged(e) = e.pos
           /\ kind = "s3" => Merged(e) = [sync.next EXCEPT ![e.item] = e.data]
           /\ kind = "drive_ids" => Merged(e) = [sync.next EXCEPT ![e.item] = e.pos]
           /\ kind \in {"drive", "dropbox"} \cup Notion \cup Git => Merged(e) = sync.at
           /\ kind \in NoCursor => Merged(e) = sync.next
           /\ Merged(e) \in Cursors
<1>1. sync.todo \in SUBSET Entries
  BY DEF Typed, Syncs
<1>2. e \in Entries
  BY <1>1
<1>3. kind \in AllKinds /\ e.pos \in Positions /\ e.data \in Positions \cup {Unread}
  BY <1>2, TypeFacts DEF Entries
<1>4. kind \in {"table", "slack"} => Merged(e) = e.pos
  BY DEF Merged, TableCursor, SlackCursor, NoCursor
<1>5. kind = "s3" => Merged(e) = [sync.next EXCEPT ![e.item] = e.data]
  BY DEF Merged, S3Cursor, NoCursor
<1>6. kind = "drive_ids" => Merged(e) = [sync.next EXCEPT ![e.item] = e.pos]
  BY DEF Merged, DriveCursor, NoCursor
<1>7. kind \in {"drive", "dropbox"} \cup Notion \cup Git => Merged(e) = sync.at
  BY DEF Merged, DriveCursor, NoCursor, Git
<1>8. kind \in NoCursor => Merged(e) = sync.next
  BY DEF Merged, NoCursor
<1>9. Merged(e) \in Cursors
  <2>1. CASE kind \in Maps
    <3>1. kind = "s3" => e.data \in Positions
      BY <1>3 DEF TodoInv
    <3>2. sync.next \in [Items -> Positions]
      BY <2>1, TypeFacts
    <3>3. Merged(e) \in [Items -> Positions]
      BY <1>3, <1>5, <1>6, <2>1, <3>1, <3>2 DEF Maps
    <3>4. kind \notin Git
      BY <2>1 DEF Maps, Git
    <3> QED
      BY <2>1, <3>3, <3>4 DEF Cursors
  <2>2. CASE kind \in Git
    <3>1. sync.at \in Seq(Events) /\ kind \notin Maps
      BY <2>2, TypeFacts DEF Maps, Git
    <3> QED
      BY <1>7, <2>2, <3>1 DEF Cursors
  <2>3. CASE kind \notin Maps \cup Git
    <3>1. sync.at \in Positions /\ sync.next \in Positions
      BY <2>3, TypeFacts
    <3>2. Merged(e) \in Positions
      BY <1>3, <1>4, <1>7, <1>8, <2>3, <3>1 DEF AllKinds, Maps, Git, NoCursor
    <3> QED
      BY <2>3, <3>2 DEF Cursors
  <2> QED
    BY <2>1, <2>2, <2>3
<1> QED
  BY <1>4, <1>5, <1>6, <1>7, <1>8, <1>9

\* What a message brings: the replies to it.
LEMMA ThreadFacts ==
    ASSUME Typed, LogInv, TodoInv, NEW e \in sync.todo
    PROVE  /\ Thread(e) \in SUBSET Entries
           /\ kind # "slack" => Thread(e) = {}
           /\ \A f \in Thread(e) :
                 /\ f.pos \in 1 .. Len(log) /\ log[f.pos].parent = e.pos /\ log[f.pos].parent # 0 /\ f.pos > e.pos
                 /\ f.item = log[f.pos].item /\ f.data = log[f.pos].data /\ f.thread = e.pos /\ ~ f.replies
           /\ kind = "slack" => \A q \in Replies(e.pos) : \E f \in Thread(e) : f.item = log[q].item
<1>1. sync.todo \in SUBSET Entries
  BY DEF Typed, Syncs
<1>2. e \in Entries
  BY <1>1
<1>3. e.pos \in Positions
  BY <1>2 DEF Entries
<1>4. kind # "slack" => Thread(e) = {}
  BY DEF TodoInv, Thread
<1>5. CASE kind # "slack"
  BY <1>4, <1>5
<1>6. CASE kind = "slack"
  <2> DEFINE Reply(q) == [item |-> log[q].item, pos |-> q, thread |-> e.pos, data |-> log[q].data, replies |-> FALSE]
  <2>1. e.pos # 0 /\ e.replies = (Replies(e.pos) # {})
    <3>1. e.item \in Items /\ e.item \in Live(log) /\ e.pos = LastOf(log, e.item) /\ e.replies = (Replies(e.pos) # {})
      BY <1>2, <1>6 DEF TodoInv, Entries
    <3> QED
      BY <3>1, ItemFacts
  <2>2. Thread(e) = {Reply(q) : q \in Replies(e.pos)}
    BY <2>1 DEF Thread
  <2>3. ASSUME NEW q \in Replies(e.pos)
        PROVE  /\ q \in 1 .. Len(log) /\ log[q].parent = e.pos /\ q > e.pos
               /\ Reply(q) \in Entries
    <3>1. q \in 1 .. Len(log) /\ log[q].parent = e.pos
      BY DEF Replies
    <3>2. e.pos \in 1 .. q - 1
      BY <1>6, <2>1, <3>1 DEF LogInv
    <3>3. log[q].item \in Items /\ log[q].data \in Positions /\ q \in Positions /\ Len(log) \in Nat
      BY <3>1, TypeFacts
    <3>4. q > e.pos
      BY <3>1, <3>2, <3>3
    <3> QED
      BY <1>3, <3>1, <3>3, <3>4 DEF Entries
  <2>4. \A q : /\ Reply(q).item = log[q].item /\ Reply(q).pos = q /\ Reply(q).thread = e.pos
               /\ Reply(q).data = log[q].data /\ ~ Reply(q).replies
    OBVIOUS
  <2> HIDE DEF Reply
  <2>5. Thread(e) \in SUBSET Entries
    BY <2>2, <2>3
  <2>6. ASSUME NEW f \in Thread(e)
        PROVE  /\ f.pos \in 1 .. Len(log) /\ log[f.pos].parent = e.pos /\ log[f.pos].parent # 0 /\ f.pos > e.pos
               /\ f.item = log[f.pos].item /\ f.data = log[f.pos].data /\ f.thread = e.pos /\ ~ f.replies
    <3>1. PICK q \in Replies(e.pos) : f = Reply(q)
      BY <2>2
    <3> QED
      BY <2>1, <2>3, <2>4, <3>1
  <2>7. \A q \in Replies(e.pos) : \E f \in Thread(e) : f.item = log[q].item
    BY <2>2, <2>4
  <2> QED
    BY <1>6, <2>5, <2>6, <2>7
<1> QED
  BY <1>5, <1>6

\* What a yielded document changes.
Yields(e) ==
    /\ sync'.pc = "emit" /\ sync'.at = sync.at /\ sync'.todo = (sync.todo \ {e}) \cup Thread(e)
    /\ sync'.next = Merged(e) /\ saved' = (IF kind \in PerDocument THEN Merged(e) ELSE saved)
    /\ target' = [target EXCEPT ![e.item] = Body(e)] /\ Body(e) # Gone
    /\ kind' = kind /\ log' = log /\ open' = open /\ settled' = settled

LEMMA EmitYields ==
    ASSUME SyncInv, NEW e \in sync.todo, Emit(e)
    PROVE  Turn(e) /\ Yields(e) /\ Typed' /\ LogInv'
<1>1. Typed /\ LogInv /\ TodoInv /\ GitInv
  BY DEF SyncInv
<1>2. Turn(e) /\ sync \in Syncs /\ sync.todo \in SUBSET Entries
  BY <1>1 DEF Emit, Typed, Syncs
<1>3. sync.pc = "emit" /\ Body(e) \in Positions /\ Merged(e) \in Cursors /\ Thread(e) \in SUBSET Entries /\ e.item \in Items
  BY <1>1, <1>2, BodyFacts, MergedFacts, ThreadFacts
<1> DEFINE todo == (sync.todo \ {e}) \cup Thread(e)
<1>4. /\ sync' = [sync EXCEPT !.todo = todo, !.next = Merged(e)]
      /\ saved' = (IF kind \in PerDocument THEN Merged(e) ELSE saved)
      /\ target' = [target EXCEPT ![e.item] = Body(e)] /\ Body(e) # Gone
      /\ kind' = kind /\ log' = log /\ open' = open /\ settled' = settled /\ faults' = faults
  BY DEF Emit, source
<1>5. todo \in SUBSET Entries
  BY <1>2, <1>3
<1> HIDE DEF todo
<1>6. sync' \in Syncs /\ sync'.pc = "emit" /\ sync'.at = sync.at /\ sync'.todo = todo /\ sync'.next = Merged(e)
  BY <1>2, <1>3, <1>4, <1>5 DEF Syncs
<1>7. Typed'
  <2>1. saved' \in Cursors
    BY <1>1, <1>3, <1>4 DEF Typed
  <2>2. target' \in [Items -> Positions]
    BY <1>1, <1>3, <1>4 DEF Typed
  <2>3. sync' \in Syncs' /\ saved' \in Cursors'
    BY <1>4, <1>6, <2>1 DEF Syncs, Cursors, Commits
  <2> QED
    BY <1>1, <1>4, <1>6, <2>2, <2>3 DEF Typed
<1>8. LogInv'
  BY <1>1, <1>4, SameLog
<1> QED
  BY <1>2, <1>4, <1>6, <1>7, <1>8 DEF Yields, todo

\* A row's time is later than those of the rows before it, so the persisted
\* cursor speaks for no row that is still to come.
LEMMA EmitSaved ==
    ASSUME Orderly, SyncInv, NEW e \in sync.todo, Turn(e), Yields(e)
    PROVE  SavedInv'
<1>1. Typed /\ LogInv /\ SavedInv /\ FlightInv /\ TodoInv /\ GitInv
  BY DEF SyncInv
<1> SUFFICES ASSUME kind \in Counted PROVE SavedInv'
  BY DEF SavedInv, Yields
<1>2. e \in Entries /\ e.item \in Items /\ Body(e) \in Positions /\ sync.pc = "emit"
  BY <1>1, BodyFacts
<1>3. /\ \A i \in Items : /\ LastOf(log, i)' = LastOf(log, i) /\ DataIn(log, i)' = DataIn(log, i)
                          /\ Stamp(i)' = Stamp(i) /\ (Wanted(i)' <=> Wanted(i))
      /\ kind' = kind /\ log' = log /\ open' = open
  BY SameSource DEF Yields
<1>4. target \in [Items -> Positions] /\ target' = [target EXCEPT ![e.item] = Body(e)]
  BY <1>1 DEF Typed, Yields
<1>5. /\ Reach(saved) \in Nat /\ Reach(sync.at) \in Nat /\ Reach(saved) <= Reach(sync.at)
      /\ \A i \in Items : Stamp(i) \in Nat
  BY <1>1, <1>2, TypeFacts, StampFacts DEF FlightInv
<1>6. ASSUME NEW i \in Items, Wanted(i), Stamp(i) <= Reach(sync.at), Current(i) \/ i = e.item
      PROVE  Current(i)'
  <2>1. CASE i = e.item
    <3>1. Body(e) = DataIn(log, i)
      BY <1>1, <1>6, <2>1, BodyFacts DEF Wanted
    <3> QED
      BY <1>3, <1>4, <2>1, <3>1 DEF Current
  <2>2. CASE i # e.item
    BY <1>3, <1>4, <1>6, <2>2 DEF Current
  <2> QED
    BY <2>1, <2>2
<1>7. CASE saved' = saved
  <2>1. Reach(saved)' = Reach(saved)
    BY <1>3, <1>7 DEF Reach
  <2>2. ASSUME NEW i \in Items, Wanted(i), Stamp(i) <= Reach(saved) PROVE Current(i)'
    <3>1. Current(i) /\ Stamp(i) <= Reach(sync.at)
      BY <1>1, <1>5, <2>2 DEF SavedInv
    <3> QED
      BY <1>6, <2>2, <3>1
  <2> QED
    BY <1>1, <1>3, <1>7, <2>1, <2>2 DEF SavedInv
<1>8. CASE saved' # saved
  <2>1. kind = "table" /\ saved' = Merged(e)
    BY <1>8 DEF Orderly, Yields, Counted, Maps, Git
  <2>2. saved' = e.pos /\ e.pos \in Nat /\ e.pos <= sync.at /\ Reach(saved)' = e.pos /\ Reach(sync.at) = sync.at
    <3>1. e.pos \in Nat
      <4>1. MaxLog \in Nat
        BY <1>1, TypeFacts
      <4> QED
        BY <1>2, <4>1 DEF Entries, Positions
    <3> QED
      BY <1>1, <1>3, <2>1, <3>1, MergedFacts DEF TodoInv, Reach, Git
  <2>3. sync.at <= Len(log) /\ Len(log) \in Nat /\ \A p \in open : p > sync.at /\ p \in Nat
    BY <1>1, <1>2, <2>1, <2>2, TypeFacts DEF FlightInv, Typed
  <2>4. ASSUME NEW i \in Items, Wanted(i), Stamp(i) <= e.pos PROVE Current(i)'
    <3>1. Stamp(i) <= Reach(sync.at) /\ Stamp(i) = LastOf(log, i)
      BY <1>1, <1>5, <2>1, <2>2, <2>4, StampFacts
    <3>2. CASE Current(i) \/ i = e.item
      BY <1>6, <2>4, <3>1, <3>2
    <3>3. CASE ~ Current(i) /\ i # e.item
      <4>1. PICK f \in sync.todo : f.item = i
        BY <1>1, <1>2, <2>1, <2>4, <3>1, <3>3 DEF FlightInv, Coming
      <4>2. f.pos = LastOf(log, i)
        BY <1>1, <2>1, <2>2, <3>1, <4>1 DEF TodoInv
      <4>3. e.pos < f.pos
        BY <1>1, <2>1, <3>3, <4>1, RowsInOrder
      <4> QED
        BY <1>5, <2>2, <2>4, <3>1, <4>2, <4>3
    <3> QED
      BY <3>2, <3>3
  <2>5. \A p \in open : p > e.pos
    BY <1>5, <2>2, <2>3
  <2> QED
    BY <1>3, <1>5, <2>1, <2>2, <2>3, <2>4, <2>5 DEF SavedInv
<1> QED
  BY <1>7, <1>8

\* What the running cursor could speak for is written now, or comes later.
LEMMA EmitFlight ==
    ASSUME Orderly, SyncInv, NEW e \in sync.todo, Turn(e), Yields(e)
    PROVE  FlightInv'
<1>1. Typed /\ LogInv /\ SavedInv /\ FlightInv /\ TodoInv /\ GitInv
  BY DEF SyncInv
<1> SUFFICES ASSUME kind \in Counted PROVE FlightInv'
  BY DEF FlightInv, Yields
<1>2. e \in Entries /\ e.item \in Items /\ Body(e) \in Positions /\ sync.pc = "emit"
  BY <1>1, BodyFacts
<1>3. /\ \A i \in Items : /\ LastOf(log, i)' = LastOf(log, i) /\ DataIn(log, i)' = DataIn(log, i)
                          /\ Stamp(i)' = Stamp(i) /\ (Wanted(i)' <=> Wanted(i))
      /\ kind' = kind /\ log' = log /\ open' = open
  BY SameSource DEF Yields
<1>4. target \in [Items -> Positions] /\ target' = [target EXCEPT ![e.item] = Body(e)]
  BY <1>1 DEF Typed, Yields
<1>5. /\ sync'.pc = "emit" /\ sync'.at = sync.at /\ sync'.todo = (sync.todo \ {e}) \cup Thread(e)
      /\ sync'.next = Merged(e) /\ saved' \in {saved, Merged(e)}
  BY DEF Yields
<1>6. Reach(saved) \in Nat /\ Reach(sync.at) \in Nat /\ Reach(saved) <= Reach(sync.at) /\ Reach(sync.at)' = Reach(sync.at)
  BY <1>1, <1>2, <1>3, <1>5, TypeFacts DEF FlightInv, Reach
<1>7. Reach(Merged(e)) <= Reach(sync.at)
  <2>1. CASE kind \in {"table", "slack"}
    BY <1>1, <2>1, MergedFacts DEF TodoInv, Reach, Git
  <2>2. CASE kind \notin {"table", "slack"}
    <3>1. Merged(e) = sync.at
      BY <1>1, <2>2, MergedFacts DEF Counted
    <3> QED
      BY <1>6, <3>1
  <2> QED
    BY <2>1, <2>2
<1>8. Reach(saved)' <= Reach(sync.at)' /\ Reach(sync.next)' <= Reach(sync.at)'
  <2>1. Reach(sync.next)' = Reach(Merged(e)) /\ Reach(saved)' \in {Reach(saved), Reach(Merged(e))}
    BY <1>3, <1>5 DEF Reach
  <2> QED
    BY <1>6, <1>7, <2>1
<1>9. ASSUME NEW i \in Items, Wanted(i), Stamp(i) <= Reach(sync.at)
      PROVE  Current(i)' \/ Coming(i)'
  <2>1. CASE i = e.item
    <3>1. Body(e) = DataIn(log, i)
      BY <1>1, <1>9, <2>1, BodyFacts DEF Wanted
    <3> QED
      BY <1>3, <1>4, <2>1, <3>1 DEF Current
  <2>2. CASE i # e.item /\ Current(i)
    BY <1>3, <1>4, <2>2 DEF Current
  <2>3. CASE i # e.item /\ Coming(i)
    <3>1. PICK f \in sync.todo : f.item = i \/ (kind = "slack" /\ log[LastOf(log, i)].parent = f.pos)
      BY <2>3 DEF Coming
    <3>2. CASE f # e
      BY <1>3, <1>5, <3>1, <3>2 DEF Coming
    <3>3. CASE f = e
      <4>1. kind = "slack" /\ log[LastOf(log, i)].parent = e.pos
        BY <2>3, <3>1, <3>3
      <4>2. LastOf(log, i) \in 1 .. Len(log) /\ log[LastOf(log, i)].item = i
        BY <1>1, <1>9, ItemFacts DEF Wanted
      <4>3. LastOf(log, i) \in Replies(e.pos)
        BY <4>1, <4>2 DEF Replies
      <4>4. \E g \in Thread(e) : g.item = i
        BY <1>1, <4>1, <4>2, <4>3, ThreadFacts
      <4> QED
        BY <1>5, <4>4 DEF Coming
    <3> QED
      BY <3>2, <3>3
  <2> QED
    BY <1>1, <1>2, <1>9, <2>1, <2>2, <2>3 DEF FlightInv
<1>10. /\ kind \notin Notion => Reach(sync.at) <= Len(log)
       /\ \A p \in open : p > sync.at
       /\ kind = "slack" => \A p \in 1 .. Len(log) : log[p].parent # 0 => p <= sync.at
  BY <1>1, <1>2 DEF FlightInv
<1> QED
  BY <1>3, <1>5, <1>6, <1>8, <1>9, <1>10 DEF FlightInv

\* What is still in hand is as it was listed, and so are the replies.
LEMMA EmitTodo ==
    ASSUME SyncInv, NEW e \in sync.todo, Turn(e), Yields(e)
    PROVE  TodoInv'
<1>1. Typed /\ LogInv /\ FlightInv /\ TodoInv /\ GitInv
  BY DEF SyncInv
<1>2. e \in Entries /\ e.item \in Items /\ sync.pc = "emit" /\ sync.todo \in SUBSET Entries
  BY <1>1, BodyFacts DEF Typed, Syncs
<1>3. /\ \A i \in Items : /\ LastOf(log, i)' = LastOf(log, i) /\ DataIn(log, i)' = DataIn(log, i)
                          /\ Stamp(i)' = Stamp(i)
      /\ Live(log)' = Live(log) /\ \A p : Replies(p)' = Replies(p)
      /\ kind' = kind /\ log' = log
  BY SameSource DEF Yields
<1>4. sync'.at = sync.at /\ sync'.todo = (sync.todo \ {e}) \cup Thread(e) /\ sync'.next = Merged(e)
  BY DEF Yields
<1>5. SUFFICES ASSUME NEW f \in (sync.todo \ {e}) \cup Thread(e)
      PROVE  /\ f.replies => kind = "slack"
             /\ /\ kind \in {"table", "slack"} \cup Notion
                   /\ f.item \in Live(log) /\ Stamp(f.item) <= sync.at
                => f.data \in {Unread, DataIn(log, f.item)}
             /\ kind \in {"rss", "table", "s3", "slack"} \cup Git => f.data # Unread
             /\ kind = "table" =>
                   /\ f.pos > Merged(e) /\ f.pos <= sync.at /\ f.thread = f.pos /\ ~f.replies
                   /\ log[f.pos].item = f.item /\ log[f.pos].data = f.data
                   /\ LastOf(log, f.item) <= sync.at => f.pos = LastOf(log, f.item)
             /\ kind = "slack" =>
                   /\ f.item \in Live(log) /\ f.pos = LastOf(log, f.item) /\ f.pos <= sync.at
                   /\ f.replies = (Replies(f.pos) # {})
  <2>1. \A f \in (sync.todo \ {e}) \cup Thread(e) : f.item \in Items
    <3>1. Thread(e) \in SUBSET Entries
      BY <1>1, ThreadFacts
    <3> QED
      BY <1>2, <3>1 DEF Entries
  <2> QED
    BY <1>3, <1>4, <2>1 DEF TodoInv
<1>6. CASE f \in sync.todo \ {e}
  <2>1. kind = "table" => f.pos > Merged(e)
    <3> SUFFICES ASSUME kind = "table" PROVE f.pos > Merged(e)
      OBVIOUS
    <3>1. e.pos < f.pos /\ Merged(e) = e.pos
      BY <1>1, <1>6, RowsInOrder, MergedFacts
    <3>2. e.pos \in Nat /\ f.pos \in Nat
      <4>1. MaxLog \in Nat /\ f \in Entries
        BY <1>1, <1>2, <1>6, TypeFacts
      <4> QED
        BY <1>2, <4>1 DEF Entries, Positions
    <3> QED
      BY <3>1, <3>2
  <2> QED
    BY <1>1, <1>6, <2>1 DEF TodoInv
<1>7. CASE f \in Thread(e)
  <2>1. kind = "slack"
    BY <1>1, <1>7, ThreadFacts
  <2> DEFINE q == f.pos
  <2>2. /\ q \in 1 .. Len(log) /\ log[q].parent # 0
        /\ f.item = log[q].item /\ f.data = log[q].data /\ ~ f.replies
    BY <1>1, <1>7, ThreadFacts
  <2>3. f.item \in Live(log) /\ LastOf(log, f.item) = q /\ DataIn(log, f.item) = f.data /\ Replies(q) = {}
    <3> HIDE DEF q
    <3>1. q \in 1 .. Len(log) /\ ~ (q > q)
      BY <2>2, TypeFacts, <1>1
    <3>2. log[q].item \in Live(log) /\ LastOf(log, log[q].item) = q /\ DataIn(log, log[q].item) = log[q].data
      BY <1>1, <2>1, <3>1, SlackFacts
    <3>3. Replies(q) = {}
      BY <1>1, <2>1, <2>2, <3>1, SlackFacts
    <3> QED
      BY <2>2, <3>2, <3>3
  <2>4. q <= sync.at
    BY <1>1, <1>2, <2>1, <2>2 DEF FlightInv, Counted
  <2>5. f.data # Unread
    BY <1>1, <2>2, TypeFacts
  <2>6. f.replies = FALSE
    <3>1. Thread(e) \in SUBSET Entries
      BY <1>1, ThreadFacts
    <3>2. f \in Entries
      BY <1>7, <3>1
    <3> QED
      BY <2>2, <3>2 DEF Entries
  <2> QED
    BY <2>1, <2>2, <2>3, <2>4, <2>5, <2>6
<1> QED
  BY <1>6, <1>7

\* The cursor of a branch moves to the commit of the sync; those of a map to
\* what has just been written, or to something older.
LEMMA EmitCursors ==
    ASSUME Orderly, SyncInv, NEW e \in sync.todo, Turn(e), Yields(e)
    PROVE  GitInv' /\ MapsInv'
<1>1. Typed /\ LogInv /\ TodoInv /\ GitInv /\ MapsInv
  BY DEF SyncInv
<1>2. e.item \in Items /\ Body(e) \in Positions /\ sync.pc = "emit" /\ sync.todo \in SUBSET Entries
  BY <1>1, BodyFacts DEF Typed, Syncs
<1>3. \A i \in Items : LastOf(log, i)' = LastOf(log, i)
  BY SameSource DEF Yields
<1>4. /\ sync'.pc = "emit" /\ sync'.at = sync.at /\ sync'.todo = (sync.todo \ {e}) \cup Thread(e)
      /\ sync'.next = Merged(e) /\ saved' = (IF kind \in PerDocument THEN Merged(e) ELSE saved)
      /\ target' = [target EXCEPT ![e.item] = Body(e)] /\ Body(e) # Gone
      /\ kind' = kind /\ log' = log
  BY DEF Yields
<1>5. GitInv'
  <2> SUFFICES ASSUME kind \in Git PROVE GitInv'
    BY <1>4 DEF GitInv
  <2>1. Merged(e) = sync.at /\ saved' = saved
    BY <1>1, <1>4, MergedFacts DEF Orderly, Maps, Git
  <2> QED
    BY <1>1, <1>2, <1>4, <2>1 DEF GitInv
<1>6. MapsInv'
  <2> SUFFICES ASSUME kind \in Maps PROVE MapsInv'
    BY <1>4 DEF MapsInv
  <2> DEFINE got == IF kind = "s3" THEN e.data ELSE e.pos
  <2>1. /\ Merged(e) = [sync.next EXCEPT ![e.item] = got] /\ got \in Int
        /\ sync.next \in [Items -> Positions] /\ saved \in [Items -> Positions] /\ target \in [Items -> Positions]
        /\ MaxLog \in Nat
    <3>1. e \in Entries /\ MaxLog \in Nat
      BY <1>1, <1>2, TypeFacts
    <3>2. e.data \in Int /\ e.pos \in Int
      BY <3>1 DEF Entries, Positions, Unread
    <3>3. Merged(e) = [sync.next EXCEPT ![e.item] = got]
      BY <1>1, MergedFacts DEF Maps
    <3> QED
      BY <1>1, <3>1, <3>2, <3>3, TypeFacts DEF Typed
  <2>2. Body(e) = LastOf(log, e.item)
    <3>1. Body(e) = DataIn(log, e.item)
      BY <1>1, BodyFacts DEF Maps
    <3> QED
      BY <1>1, <1>2, <1>4, <3>1, ItemFacts
  <2>3. got <= LastOf(log, e.item)
    BY <1>1 DEF MapsInv
  <2>4. \A i \in Items : /\ saved[i] \in Nat /\ sync.next[i] \in Nat /\ target[i] \in Nat /\ LastOf(log, i) \in Nat
                         /\ saved[i] <= target[i] /\ target[i] <= LastOf(log, i) /\ sync.next[i] <= target[i]
    <3> SUFFICES ASSUME NEW i \in Items
                 PROVE  /\ saved[i] \in Nat /\ sync.next[i] \in Nat /\ target[i] \in Nat /\ LastOf(log, i) \in Nat
                        /\ saved[i] <= target[i] /\ target[i] <= LastOf(log, i) /\ sync.next[i] <= target[i]
      OBVIOUS
    <3>1. LastOf(log, i) \in Nat
      BY <1>1, ItemFacts
    <3>2. saved[i] \in Nat /\ sync.next[i] \in Nat /\ target[i] \in Nat
      BY <2>1 DEF Positions
    <3> QED
      BY <1>1, <1>2, <3>1, <3>2 DEF MapsInv
  <2> HIDE DEF got
  <2>5. \A i \in Items : /\ Merged(e)[i] = (IF i = e.item THEN got ELSE sync.next[i])
                         /\ target'[i] = (IF i = e.item THEN LastOf(log, i) ELSE target[i])
    BY <1>2, <1>4, <2>1, <2>2
  <2>6. \A i \in Items : /\ Merged(e)[i] <= target'[i] /\ saved[i] <= target'[i] /\ target'[i] <= LastOf(log, i)
    BY <2>1, <2>3, <2>4, <2>5
  <2>7. \A i \in Items : /\ saved'[i] <= target'[i] /\ target'[i] <= LastOf(log, i)' /\ sync'.next[i] <= target'[i]
    BY <1>3, <1>4, <2>6
  <2>8. ASSUME NEW f \in sync'.todo
        PROVE  (IF kind = "s3" THEN f.data ELSE f.pos) <= LastOf(log, f.item)'
    <3>1. f \in sync.todo
      BY <1>1, <1>4, <2>8, ThreadFacts DEF Maps
    <3>2. f.item \in Items
      BY <1>2, <3>1 DEF Entries
    <3> QED
      BY <1>1, <1>3, <3>1, <3>2 DEF MapsInv
  <2> QED
    BY <1>4, <2>7, <2>8 DEF MapsInv
<1> QED
  BY <1>5, <1>6

\* In a calm sync the running cursor speaks for what was passed, and the rest
\* is in hand.
LEMMA EmitCalm ==
    ASSUME Orderly, SyncInv, CalmInv, NEW e \in sync.todo, Turn(e), Yields(e)
    PROVE  CalmInv'
<1>1. Typed /\ LogInv /\ TodoInv /\ FetchInv /\ GitInv
  BY DEF SyncInv
<1> SUFFICES ASSUME settled PROVE CalmInv'
  BY DEF CalmInv, Yields
<1>2. e \in Entries /\ e.item \in Items /\ sync.pc = "emit" /\ sync.todo \in SUBSET Entries
  BY <1>1, BodyFacts DEF Typed, Syncs
<1>3. /\ \A i \in Items : LastOf(log, i)' = LastOf(log, i) /\ DataIn(log, i)' = DataIn(log, i)
      /\ Live(log)' = Live(log)
  BY SameSource DEF Yields
<1>4. /\ sync'.pc = "emit" /\ sync'.at = sync.at /\ sync'.todo = (sync.todo \ {e}) \cup Thread(e)
      /\ sync'.next = Merged(e) /\ saved' = (IF kind \in PerDocument THEN Merged(e) ELSE saved)
      /\ kind' = kind /\ log' = log /\ open' = open
  BY DEF Yields
<1>5. /\ open = {}
      /\ kind \in Git => sync.at = log
      /\ kind \in {"table", "drive", "dropbox", "slack"} => sync.at = Len(log)
      /\ kind = "notion" => \A i \in Live(log) \ Unwanted : Minute(LastOf(log, i)) <= sync.at
  BY <1>1, <1>2 DEF CalmInv
<1>13. kind = "notion_ids" =>
          /\ \A f \in sync.todo : f.pos # 0
          /\ \A i \in Live(log) \ Unwanted : Minute(LastOf(log, i)) <= sync.at
  <2>1. kind = "notion_ids" => \A f \in sync.todo : f.pos # 0
    BY <1>1 DEF Turn, FetchInv
  <2> QED
    BY <1>2, <2>1 DEF CalmInv
<1>6. \A i \in Live(log) : i \in Items
  BY DEF Live
<1>7. kind \in {"drive", "dropbox"} \cup Notion \cup Git => Merged(e) = sync.at
  BY <1>1, MergedFacts
<1>8. kind # "slack" => sync'.todo = sync.todo \ {e}
  BY <1>1, <1>4, ThreadFacts
<1>9. ASSUME kind = "table", NEW i \in Live(log)
      PROVE  LastOf(log, i) <= Merged(e) \/ \E f \in sync'.todo : f.item = i
  <2>1. Merged(e) = e.pos /\ e.pos > sync.next
    BY <1>1, <1>9, MergedFacts DEF TodoInv
  <2>2. e.pos \in Nat /\ sync.next \in Nat /\ LastOf(log, i) \in Nat /\ LastOf(log, i) <= Len(log) /\ i \in Items
    <3>1. MaxLog \in Nat /\ sync.next \in Positions
      BY <1>1, <1>9, TypeFacts DEF Maps, Git
    <3>2. e.pos \in Nat /\ sync.next \in Nat
      BY <1>2, <3>1 DEF Entries, Positions
    <3> QED
      BY <1>1, <1>6, <1>9, <3>2, ItemFacts
  <2>3. LastOf(log, i) <= sync.next \/ \E f \in sync.todo : f.item = i
    BY <1>1, <1>2, <1>9 DEF CalmInv
  <2>4. e.item = i => e.pos = LastOf(log, i)
    BY <1>1, <1>5, <1>9, <2>2 DEF TodoInv
  <2> QED
    BY <1>8, <1>9, <2>1, <2>2, <2>3, <2>4
<1>10. ASSUME kind = "s3"
       PROVE  /\ \A f \in sync'.todo : f.data = DataIn(log, f.item) /\ f.item \in Items
              /\ \A i \in Live(log) \ Unwanted :
                    Merged(e)[i] = DataIn(log, i) \/ \E f \in sync'.todo : f.item = i
  <2>1. /\ \A f \in sync.todo : f.data = DataIn(log, f.item)
        /\ \A i \in Live(log) \ Unwanted :
              sync.next[i] = DataIn(log, i) \/ \E f \in sync.todo : f.item = i
    BY <1>2, <1>10 DEF CalmInv
  <2>2. sync.next \in [Items -> Positions] /\ Merged(e) = [sync.next EXCEPT ![e.item] = e.data]
    BY <1>1, <1>10, MergedFacts, TypeFacts DEF Maps
  <2>3. \A i \in Items : Merged(e)[i] = (IF i = e.item THEN DataIn(log, i) ELSE sync.next[i])
    BY <2>1, <2>2
  <2>4. \A f \in sync'.todo : f \in sync.todo /\ f.item \in Items
    BY <1>2, <1>8, <1>10 DEF Entries
  <2>5. \A f \in sync.todo : f.item = e.item \/ f \in sync'.todo
    BY <1>8, <1>10
  <2> QED
    BY <1>6, <2>1, <2>3, <2>4, <2>5
<1>11. ASSUME kind = "drive_ids"
       PROVE  /\ \A f \in sync'.todo : f.pos \in {0, LastOf(log, f.item)} /\ f.item \in Items
              /\ \A i \in Items : Merged(e)[i] \in {saved'[i], LastOf(log, i)}
              /\ \A i \in Live(log) \ Unwanted :
                    Merged(e)[i] = LastOf(log, i) \/ \E f \in sync'.todo : f.item = i
  <2>1. /\ \A f \in sync.todo : f.pos \in {0, LastOf(log, f.item)}
        /\ \A i \in Items : sync.next[i] \in {saved[i], LastOf(log, i)}
        /\ \A i \in Live(log) \ Unwanted :
              sync.next[i] = LastOf(log, i) \/ \E f \in sync.todo : f.item = i
    BY <1>2, <1>11 DEF CalmInv
  <2>2. sync.next \in [Items -> Positions] /\ Merged(e) = [sync.next EXCEPT ![e.item] = e.pos] /\ e.pos # 0
    BY <1>1, <1>11, MergedFacts, TypeFacts DEF Maps, Turn
  <2>3. \A i \in Items : Merged(e)[i] = (IF i = e.item THEN LastOf(log, i) ELSE sync.next[i])
    BY <2>1, <2>2
  <2>4. \A f \in sync'.todo : f \in sync.todo /\ f.item \in Items
    BY <1>2, <1>8, <1>11 DEF Entries
  <2>5. \A f \in sync.todo : f.item = e.item \/ f \in sync'.todo
    BY <1>8, <1>11
  <2>6. saved' = Merged(e) \/ saved' = saved
    BY <1>4
  <2> QED
    BY <1>6, <2>1, <2>3, <2>4, <2>5, <2>6
<1>12. ASSUME kind = "slack"
       PROVE  /\ \A f \in sync'.todo : f.thread <= f.pos
              /\ \A p \in 1 .. Len(log) : log[p].parent = 0 =>
                    \/ \E f \in sync'.todo : f.pos = p /\ f.thread = p
                    \/ p <= Merged(e) /\ \A f \in sync'.todo : p <= f.thread
  <2>1. /\ \A f \in sync.todo : f.thread <= f.pos
        /\ \A p \in 1 .. Len(log) : log[p].parent = 0 =>
              \/ \E f \in sync.todo : f.pos = p /\ f.thread = p
              \/ p <= sync.next /\ \A f \in sync.todo : p <= f.thread
    BY <1>1, <1>2, <1>12 DEF CalmInv
  <2>2. Merged(e) = e.pos /\ MaxLog \in Nat /\ Len(log) \in Nat
    BY <1>1, <1>12, MergedFacts, TypeFacts
  <2>3. \A f \in sync.todo : f.thread \in Nat /\ f.pos \in Nat
    BY <1>2, <2>2 DEF Entries, Positions
  <2>4. \A f \in sync.todo : e.thread <= f.thread
    <3>1. \A f \in sync.todo : e.thread < f.thread \/ e.thread = f.thread
      BY <1>12 DEF Turn
    <3> QED
      BY <2>3, <3>1
  <2>5. \A f \in Thread(e) : f.thread = e.pos /\ f.pos > e.pos /\ f.pos \in Nat
    BY <1>1, ThreadFacts
  <2>6. \A f \in sync'.todo : (f \in sync.todo /\ f # e) \/ f \in Thread(e)
    BY <1>4
  <2>7. \A f \in sync'.todo : f.thread <= f.pos
    BY <2>1, <2>3, <2>5, <2>6
  <2>8. ASSUME NEW p \in 1 .. Len(log), log[p].parent = 0
        PROVE  \/ \E f \in sync'.todo : f.pos = p /\ f.thread = p
               \/ p <= Merged(e) /\ \A f \in sync'.todo : p <= f.thread
    <3>1. CASE \E f \in sync.todo : f # e /\ f.pos = p /\ f.thread = p
      BY <1>4, <3>1
    <3>2. CASE p <= e.thread
      <4>1. p <= e.pos
        BY <2>1, <2>3, <3>2
      <4>2. \A f \in sync'.todo : p <= f.thread
        BY <2>2, <2>3, <2>4, <2>5, <2>6, <3>2, <4>1
      <4> QED
        BY <2>2, <4>1, <4>2
    <3>3. (\E f \in sync.todo : f # e /\ f.pos = p /\ f.thread = p) \/ p <= e.thread
      <4>1. p <= p
        OBVIOUS
      <4> QED
        BY <2>1, <2>8, <4>1
    <3> QED
      BY <3>1, <3>2, <3>3
  <2> QED
    BY <2>7, <2>8
<1> QED
  BY <1>3, <1>4, <1>5, <1>6, <1>7, <1>8, <1>9, <1>10, <1>11, <1>12, <1>13 DEF CalmInv, Fetching

\* Pages are yielded when all of them have been fetched and read.
LEMMA EmitFetch ==
    ASSUME SyncInv, NEW e \in sync.todo, Turn(e), Yields(e)
    PROVE  FetchInv'
<1> SUFFICES ASSUME kind = "notion_ids" PROVE FetchInv'
  BY DEF FetchInv, Yields
<1>1. Typed /\ LogInv /\ TodoInv /\ FetchInv
  BY DEF SyncInv
<1>2. sync'.todo = sync.todo \ {e}
  BY <1>1, ThreadFacts DEF Yields
<1>3. \A f \in sync.todo : f.pos # 0
  BY <1>1 DEF Turn, FetchInv
<1> QED
  BY <1>2, <1>3 DEF FetchInv, Fetching

LEMMA EmitKeeps ==
    ASSUME Orderly, SyncInv, SettledInv, NEW e \in sync.todo, Emit(e)
    PROVE  SyncInv' /\ SettledInv'
<1>1. Turn(e) /\ Yields(e) /\ Typed' /\ LogInv'
  BY EmitYields
<1>2. SavedInv' /\ FlightInv' /\ TodoInv' /\ FetchInv'
  BY <1>1, EmitSaved, EmitFlight, EmitTodo, EmitFetch
<1>3. GitInv' /\ MapsInv'
  BY <1>1, EmitCursors
<1>4. CalmInv'
  BY <1>1, EmitCalm DEF SettledInv
<1>5. SettledIsDone'
  BY <1>1 DEF SettledIsDone, Yields
<1> QED
  BY <1>1, <1>2, <1>3, <1>4, <1>5 DEF SyncInv, SettledInv

-----------------------------------------------------------------------------
(* The specification.                                                      *)

LEMMA SyncInit ==
    ASSUME Init
    PROVE  SyncInv /\ SettledInv
<1>1. /\ kind \in Kinds /\ log = <<>> /\ open = {} /\ saved = EmptyCursor(kind) /\ sync = Idle(kind)
      /\ target = [i \in Items |-> Gone] /\ settled = FALSE /\ faults = 0
  BY DEF Init
<1>2. /\ sync.pc = "idle" /\ sync.todo = {} /\ Len(log) = 0 /\ log \in Seq(Events)
      /\ sync.next = saved
  BY <1>1 DEF Idle
<1>3. MaxLog \in Nat /\ MaxFaults \in Nat
  BY SourcesAssumption, Zenon
<1>4. 0 \in Positions /\ Gone = 0
  BY <1>3 DEF Positions, Gone
<1>5. Idle(kind) \in Syncs
  BY IdleTyped
<1>6. saved \in Cursors
  BY <1>1, <1>2, <1>5 DEF Syncs
<1>7. Typed
  <2>1. target \in [Items -> Positions] /\ faults \in 0 .. MaxFaults /\ Len(log) <= MaxLog
    BY <1>1, <1>2, <1>3, <1>4
  <2>2. sync \in Syncs /\ open \subseteq 1 .. Len(log) /\ settled \in BOOLEAN
    BY <1>1, <1>5
  <2> QED
    BY <1>1, <1>2, <1>6, <2>1, <2>2 DEF Typed
<1>8. LogInv
  BY <1>1, <1>2 DEF LogInv
<1>9. \A i \in Items : LastOf(log, i) = 0 /\ DataIn(log, i) = Gone /\ ~ Wanted(i)
  <2> SUFFICES ASSUME NEW i \in Items
               PROVE  LastOf(log, i) = 0 /\ DataIn(log, i) = Gone /\ ~ Wanted(i)
    OBVIOUS
  <2>1. LastOf(log, i) = 0
    <3>1. LastOf(log, i) \in 0 .. Len(log)
      BY <1>2, LastOfFacts
    <3> QED
      BY <1>2, <3>1
  <2> QED
    BY <2>1 DEF DataIn, Wanted, Live
<1>10. kind \in Counted => Reach(saved) = 0
  <2>1. CASE kind \in Git
    BY <1>1, <2>1 DEF Reach, EmptyCursor, Git, Maps
  <2>2. CASE kind \in Counted \ Git
    BY <1>1, <2>2 DEF Reach, EmptyCursor, Counted, Git, Maps
  <2> QED
    BY <2>1, <2>2
<1>11. SavedInv
  BY <1>1, <1>2, <1>9, <1>10 DEF SavedInv
<1>12. FlightInv /\ TodoInv /\ FetchInv /\ CalmInv /\ SettledIsDone
  BY <1>1, <1>2 DEF FlightInv, TodoInv, FetchInv, Fetching, CalmInv, SettledIsDone
<1>13. GitInv
  <2>1. kind \in Git => saved = <<>>
    BY <1>1 DEF EmptyCursor, Git, Maps
  <2>2. SubSeq(<<>>, 1, 0) = <<>>
    BY Z3
  <2> QED
    BY <1>1, <1>2, <2>1, <2>2 DEF GitInv
<1>14. MapsInv
  <2>1. kind \in Maps => saved = [i \in Items |-> 0]
    BY <1>1 DEF EmptyCursor, Git, Maps
  <2> QED
    BY <1>1, <1>2, <1>4, <1>9, <2>1 DEF MapsInv
<1> QED
  BY <1>7, <1>8, <1>11, <1>12, <1>13, <1>14 DEF SyncInv, SettledInv

\* Nothing happens, and nothing changes.
LEMMA SyncStutters ==
    ASSUME SyncInv, SettledInv, UNCHANGED vars
    PROVE  SyncInv' /\ SettledInv'
<1>1. /\ kind' = kind /\ log' = log /\ open' = open /\ saved' = saved /\ sync' = sync
      /\ target' = target /\ settled' = settled /\ faults' = faults
  BY DEF vars
<1>2. Typed' /\ LogInv'
  BY <1>1, SameLog DEF SyncInv, Typed, Cursors, Syncs, Commits
<1>3. /\ \A i \in Items : /\ LastOf(log, i)' = LastOf(log, i) /\ DataIn(log, i)' = DataIn(log, i)
                          /\ Stamp(i)' = Stamp(i) /\ (Wanted(i)' <=> Wanted(i))
      /\ Live(log)' = Live(log) /\ \A p : Replies(p)' = Replies(p)
  BY <1>1, SameSource
<1>4. sync.todo \in SUBSET Entries
  BY DEF SyncInv, Typed, Syncs
<1>5. \A e \in sync.todo : e.item \in Items
  BY <1>4 DEF Entries
<1>6. SavedInv' /\ FlightInv' /\ GitInv' /\ MapsInv'
  BY <1>1, <1>3, <1>5 DEF SyncInv, SavedInv, FlightInv, GitInv, MapsInv, Reach, Current, Coming
<1>9. TodoInv'
  BY <1>1, <1>3, <1>5 DEF SyncInv, TodoInv
<1>8. FetchInv'
  BY <1>1, <1>3, <1>5 DEF SyncInv, FetchInv, Fetching, Current, Coming
<1>7. CalmInv' /\ SettledIsDone'
  <2>1. Changed(saved)' = Changed(saved) /\ Left' = Left
    BY <1>1, SameChanged
  <2>2. CalmInv'
    <3> SUFFICES ASSUME settled, sync.pc # "idle" PROVE CalmInv'
      BY <1>1 DEF CalmInv
    <3>1. CalmInv /\ \A i \in Live(log) : i \in Items
      BY DEF SettledInv, Live
    <3> QED
      BY <1>1, <1>3, <1>5, <2>1, <3>1 DEF CalmInv, Fetching
  <2>3. SettledIsDone'
    BY <1>1, <2>1 DEF SettledInv, SettledIsDone, Listing
  <2> QED
    BY <2>2, <2>3
<1> QED
  BY <1>2, <1>6, <1>7, <1>8, <1>9 DEF SyncInv, SettledInv

LEMMA SyncNext ==
    ASSUME Orderly, SyncInv, SettledInv, [Next]_vars
    PROVE  SyncInv' /\ SettledInv'
<1>1. CASE UNCHANGED vars
  BY <1>1, SyncStutters
<1>2. ASSUME NEW i \in Items, NEW c, Change(i, c)
      PROVE  SyncInv' /\ SettledInv'
  BY <1>2, ChangeKeeps
<1>3. ASSUME NEW p \in open, Commit(p)
      PROVE  SyncInv' /\ SettledInv'
  BY <1>3, CommitKeeps
<1>4. ASSUME NEW i \in Items, PostMessage(i)
      PROVE  SyncInv' /\ SettledInv'
  <2>1. Len(log) \in Nat
    BY TypeFacts DEF SyncInv
  <2>2. 0 \in 0 .. Len(log)
    BY <2>1
  <2> QED
    BY <1>4, <2>2, PostedKeeps DEF PostMessage
<1>5. ASSUME NEW i \in Items, NEW r \in 1 .. Len(log), PostReply(i, r)
      PROVE  SyncInv' /\ SettledInv'
  <2>1. r \in 0 .. Len(log)
    OBVIOUS
  <2>2. kind = "slack" /\ Posted(i, r) /\ log[r].parent = 0 /\ r > saved /\ sync.pc = "idle"
    BY <1>5 DEF PostReply, Orderly
  <2> QED
    BY <2>1, <2>2, PostedKeeps
<1>6. ASSUME NEW n \in 1 .. Len(log), Rewrite(n)
      PROVE  SyncInv' /\ SettledInv'
  BY <1>6, RewriteKeeps
<1>7. CASE Start
  BY <1>7, StartKeeps
<1>8. CASE List
  BY <1>8, ListKeeps
<1>9. CASE Finish
  BY <1>9, FinishKeeps
<1>10. ASSUME NEW e \in sync.todo, \/ Stat(e) \/ FetchPage(e) \/ ReadPage(e)
                                  \/ Emit(e) \/ PassOver(e) \/ DownloadFails(e)
       PROVE  SyncInv' /\ SettledInv'
  BY <1>10, StatKeeps, FetchPageKeeps, ReadPageKeeps, EmitKeeps, DropKeeps
<1>11. ASSUME NEW e \in sync.todo, Raise(e)
       PROVE  SyncInv' /\ SettledInv'
  <2>1. /\ sync' = Idle(kind) /\ settled' = FALSE /\ faults' = faults
        /\ UNCHANGED <<kind, log, open, saved, target>>
    BY <1>11 DEF Raise, source
  <2>2. faults' \in 0 .. MaxFaults
    BY <2>1 DEF SyncInv, Typed
  <2> QED
    BY <2>1, <2>2, IdleKeeps
<1>12. CASE Crash
  <2>1. /\ sync' = Idle(kind) /\ settled' = FALSE /\ faults' = faults + 1 /\ faults < MaxFaults
        /\ UNCHANGED <<kind, log, open, saved, target>>
    BY <1>12 DEF Crash, source
  <2>2. faults' \in 0 .. MaxFaults
    <3>1. MaxFaults \in Nat
      BY SourcesAssumption, Zenon
    <3> QED
      BY <2>1, <3>1 DEF SyncInv, Typed
  <2> QED
    BY <2>1, <2>2, IdleKeeps
<1> QED
  BY <1>1, <1>2, <1>3, <1>4, <1>5, <1>6, <1>7, <1>8, <1>9, <1>10, <1>11, <1>12 DEF Next, SyncStep

\* In every reachable state of every kind of source, what the cursors speak
\* for is written or coming, and a calm sync has the rest in hand
\* (iter_changes_since and cursor_from of src/chunkshop/sources).
THEOREM SyncInvariant ==
    ASSUME Orderly
    PROVE  Spec => [](SyncInv /\ SettledInv)
<1>1. Init => SyncInv /\ SettledInv
  BY SyncInit
<1>2. (SyncInv /\ SettledInv) /\ [Next]_vars => (SyncInv /\ SettledInv)'
  BY SyncNext
<1> QED
  BY <1>1, <1>2, PTL DEF Spec

\* The types of the variables, for every kind of source.
THEOREM SyncTypes ==
    ASSUME Orderly
    PROVE  Spec => []TypeOK
<1>1. ASSUME SyncInv PROVE TypeOK
  <2>1. Typed
    BY <1>1 DEF SyncInv
  <2>2. sync \in Syncs /\ sync.todo \in SUBSET Entries
    BY <2>1 DEF Typed, Syncs
  <2>3. sync.pc \in {"idle", "list", "emit"} /\ sync.next \in Cursors /\ sync.at \in Commits
    BY <2>2 DEF Syncs
  <2> QED
    BY <2>1, <2>2, <2>3 DEF Typed, TypeOK, Commits
<1> QED
  BY <1>1, SyncInvariant, PTL

\* Whatever the target does not have as the source has it, the next sync comes
\* across, for every kind of source, any items, and any interleaving of
\* changes, open transactions, posts, failures and crashes with the steps of a
\* sync: a cursor never passes a document that was not written.
THEOREM NothingIsSkipped ==
    ASSUME Orderly
    PROVE  Spec => []StaleIsDue
<1>1. SyncInv => StaleIsDue
  BY StaleFollows DEF SyncInv
<1> QED
  BY <1>1, SyncInvariant, PTL

\* A sync right after a complete one that nothing disturbed has nothing to
\* yield (assert_idempotent_on_re_emit), for every kind of source with a cursor.
THEOREM SettledSyncIsEmpty ==
    ASSUME Orderly
    PROVE  Spec => []SettledIsDone
<1>1. SettledInv => SettledIsDone
  BY DEF SettledInv
<1> QED
  BY <1>1, SyncInvariant, PTL
=============================================================================
