---------------------------- MODULE RemoteSources ----------------------------
(***************************************************************************)
(* Incremental synchronisation of sources that live elsewhere: the table   *)
(* sources and S3 of src/chunkshop/sources, and the connectors for blobs,  *)
(* Drive, Dropbox, Notion, GitHub, GitLab and Slack.  A consumer calls     *)
(* iter_changes_since(cursor), writes each document it yields, merges      *)
(* cursor_from(document) into the next cursor and persists that between    *)
(* calls (IncrementalSource in sources/base.py).                           *)
(*                                                                         *)
(* The source is its history: log[p] says which item got which content,    *)
(* or went, at time p.  What a service answers is a view of the log, taken *)
(* when it is asked; items change between any two requests of a sync.      *)
(***************************************************************************)
EXTENDS Integers, Sequences, FiniteSets, FiniteSetsExt, SequencesExt

CONSTANTS
    Items,
    Unwanted,     \* directory markers, MIME types, extensions and paths that are
                  \* passed over, rows that a table's "where" does not select
    Kinds,        \* the sources of interest
    PerDocument,  \* kinds whose consumer persists the cursor at each document
    Rough,        \* Notion stamps an edit with its minute: Rough edits share one
    Hazards,      \* what else the world may do, see the actions
    MaxLog, MaxFaults

AllKinds == {"rss", "blob", "table", "s3", "drive", "drive_ids", "dropbox",
             "notion", "notion_ids", "github", "gitlab", "slack"}
Git == {"github", "gitlab"}
\* A database, which is queried, and page_ids, which are fetched one by one.
Notion == {"notion", "notion_ids"}
Maps == {"s3", "drive_ids"}
NoCursor == {"rss", "blob"}
\* Kinds that are told which documents to take.
Filtered == {"blob", "table", "drive", "drive_ids", "dropbox"} \cup Git
\* Kinds that read a document's body only when they come to yield it.
Late == {"blob", "s3", "drive", "drive_ids", "dropbox"}
\* Kinds that pass over a document they fail to read, the others raise.
Lenient == {"blob", "drive", "drive_ids", "dropbox", "gitlab"}
Gone == 0
Unread == -1

ASSUME SourcesAssumption ==
    /\ IsFiniteSet(Items) /\ Unwanted \subseteq Items
    /\ Kinds \subseteq AllKinds /\ PerDocument \subseteq Kinds
    /\ Hazards \subseteq {"late commit", "same content", "same minute",
                          "failed download", "rewritten history", "late reply",
                          "edit between fetches"}
    /\ Rough \in Nat \ {0} /\ MaxLog \in Nat /\ MaxFaults \in Nat

VARIABLES
    kind,
    log,        \* the history of the source, for git the head commit
    open,       \* table: positions in log whose transactions are still open
    saved,      \* the cursor the consumer persisted
    sync,       \* the call in progress
    target,     \* target[i]: the content stored for i, Gone if none
    settled,    \* nothing changed since the last complete sync began
    faults

vars == <<kind, log, open, saved, sync, target, settled, faults>>

Positions == 0 .. MaxLog
Events == [item : Items, data : Positions, parent : Positions]
Entries == [item : Items, pos : Positions, thread : Positions,
            data : Positions \cup {Unread}, replies : BOOLEAN]

\* A commit is its history, so a commit of git and its SHA are the same thing.
Cursors ==
    CASE kind \in Maps -> [Items -> Positions]
      [] kind \in Git -> Seq(Events)
      [] OTHER -> Positions
EmptyCursor(k) ==
    CASE k \in Maps -> [i \in Items |-> 0]
      [] k \in Git -> <<>>
      [] OTHER -> 0

TypeOK ==
    /\ kind \in Kinds
    /\ log \in Seq(Events) /\ open \subseteq 1 .. Len(log)
    /\ saved \in Cursors
    /\ sync.pc \in {"idle", "list", "emit"}
    /\ sync.todo \subseteq Entries /\ sync.next \in Cursors
    /\ sync.at \in IF kind \in Git THEN Seq(Events) ELSE Positions
    /\ target \in [Items -> Positions]
    /\ settled \in BOOLEAN /\ faults \in 0 .. MaxFaults

Idle(k) == [pc |-> "idle", at |-> IF k \in Git THEN <<>> ELSE 0,
            todo |-> {}, next |-> EmptyCursor(k)]

Init ==
    /\ kind \in Kinds
    /\ log = <<>> /\ open = {}
    /\ saved = EmptyCursor(kind)
    /\ sync = Idle(kind)
    /\ target = [i \in Items |-> Gone]
    /\ settled = FALSE /\ faults = 0

-----------------------------------------------------------------------------
(* What the source shows.                                                  *)

\* The position at which item i got what history h shows of it now.
LastOf(h, i) ==
    Max({0} \cup {p \in 1 .. Len(h) : h[p].item = i /\ p \notin open})
DataIn(h, i) == IF LastOf(h, i) = 0 THEN Gone ELSE h[LastOf(h, i)].data
Live(h) == {i \in Items : DataIn(h, i) # Gone}

\* last_edited_time.
Minute(p) == (p + Rough - 1) \div Rough

\* The three-dot comparison of a commit with the head: what differs between
\* their merge base and the head.
MergeBase(c) ==
    SubSeq(log, 1, Max({n \in 0 .. Min({Len(c), Len(log)}) :
                          SubSeq(c, 1, n) = SubSeq(log, 1, n)}))
Compared(c) ==
    LET base == MergeBase(c)
    IN {i \in Live(log) : DataIn(base, i) # DataIn(log, i)}

\* Notion's filter on_or_after is inclusive, the connector drops the pages at
\* the cursor.  Faulty variant: it keeps them.
NotionQuery(c) == {i \in Live(log) : Minute(LastOf(log, i)) >= c}
NotionChangedInclusive(c) == NotionQuery(c)
NotionChanged(c) == {i \in NotionQuery(c) : Minute(LastOf(log, i)) > c}

\* Slack: conversations.history after oldest, exclusive, and the replies to a
\* message, which are reached through it.
History(oldest) == {p \in 1 .. Len(log) : log[p].parent = 0 /\ p > oldest}
Replies(p) == {q \in 1 .. Len(log) : log[q].parent = p}

\* What each source lists after cursor c.
TableRows(c) == {i \in Live(log) : LastOf(log, i) > c}
S3Objects(c) == {i \in Live(log) : c[i] # DataIn(log, i)}
DriveFiles == Live(log)
DriveChanges(c) ==
    IF c = 0 THEN DriveFiles ELSE {i \in Live(log) : LastOf(log, i) > c}
DriveSelected(c) == {i \in Live(log) : c[i] # LastOf(log, i)}
DropboxFolder == Live(log)
DropboxChanges(c) ==
    IF c = 0 THEN DropboxFolder ELSE {i \in Live(log) : LastOf(log, i) > c}
NotionPages(c) == IF c = 0 THEN Live(log) ELSE NotionChanged(c)
GithubWalk == Live(log)
GithubChanges(c) == IF c = <<>> THEN GithubWalk ELSE Compared(c)
GitlabTree == Live(log)
GitlabChanges(c) == IF c = <<>> THEN GitlabTree ELSE Compared(c)
SlackMessages(c) == {log[p].item : p \in History(c)}
FeedEntries == Live(log)
Blobs == Live(log)

\* The items a sync from cursor c comes across if it lists them now.
Changed(c) ==
    CASE kind = "rss" -> FeedEntries
      [] kind = "blob" -> Blobs
      [] kind = "table" -> TableRows(c)
      [] kind = "s3" -> S3Objects(c)
      [] kind = "drive_ids" -> DriveSelected(c)
      [] kind = "drive" -> DriveChanges(c)
      [] kind = "dropbox" -> DropboxChanges(c)
      [] kind \in Notion -> NotionPages(c)
      [] kind = "github" -> GithubChanges(c)
      [] kind = "gitlab" -> GitlabChanges(c)
      [] kind = "slack" -> SlackMessages(c)

Due(c) ==
    Changed(c) \cup {log[p].item : p \in
        {q \in 1 .. Len(log) : kind = "slack" /\ log[q].parent \in History(c)}}

\* The entry a listing has for i; content comes with it in a table's SELECT,
\* a feed and a message, an ETag in S3's listing.  thread orders messages.
EntryOf(i) ==
    LET p == LastOf(log, i)
    IN [item |-> i, pos |-> p, thread |-> p,
        data |-> IF kind \in {"rss", "table", "s3", "slack"} \cup Git
                 THEN DataIn(log, i) ELSE Unread,
        replies |-> kind = "slack" /\ Replies(p) # {}]
\* "where" is in the query of iter_documents, not in that of iter_changes_since.
Left == IF kind = "table" THEN {} ELSE Unwanted
Listing(c) == {EntryOf(i) : i \in Changed(c) \ Left}

-----------------------------------------------------------------------------
(* The world.                                                              *)

source == <<log, open>>
consumer == <<saved, sync, target, faults>>

\* Fresh content at every change, unless contents may recur.
Contents(i) ==
    {Len(log) + 1} \cup
    {log[p].data : p \in {q \in 1 .. Len(log) :
        "same content" \in Hazards /\ log[q].item = i}}

\* page_ids: the page's request has yet to be made, or some page's has.
Awaited(i) ==
    kind = "notion_ids" /\ {e.pos : e \in {f \in sync.todo : f.item = i}} = {0}
Fetching == kind = "notion_ids" /\ \E e \in sync.todo : e.pos = 0

\* An item is created, edited or deleted.  A table's row changes when its
\* transaction commits, under the time the statement ran; a row has one
\* writer at a time.  A further edit in a minute that a Notion sync has
\* already handed out is a hazard; so is, with page_ids, one of a page that was
\* fetched while others are still to be.
Change(i, c) ==
    /\ kind # "slack"
    /\ i \in Unwanted => kind \in Filtered
    /\ Len(log) < MaxLog
    /\ c \in Contents(i) \/ (c = Gone /\ i \in Live(log))
    /\ \A p \in open : log[p].item # i
    /\ c # DataIn(log, i)
    /\ kind \in Notion /\ "same minute" \notin Hazards =>
          Minute(Len(log) + 1) > Max({saved, IF Awaited(i) THEN 0 ELSE sync.at})
    /\ Fetching /\ "edit between fetches" \notin Hazards => Awaited(i)
    /\ log' = Append(log, [item |-> i, data |-> c, parent |-> 0])
    /\ open' \in {open} \cup
          (IF kind = "table" THEN {open \cup {Len(log) + 1}} ELSE {})
    /\ settled' = FALSE
    /\ UNCHANGED <<kind, consumer>>

Commit(p) ==
    /\ p \in open
    /\ open' = open \ {p}
    /\ settled' = FALSE
    /\ UNCHANGED <<kind, log, consumer>>

\* Slack messages are posted once.
Posted(i, r) ==
    /\ Len(log) < MaxLog
    /\ i \notin Live(log) \cup Unwanted
    /\ log' = Append(log, [item |-> i, data |-> Len(log) + 1, parent |-> r])
    /\ settled' = FALSE
    /\ UNCHANGED <<kind, open, consumer>>

PostMessage(i) == kind = "slack" /\ Posted(i, 0)

\* A reply to the message at r.  Replies to messages that a sync has passed, or
\* that arrive during one, are a hazard.
PostReply(i, r) ==
    /\ kind = "slack" /\ log[r].parent = 0
    /\ "late reply" \in Hazards \/ (r > saved /\ sync.pc = "idle")
    /\ Posted(i, r)

\* The branch is reset to an earlier commit; that it happens after a sync is a
\* hazard.  Resets are counted with the faults.
Rewrite(n) ==
    /\ kind \in Git
    /\ n \in 1 .. Len(log) - 1
    /\ \/ "rewritten history" \in Hazards
       \/ saved = <<>> /\ sync.pc = "idle"
    /\ faults < MaxFaults
    /\ faults' = faults + 1
    /\ log' = SubSeq(log, 1, n)
    /\ settled' = FALSE
    /\ UNCHANGED <<kind, open, saved, sync, target>>

-----------------------------------------------------------------------------
(* A sync.                                                                 *)

\* Faulty variant of Mark: the token of the next change, which is then skipped.
MarkNext == Len(log) + 1

\* The token a sync will hand out: startPageToken, newStartPageToken, the
\* cursor of list_folder.
Mark == Len(log)

\* Notion reads all pages first and hands out the latest edit of all it saw.
LatestEdit(es) == Max({saved} \cup {Minute(e.pos) : e \in es})

\* Drive's first sync and GitLab's full walk fix the token or the commit in
\* one request and list in a later one.
ListsLater == (kind = "drive" /\ saved = 0) \/ (kind = "gitlab" /\ saved = <<>>)

\* The files and pages that the configuration names, none asked for as yet.
\* Of pages these are ones that exist: a page that does not fails every sync.
Named == {[EntryOf(i) EXCEPT !.pos = 0] :
             i \in (IF kind = "notion_ids" THEN Live(log) ELSE Items) \ Unwanted}

\* iter_changes_since up to its first document.  A table that is read while
\* transactions are open is a hazard.
Start ==
    /\ sync.pc = "idle"
    /\ kind \in Git => log # <<>>
    /\ open = {} \/ "late commit" \in Hazards
    /\ LET found == IF kind \in {"drive_ids", "notion_ids"} THEN Named
                    ELSE Listing(saved)
       IN sync' = [pc |-> IF ListsLater THEN "list" ELSE "emit",
                   at |-> CASE kind \in Git -> log
                            [] kind = "notion" -> LatestEdit(found)
                            [] kind = "notion_ids" -> saved
                            [] OTHER -> Mark,
                   todo |-> IF ListsLater THEN {} ELSE found,
                   next |-> saved]
    /\ settled' = TRUE
    /\ UNCHANGED <<kind, source, saved, target, faults>>

\* files.list, or the repository tree of the branch, wherever it is by now.
List ==
    /\ sync.pc = "list"
    /\ sync' = [sync EXCEPT !.pc = "emit", !.todo = Listing(saved)]
    /\ UNCHANGED <<kind, source, saved, target, settled, faults>>

\* Drive, file_ids: one file's modifiedTime, compared with the cursor's.
Stat(e) ==
    /\ kind = "drive_ids"
    /\ sync.pc = "emit" /\ e \in sync.todo /\ e.pos = 0
    /\ LET p == LastOf(log, e.item)
           skip == e.item \notin Live(log) \/ saved[e.item] = p
       IN sync' = [sync EXCEPT !.todo =
             (@ \ {e}) \cup (IF skip THEN {} ELSE {[e EXCEPT !.pos = p]})]
    /\ UNCHANGED <<kind, source, saved, target, settled, faults>>

\* Notion, page_ids: one page's last_edited_time, once the page before it has
\* been read.  The next cursor is the latest edit of those that are not skipped.
FetchPage(e) ==
    /\ kind = "notion_ids"
    /\ sync.pc = "emit" /\ e \in sync.todo /\ e.pos = 0
    /\ e.item \in Live(log)
    /\ \A f \in sync.todo : f.pos = 0 \/ f.data # Unread
    /\ LET p == LastOf(log, e.item)
           skip == Minute(p) <= saved
       IN sync' = [sync EXCEPT
             !.todo = (@ \ {e}) \cup (IF skip THEN {} ELSE {[e EXCEPT !.pos = p]}),
             !.at = IF skip THEN @ ELSE Max({@, Minute(p)})]
    /\ UNCHANGED <<kind, source, saved, target, settled, faults>>

\* Notion: the blocks of one page.
ReadPage(e) ==
    /\ kind \in Notion
    /\ sync.pc = "emit" /\ e \in sync.todo /\ e.pos # 0 /\ e.data = Unread
    /\ e.item \in Live(log)
    /\ sync' = [sync EXCEPT !.todo =
          (@ \ {e}) \cup {[e EXCEPT !.data = DataIn(log, e.item)]}]
    /\ UNCHANGED <<kind, source, saved, target, settled, faults>>

\* It is the turn of e: tables and Slack are sorted, and Notion yields
\* nothing before it has read everything.
Turn(e) ==
    /\ sync.pc = "emit" /\ e \in sync.todo
    /\ kind \in {"table", "slack"} =>
          \A f \in sync.todo : \/ e.thread < f.thread
                               \/ e.thread = f.thread /\ e.pos <= f.pos
    /\ kind \in Notion => \A f \in sync.todo : f.data # Unread
    /\ kind = "drive_ids" => e.pos # 0

\* The body of the document: read with the listing, at the commit, or now.
TableBody(e) == e.data
S3Body(e) == DataIn(log, e.item)
BlobBody(e) == DataIn(log, e.item)
DriveBody(e) == DataIn(log, e.item)
DropboxBody(e) == DataIn(log, e.item)
GithubBody(e) == DataIn(sync.at, e.item)
GitlabBody(e) == DataIn(sync.at, e.item)
MessageBody(e) == e.data
FeedBody(e) == e.data
PageBody(e) == e.data
Body(e) ==
    CASE kind = "table" -> TableBody(e)
      [] kind = "s3" -> S3Body(e)
      [] kind = "blob" -> BlobBody(e)
      [] kind \in {"drive", "drive_ids"} -> DriveBody(e)
      [] kind = "dropbox" -> DropboxBody(e)
      [] kind = "github" -> GithubBody(e)
      [] kind = "gitlab" -> GitlabBody(e)
      [] kind = "slack" -> MessageBody(e)
      [] kind = "rss" -> FeedBody(e)
      [] kind \in Notion -> PageBody(e)

\* cursor_from: what a document says of the cursor.  Faulty variant of
\* TableCursor: the time of the write, not of the row's change.
TableCursorNow(e) == Mark
TableCursor(e) == e.pos
S3Cursor(e) == [sync.next EXCEPT ![e.item] = e.data]
DriveCursor(e) ==
    IF kind = "drive_ids" THEN [sync.next EXCEPT ![e.item] = e.pos] ELSE sync.at
SlackCursor(e) == e.pos
Merged(e) ==
    CASE kind = "table" -> TableCursor(e)
      [] kind = "s3" -> S3Cursor(e)
      [] kind \in {"drive", "drive_ids"} -> DriveCursor(e)
      [] kind = "slack" -> SlackCursor(e)
      [] kind \in NoCursor -> sync.next
      [] OTHER -> sync.at

\* Slack: conversations.replies, asked when the parent has been yielded.
Thread(e) ==
    IF ~e.replies THEN {}
    ELSE {[item |-> log[q].item, pos |-> q, thread |-> e.pos,
           data |-> log[q].data, replies |-> FALSE] : q \in Replies(e.pos)}

\* The source yields a document, the consumer writes it.
Emit(e) ==
    /\ Turn(e)
    /\ Body(e) # Gone
    /\ target' = [target EXCEPT ![e.item] = Body(e)]
    /\ sync' = [sync EXCEPT !.todo = (@ \ {e}) \cup Thread(e), !.next = Merged(e)]
    /\ saved' = IF kind \in PerDocument THEN Merged(e) ELSE saved
    /\ UNCHANGED <<kind, source, settled, faults>>

\* A file that is no longer there is passed over.
PassOver(e) ==
    /\ Turn(e)
    /\ kind \in Lenient /\ Body(e) = Gone
    /\ sync' = [sync EXCEPT !.todo = @ \ {e}]
    /\ UNCHANGED <<kind, source, saved, target, settled, faults>>

\* So is one that cannot be downloaded at present, which matters where the
\* other documents' cursor speaks for it.
DownloadFails(e) ==
    /\ Turn(e)
    /\ kind \in Lenient \ {"gitlab"}
    /\ kind \in {"drive", "dropbox"} => "failed download" \in Hazards
    /\ Body(e) # Gone
    /\ faults < MaxFaults
    /\ faults' = faults + 1
    /\ sync' = [sync EXCEPT !.todo = @ \ {e}]
    /\ settled' = FALSE
    /\ UNCHANGED <<kind, source, saved, target>>

\* An object or page that went after it was listed ends the sync.
Raise(e) ==
    /\ kind \in {"s3"} \cup Notion
    /\ sync.pc = "emit" /\ e \in sync.todo
    /\ e.item \notin Live(log)
    /\ kind \in Notion => e.data = Unread
    /\ sync' = Idle(kind)
    /\ settled' = FALSE
    /\ UNCHANGED <<kind, source, saved, target, faults>>

\* Any other exception, or the process goes: the running cursor is lost.
Crash ==
    /\ sync.pc # "idle"
    /\ faults < MaxFaults
    /\ faults' = faults + 1
    /\ sync' = Idle(kind)
    /\ settled' = FALSE
    /\ UNCHANGED <<kind, source, saved, target>>

Finish ==
    /\ sync.pc = "emit" /\ sync.todo = {}
    /\ saved' = sync.next
    /\ sync' = Idle(kind)
    /\ UNCHANGED <<kind, source, target, settled, faults>>

SyncStep ==
    \/ Start \/ List \/ Finish
    \/ \E e \in sync.todo : \/ Stat(e) \/ FetchPage(e) \/ ReadPage(e)
                            \/ Emit(e) \/ PassOver(e) \/ Raise(e)

Next ==
    \/ \E i \in Items : \E c \in {Gone} \cup Contents(i) : Change(i, c)
    \/ \E p \in open : Commit(p)
    \/ \E i \in Items : PostMessage(i)
    \/ \E i \in Items : \E r \in 1 .. Len(log) : PostReply(i, r)
    \/ \E n \in 1 .. Len(log) : Rewrite(n)
    \/ SyncStep
    \/ \E e \in sync.todo : DownloadFails(e)
    \/ Crash

\* The consumer keeps calling, and a transaction ends some day.
Spec == Init /\ [][Next]_vars /\ WF_vars(SyncStep)
             /\ WF_vars(\E p \in open : Commit(p))

-----------------------------------------------------------------------------
Current(i) == target[i] = DataIn(log, i)

\* Whatever the target does not have as the source has it, the next sync will
\* come across: the persisted cursor never speaks for a document that was not
\* written, whichever steps of a sync the changes and crashes fell between.
StaleIsDue ==
    \A i \in Live(log) \ Unwanted : Current(i) \/ i \in Due(saved)

\* assert_idempotent_on_re_emit: a sync right after a complete one that saw no
\* change has nothing to yield.
SettledIsDone ==
    settled /\ sync.pc = "idle" /\ kind \notin NoCursor =>
        Listing(saved) = {}

\* A table source takes the rows that "where" selects (docs/AGENT_REFERENCE.md:119),
\* which a sync by cursor does not ask for.
WhereSelects == kind = "table" => \A i \in Unwanted : target[i] = Gone

\* Once the source stops changing, everything in it reaches the target.
EventuallyCurrent == <>[](\A i \in Live(log) \ Unwanted : Current(i))

=============================================================================
