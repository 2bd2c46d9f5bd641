----------------------------- MODULE BatchMonitor -----------------------------
(***************************************************************************)
(* The cron batch of batch/src/batch.py: every run lists the new posts of  *)
(* the photo board and of the notice board, announces them on KakaoTalk    *)
(* and records the outcome in the posts table.  Where a run continues from *)
(* is MAX(post_id) of that table, or last_seen.json when the database is   *)
(* unreachable (crawler/post_tracker.py).                                  *)
(*                                                                         *)
(* One element of Runs is one operating-system process started by cron.    *)
(* Nothing in the code keeps two of them from overlapping.                 *)
(***************************************************************************)
EXTENDS Integers, FiniteSets

CONSTANTS
  Runs,           \* slots for batch processes; a slot is reused run after run
  MaxPost,        \* bound: highest article number either board ever shows
  PageSize,       \* articles on the first page of a board, all a run looks at
  MaxParts,       \* bound: messages one announcement is cut into
  NoticeParts,    \* messages each notice takes (kakao.py sends 1 or more)
  MaxAttempts,    \* _NOTICE_MAX_RETRIES + 1
  MaxSaveTries,   \* _NOTICE_DB_SAVE_MAX_RETRIES + 1
  DbAvailable,    \* batch.py _DB_AVAILABLE: pymysql could be imported
  Baseline,       \* article number already handled when the model starts, 0: none
  FileInit,       \* what last_seen.json says then, 0: no entry
  Poison,         \* photo posts whose processing raises every time
  FaultKinds,     \* the failures that may occur
  MaxFaults,      \* bound: how many of them
  SentCap         \* bound: deliveries of one message are counted up to here

Photo  == "menus/13"
Notice == "menus/6"
Boards == {Photo, Notice}
Ids    == 1..MaxPost
Cursor == 0..MaxPost      \* an article number, or 0 for "none yet"

AllFaults == {"dbDown", "load", "cookies", "list", "send", "save",
              "fileOpen", "fileWrite", "crash"}

ASSUME BoundsAssumption ==
  /\ MaxPost \in Nat /\ PageSize \in Nat \ {0} /\ MaxFaults \in Nat
  /\ MaxParts \in Nat \ {0} /\ SentCap \in Nat \ {0}
  /\ MaxAttempts \in Nat \ {0} /\ MaxSaveTries \in Nat \ {0}
ASSUME ConfigAssumption ==
  /\ DbAvailable \in BOOLEAN /\ FaultKinds \subseteq AllFaults
  /\ NoticeParts \in [Ids -> 1..MaxParts]
  /\ Baseline \in [Boards -> Cursor] /\ FileInit \in [Boards -> Cursor]
  /\ \A b \in Boards : FileInit[b] <= Baseline[b]
  /\ Poison \subseteq Ids

VARIABLES
  newest,    \* newest[b]: highest article number published on board b
  posts,     \* posts[b][p]: status column of the row, "none" without a row
  file,      \* last_seen.json; no file, no key and unreadable text all load as 0
  sent,      \* sent[<<b, p, k>>]: times part k of post p reached KakaoTalk
  gaveUp,    \* notices some run gave up on after its last attempt
  faults,    \* failures so far
  pc, mode, lastSeen, articles, maxId, attempt, part, saveTry, outcome
             \* the locals of each run

world == <<newest, faults>>
store == <<posts, file>>
local == <<mode, lastSeen, articles, maxId, attempt, part, saveTry, outcome>>
vars  == <<newest, posts, file, sent, gaveUp, faults, pc, mode, lastSeen,
           articles, maxId, attempt, part, saveTry, outcome>>

Messages == Boards \X Ids \X (1..MaxParts)
Parts(b, p) == IF b = Photo THEN 1 ELSE NoticeParts[p]
NoCursor == [b \in Boards |-> 0]

-----------------------------------------------------------------------------
(* What a run reads *)

\* The article links of the first page.
Page(b) == {p \in Ids : newest[b] - PageSize < p /\ p <= newest[b]}

Recorded(b) == {p \in Ids : posts[b][p] # "none"}

\* SELECT MAX(post_id) of one board; rows of either status count.
IsMaxRow(b, m) == /\ \A p \in Recorded(b) : p <= m
                  /\ m # 0 => m \in Recorded(b)
                  /\ m = 0 => Recorded(b) = {}

\* The articles after last_seen; on the first run of a board only the newest.
FreshAndLast(r, b) == {p \in Page(b) : p >= lastSeen[r][b]}
Fresh(r, b) == {p \in Page(b) : p > lastSeen[r][b]}
NewestOnly(r, b) == {p \in Fresh(r, b) : \A q \in Fresh(r, b) : q <= p}
ToProcess(r, b) == IF lastSeen[r][b] = 0 THEN NewestOnly(r, b) ELSE Fresh(r, b)

\* articles is sorted, so the loop takes the lowest article left.
HighestFirst(r, p) == p \in articles[r] /\ \A q \in articles[r] : q <= p
Current(r, p) == p \in articles[r] /\ \A q \in articles[r] : p <= q

\* The announcement has no further part to send.
AfterFirstPart(r, b, p) == part[r] >= 1
LastPart(r, b, p) == part[r] = Parts(b, p)

\* Attempts left for an article that raised.
OneTooMany(r) == attempt[r] <= MaxAttempts
MayRetry(r) == attempt[r] < MaxAttempts

\* Every part of the announcement reached KakaoTalk at least once.
Delivered(b, p) == \A k \in 1..Parts(b, p) : sent[<<b, p, k>>] > 0

-----------------------------------------------------------------------------
(* Pieces of the actions *)

Goto(r, label) == pc' = [pc EXCEPT ![r] = label]

Fault(kind) == kind \in FaultKinds /\ faults < MaxFaults /\ faults' = faults + 1

Deliver(b, p, k) ==
  sent' = [sent EXCEPT ![<<b, p, k>>] = IF @ < SentCap THEN @ + 1 ELSE @]

\* A failing call may still have reached the server it was made to.
MayDeliver(b, p, k) == Deliver(b, p, k) \/ UNCHANGED sent

Upsert(b, p, status) == posts' = [posts EXCEPT ![b][p] = status]

\* `if repo:` -- there is a repository only when this run has a connection.
RecordNotices(r, b, p, status) ==
  IF b = Notice THEN Upsert(b, p, status) ELSE UNCHANGED posts
RecordAlways(r, b, p, status) == Upsert(b, p, status)
Record(r, b, p, status) ==
  IF mode[r] = "db" THEN Upsert(b, p, status) ELSE UNCHANGED posts

\* repo.save raises: connection lost before the commit, or only its answer was.
UpsertRaises(b, p, status) ==
  Fault("save") /\ (Upsert(b, p, status) \/ UNCHANGED posts)

\* The process ends; its locals are gone.
Exit(r) ==
  /\ Goto(r, "idle")
  /\ mode'     = [mode EXCEPT ![r] = "none"]
  /\ lastSeen' = [lastSeen EXCEPT ![r] = NoCursor]
  /\ articles' = [articles EXCEPT ![r] = {}]
  /\ maxId'    = [maxId EXCEPT ![r] = 0]
  /\ attempt'  = [attempt EXCEPT ![r] = 1]
  /\ part'     = [part EXCEPT ![r] = 1]
  /\ saveTry'  = [saveTry EXCEPT ![r] = 1]
  /\ outcome'  = [outcome EXCEPT ![r] = "SUCCESS"]

\* One article done: on to the next, or write max_id back and leave the loop.
NextArticle(r, b, p, loop, after) ==
  /\ articles' = [articles EXCEPT ![r] = @ \ {p}]
  /\ maxId'    = [maxId EXCEPT ![r] = IF p > @ THEN p ELSE @]
  /\ attempt'  = [attempt EXCEPT ![r] = 1]
  /\ part'     = [part EXCEPT ![r] = 1]
  /\ saveTry'  = [saveTry EXCEPT ![r] = 1]
  /\ outcome'  = [outcome EXCEPT ![r] = "SUCCESS"]
  /\ IF articles[r] = {p}
       THEN Goto(r, after) /\ lastSeen' = [lastSeen EXCEPT ![r][b] = maxId'[r]]
       ELSE Goto(r, loop) /\ UNCHANGED lastSeen
  /\ UNCHANGED mode

\* An exception escapes a board: the rest of run() is skipped up to its finally.
Escape(r) == /\ Goto(r, "finally")
             /\ articles' = [articles EXCEPT ![r] = {}]
             /\ UNCHANGED <<mode, lastSeen, maxId, attempt, part, saveTry, outcome>>

-----------------------------------------------------------------------------
Init ==
  /\ newest = Baseline
  /\ posts = [b \in Boards |-> [p \in Ids |->
                IF DbAvailable /\ p = Baseline[b] THEN "SUCCESS" ELSE "none"]]
  /\ file = FileInit
  /\ sent = [m \in Messages |-> IF m[2] <= Baseline[m[1]] THEN 1 ELSE 0]
  /\ gaveUp = {}
  /\ faults = 0
  /\ pc       = [r \in Runs |-> "idle"]
  /\ mode     = [r \in Runs |-> "none"]
  /\ lastSeen = [r \in Runs |-> NoCursor]
  /\ articles = [r \in Runs |-> {}]
  /\ maxId    = [r \in Runs |-> 0]
  /\ attempt  = [r \in Runs |-> 1]
  /\ part     = [r \in Runs |-> 1]
  /\ saveTry  = [r \in Runs |-> 1]
  /\ outcome  = [r \in Runs |-> "SUCCESS"]

\* A member of the cafe writes a post.
Publish(b) ==
  /\ newest[b] < MaxPost
  /\ newest' = [newest EXCEPT ![b] = @ + 1]
  /\ UNCHANGED <<store, sent, gaveUp, faults, pc, local>>

\* cron starts a run; without pymysql there is only the file.
Connect(r) ==
  /\ pc[r] = "idle"
  /\ Goto(r, "load")
  /\ mode' = [mode EXCEPT ![r] = IF DbAvailable THEN "db" ELSE "file"]
  /\ UNCHANGED <<world, store, sent, gaveUp, lastSeen, articles, maxId,
                 attempt, part, saveTry, outcome>>

\* get_connection raises: this run falls back to the file.
ConnectFails(r) ==
  /\ pc[r] = "idle"
  /\ DbAvailable
  /\ Fault("dbDown")
  /\ Goto(r, "load")
  /\ mode' = [mode EXCEPT ![r] = "file"]
  /\ UNCHANGED <<newest, store, sent, gaveUp, lastSeen, articles, maxId,
                 attempt, part, saveTry, outcome>>

Load(r) ==
  /\ pc[r] = "load"
  /\ \E seen \in [Boards -> Cursor] :
       /\ IF mode[r] = "db" THEN \A b \in Boards : IsMaxRow(b, seen[b])
                            ELSE seen = file
       /\ lastSeen' = [lastSeen EXCEPT ![r] = seen]
  /\ Goto(r, "listPhoto")
  /\ UNCHANGED <<world, store, sent, gaveUp, mode, articles, maxId,
                 attempt, part, saveTry, outcome>>

\* The SELECT raises, or there is no cookie file and run() calls sys.exit(1):
\* both before the try whose finally saves.
AbortBeforeWork(r) ==
  /\ pc[r] = "load"
  /\ \/ mode[r] = "db" /\ Fault("load")
     \/ Fault("cookies")
  /\ Exit(r)
  /\ UNCHANGED <<newest, store, sent, gaveUp>>

\* _fetch_new_articles, and what the board does with the list it returns.
List(r, b, here, loop, none) ==
  /\ pc[r] = here
  /\ IF Fresh(r, b) = {}
       THEN Goto(r, none) /\ UNCHANGED <<articles, maxId>>
       ELSE /\ Goto(r, loop)
            /\ articles' = [articles EXCEPT ![r] = ToProcess(r, b)]
            /\ maxId' = [maxId EXCEPT ![r] = lastSeen[r][b]]
  /\ UNCHANGED <<world, store, sent, gaveUp, mode, lastSeen, attempt, part,
                 saveTry, outcome>>

PhotosOrNothing(r) == List(r, Photo, "listPhoto", "sendPhoto", "finally")
ListPhotos(r)  == List(r, Photo, "listPhoto", "sendPhoto", "listNotice")
ListNotices(r) == List(r, Notice, "listNotice", "sendNotice", "finally")

ListRaises(r) ==
  /\ pc[r] \in {"listPhoto", "listNotice"}
  /\ Fault("list")
  /\ Escape(r)
  /\ UNCHANGED <<newest, store, sent, gaveUp>>

-----------------------------------------------------------------------------
(* Photo board: one message per post, no retry, a failed save is ignored *)

SendPhoto(r) ==
  /\ pc[r] = "sendPhoto"
  /\ \E p \in articles[r] \ Poison : Current(r, p) /\ Deliver(Photo, p, 1)
  /\ Goto(r, "savePhoto")
  /\ UNCHANGED <<world, store, gaveUp, local>>

\* The page or the text of this very post makes every attempt raise.
SendPoisonedPhoto(r) ==
  /\ pc[r] = "sendPhoto"
  /\ \E p \in Poison : Current(r, p)
  /\ Escape(r)
  /\ UNCHANGED <<world, store, sent, gaveUp>>

LogAndGoOn(r) ==
  /\ pc[r] = "sendPhoto"
  /\ Fault("send")
  /\ \E p \in articles[r] : Current(r, p) /\ MayDeliver(Photo, p, 1)
  /\ Goto(r, "savePhoto")
  /\ UNCHANGED <<newest, store, gaveUp, local>>

\* _fetch_post_detail, summarize_short or send_text raises.
SendPhotoRaises(r) ==
  /\ pc[r] = "sendPhoto"
  /\ Fault("send")
  /\ \E p \in articles[r] : Current(r, p) /\ MayDeliver(Photo, p, 1)
  /\ Escape(r)
  /\ UNCHANGED <<newest, store, gaveUp>>

SavePhoto(r) ==
  /\ pc[r] = "savePhoto"
  /\ \E p \in articles[r] :
       /\ Current(r, p)
       /\ Record(r, Photo, p, "SUCCESS")
       /\ NextArticle(r, Photo, p, "sendPhoto", "listNotice")
  /\ UNCHANGED <<world, file, sent, gaveUp>>

SavePhotoRaises(r) ==
  /\ pc[r] = "savePhoto"
  /\ mode[r] = "db"
  /\ \E p \in articles[r] :
       /\ Current(r, p)
       /\ UpsertRaises(Photo, p, "SUCCESS")
       /\ NextArticle(r, Photo, p, "sendPhoto", "listNotice")
  /\ UNCHANGED <<newest, file, sent, gaveUp>>

-----------------------------------------------------------------------------
(* Notice board: parts sent in order, the whole article retried on an     *)
(* exception, the save retried on its own, the loop left when it fails    *)

SendNotice(r) ==
  /\ pc[r] = "sendNotice"
  /\ \E p \in articles[r] :
       /\ Current(r, p)
       /\ Deliver(Notice, p, part[r])
       /\ IF LastPart(r, Notice, p)
            THEN Goto(r, "saveNotice") /\ UNCHANGED part
            ELSE part' = [part EXCEPT ![r] = @ + 1] /\ UNCHANGED pc
  /\ UNCHANGED <<world, store, gaveUp, mode, lastSeen, articles, maxId,
                 attempt, saveTry, outcome>>

\* Some stage of _process_notice_article_once raises: try the article again
\* from its first part, or record FAIL after the last attempt.
NoticeAttemptRaises(r) ==
  /\ pc[r] = "sendNotice"
  /\ Fault("send")
  /\ \E p \in articles[r] :
       /\ Current(r, p)
       /\ MayDeliver(Notice, p, part[r])
       /\ part' = [part EXCEPT ![r] = 1]
       /\ IF MayRetry(r)
            THEN /\ attempt' = [attempt EXCEPT ![r] = @ + 1]
                 /\ UNCHANGED <<gaveUp, pc, outcome>>
            ELSE /\ gaveUp' = gaveUp \cup {p}
                 /\ Goto(r, "saveNotice")
                 /\ outcome' = [outcome EXCEPT ![r] = "FAIL"]
                 /\ UNCHANGED attempt
  /\ UNCHANGED <<newest, store, mode, lastSeen, articles, maxId, saveTry>>

\* Without a repository the save returns at once and counts as done.
SaveNotice(r) ==
  /\ pc[r] = "saveNotice"
  /\ \E p \in articles[r] :
       /\ Current(r, p)
       /\ Record(r, Notice, p, outcome[r])
       /\ NextArticle(r, Notice, p, "sendNotice", "finally")
  /\ UNCHANGED <<world, file, sent, gaveUp>>

SaveFailureIsAnAttempt(r) ==
  /\ pc[r] = "saveNotice"
  /\ mode[r] = "db"
  /\ \E p \in articles[r] : Current(r, p) /\ UpsertRaises(Notice, p, outcome[r])
  /\ MayRetry(r)
  /\ attempt' = [attempt EXCEPT ![r] = @ + 1]
  /\ part' = [part EXCEPT ![r] = 1]
  /\ Goto(r, "sendNotice")
  /\ UNCHANGED <<newest, file, sent, gaveUp, mode, lastSeen, articles, maxId,
                 saveTry, outcome>>

\* The last failure breaks the loop before max_id reaches this article.
SaveNoticeRaises(r) ==
  /\ pc[r] = "saveNotice"
  /\ mode[r] = "db"
  /\ \E p \in articles[r] : Current(r, p) /\ UpsertRaises(Notice, p, outcome[r])
  /\ IF saveTry[r] < MaxSaveTries
       THEN /\ saveTry' = [saveTry EXCEPT ![r] = @ + 1]
            /\ UNCHANGED <<pc, lastSeen, articles>>
       ELSE /\ Goto(r, "finally")
            /\ lastSeen' = [lastSeen EXCEPT ![r][Notice] = maxId[r]]
            /\ articles' = [articles EXCEPT ![r] = {}]
            /\ UNCHANGED saveTry
  /\ UNCHANGED <<newest, file, sent, gaveUp, mode, maxId, attempt, part, outcome>>

-----------------------------------------------------------------------------
(* finally: DbStore.save does nothing; JsonFileStore.save opens the file,  *)
(* which empties it, and then writes the whole text                        *)

FinishDb(r) ==
  /\ pc[r] = "finally"
  /\ mode[r] = "db"
  /\ Exit(r)
  /\ UNCHANGED <<world, store, sent, gaveUp>>

OpenFile(r) ==
  /\ pc[r] = "finally"
  /\ mode[r] = "file"
  /\ file' = NoCursor
  /\ Goto(r, "writeFile")
  /\ UNCHANGED <<world, posts, sent, gaveUp, local>>

WriteFile(r) ==
  /\ pc[r] = "writeFile"
  /\ file' = lastSeen[r]
  /\ Exit(r)
  /\ UNCHANGED <<world, posts, sent, gaveUp>>

\* OSError is logged and the run ends: the file keeps its text if the open
\* failed, and stays unreadable if the write did.
SaveFileFails(r) ==
  /\ \/ pc[r] = "finally" /\ mode[r] = "file" /\ Fault("fileOpen")
     \/ pc[r] = "writeFile" /\ Fault("fileWrite")
  /\ Exit(r)
  /\ UNCHANGED <<newest, store, sent, gaveUp>>

\* The process is killed or the machine goes down.
Crash(r) ==
  /\ pc[r] # "idle"
  /\ Fault("crash")
  /\ Exit(r)
  /\ UNCHANGED <<newest, store, sent, gaveUp>>

-----------------------------------------------------------------------------
\* What a run does when nothing fails.
Progress(r) == \/ Connect(r) \/ Load(r)
               \/ ListPhotos(r) \/ SendPhoto(r) \/ SendPoisonedPhoto(r) \/ SavePhoto(r)
               \/ ListNotices(r) \/ SendNotice(r) \/ SaveNotice(r)
               \/ FinishDb(r) \/ OpenFile(r) \/ WriteFile(r)

Failure(r) == \/ ConnectFails(r) \/ AbortBeforeWork(r) \/ ListRaises(r)
              \/ SendPhotoRaises(r) \/ SavePhotoRaises(r)
              \/ NoticeAttemptRaises(r) \/ SaveNoticeRaises(r)
              \/ SaveFileFails(r) \/ Crash(r)

Next == \/ \E b \in Boards : Publish(b)
        \/ \E r \in Runs : Progress(r) \/ Failure(r)

Spec == Init /\ [][Next]_vars

\* cron fires every half hour and a started process keeps running; nothing
\* obliges a failure to happen, or anyone to write a post.
FairSpec == Spec /\ \A r \in Runs : WF_vars(Progress(r))

-----------------------------------------------------------------------------
(* Properties *)

Labels == {"idle", "load", "listPhoto", "sendPhoto", "savePhoto", "listNotice",
           "sendNotice", "saveNotice", "finally", "writeFile"}

\* Every variable stays in its range; attempts and save tries never exceed
\* their bounds.
SharedTypeOK ==
  /\ newest \in [Boards -> Cursor]
  /\ posts \in [Boards -> [Ids -> {"none", "SUCCESS", "FAIL"}]]
  /\ file \in [Boards -> Cursor]
  /\ sent \in [Messages -> 0..SentCap]
  /\ gaveUp \subseteq Ids
  /\ faults \in 0..MaxFaults
LocalTypeOK ==
  /\ pc \in [Runs -> Labels]
  /\ mode \in [Runs -> {"none", "db", "file"}]
  /\ lastSeen \in [Runs -> [Boards -> Cursor]]
  /\ articles \in [Runs -> SUBSET Ids]
  /\ maxId \in [Runs -> Cursor]
  /\ attempt \in [Runs -> 1..MaxAttempts]
  /\ part \in [Runs -> 1..MaxParts]
  /\ saveTry \in [Runs -> 1..MaxSaveTries]
  /\ outcome \in [Runs -> {"SUCCESS", "FAIL"}]
TypeOK == SharedTypeOK /\ LocalTypeOK

\* A row that says SUCCESS is only ever written for an announcement all of
\* whose parts reached KakaoTalk (batch.py saves after send_text and
\* send_notice_summary return), whatever runs overlap, fail and retry.
SuccessMeansDelivered ==
  \A b \in Boards, p \in Ids : posts[b][p] = "SUCCESS" => Delivered(b, p)

\* The next run starts after MAX(post_id), so a post below it is never looked
\* at again.  No post still on the page is lost that way: between two posts of
\* the history, each was announced, or the history says it failed.
Handled(b, p) == Delivered(b, p) \/ posts[b][p] = "FAIL"
NothingSkipped ==
  \A b \in Boards : \A p \in Page(b) : \A lo, hi \in Recorded(b) :
    lo <= p /\ p <= hi => Handled(b, p)

\* One run at a time: every delivery of a message after the first is paid for
\* by a failure of its own, so the batch repeats itself no more often than it
\* fails (the cursor moves over what was recorded, a save is retried without
\* sending again).
RepeatsPaidByFaults == \A m \in Messages : sent[m] <= 1 + faults

\* One run at a time: what the history calls delivered is never turned into a
\* failure, not even when the commit happened but its answer was lost.
SuccessIsFinal ==
  [][\A b \in Boards, p \in Ids :
       posts[b][p] = "SUCCESS" => posts'[b][p] = "SUCCESS"]_vars

\* db/ddl.sql:38: the (board, post) key prevents processing a post twice.  A
\* post with a row in the history is not announced again.
RecordedNotResent ==
  [][\A m \in Messages : posts[m[1]][m[2]] # "none" => sent'[m] = sent[m]]_vars

\* File mode, one run at a time, no interrupted write: the cursor in
\* last_seen.json passes a post on the page only when it was announced, or was
\* a notice whose last attempt failed.
FileCursorCovers ==
  \A b \in Boards : \A p \in Page(b) :
    FileInit[b] <= p /\ p <= file[b] =>
      Delivered(b, p) \/ (b = Notice /\ p \in gaveUp)

\* One run at a time: docs/prd/20260415_214833_db-migration_6a3a6246.md wants every
\* processed post in the history.  A failed save of a photo post is only logged and
\* the next row moves the cursor past it, but each hole of that kind is one failure:
\* nothing else leaves a post between two recorded ones without a row.
HolesPaidByFaults ==
  \A b \in Boards :
    LET holes == {p \in Page(b) \ Recorded(b) :
                    \E lo, hi \in Recorded(b) : lo < p /\ p < hi}
    IN Cardinality(holes) <= faults

\* One run at a time, always with its database: whatever fails and is retried, the
\* posts table is an append-only history in the order of the posts, behind what was
\* announced (post_tracker.py continues from its highest row).
Announced == [b \in Boards |-> {p \in Ids : Delivered(b, p)}]
History == INSTANCE PostHistory
             WITH status <- posts, told <- Announced, MayFail <- {Notice}
ImplementsHistory == History!Spec

\* Every post published above the first recorded one is eventually announced
\* or recorded as failed, provided it stays on the first page and failures do
\* not go on forever (MaxFaults).
EventuallyHandled ==
  \A b \in Boards, p \in Ids :
    (p <= newest[b]) ~> (Handled(b, p) \/ p \notin Page(b))
===============================================================================
