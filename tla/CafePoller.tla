------------------------------ MODULE CafePoller ------------------------------
(***************************************************************************)
(* The resident service of batch/src/__main__.py, the predecessor of       *)
(* batch.py: a scheduler thread polls the boards one after the other       *)
(* (scheduler/poller.py), a tracker keeps the highest post number seen of  *)
(* each board in memory and in last_seen.json (crawler/post_tracker.py),   *)
(* and each new post goes through the handler of its kind of board         *)
(* (scheduler/pipeline.py).  The main thread waits for a signal and then   *)
(* takes the browser down (crawler/naver_cafe.py), job or no job.          *)
(***************************************************************************)
EXTENDS Integers, Sequences, FiniteSets, FiniteSetsExt

CONSTANTS
  BoardList,    \* config.boards, in the order they are polled
  ImageBoards,  \* those with face_check
  WithImages,   \* posts whose body has images
  PageSize,     \* posts on the first page of a board
  LastPost,     \* bound: number of the last post of each board
  MaxFaults     \* bound: failures of a call, and crashes

Boards == {BoardList[i] : i \in DOMAIN BoardList}
Posts  == UNION {1..LastPost[b] : b \in Boards}

ASSUME PollerAssumption ==
  /\ BoardList \in Seq(Boards) /\ BoardList # <<>>
  /\ LastPost \in [Boards -> Nat \ {0}]
  /\ ImageBoards \subseteq Boards /\ WithImages \subseteq Posts
  /\ PageSize \in Nat \ {0} /\ MaxFaults \in Nat
  /\ \A i, j \in DOMAIN BoardList : BoardList[i] = BoardList[j] => i = j

VARIABLES
  newest,   \* the cafe: number of the newest post of each board
  file,     \* last_seen.json; 0 where it has no entry
  main,     \* the main thread: "down", "up", "signalled", "stopping", "closed"
  loggedIn, \* Naver honours the cookies of the browser
  seen,     \* the tracker's _data
  pc,       \* where the poll job stands
  turn,     \* index of the board being polled
  queue,    \* the rest of new_posts, the next one being the newest
  faults,
  \* history
  sent,     \* messages that arrived, by post
  taken,    \* posts that were found new
  first,    \* newest post when the board was listed for the first time
  cut       \* posts still to handle when the browser was closed

service == <<file, main, loggedIn>>
job     == <<seen, pc, turn, queue>>
history == <<sent, taken, first, cut>>
vars    == <<newest, service, job, faults, history>>

board == BoardList[turn]
Empty == [b \in Boards |-> 0]
Fault == faults < MaxFaults /\ faults' = faults + 1

Init ==
  /\ newest \in [Boards -> 0..1]
  /\ file = Empty /\ seen = Empty
  /\ main = "down" /\ loggedIn = FALSE
  /\ pc = "idle" /\ turn = 1 /\ queue = {}
  /\ faults = 0
  /\ sent = [b \in Boards |-> [p \in Posts |-> 0]]
  /\ taken = [b \in Boards |-> {}]
  /\ first = Empty
  /\ cut = [b \in Boards |-> {}]

Publish(b) ==
  /\ newest[b] < LastPost[b]
  /\ newest' = [newest EXCEPT ![b] = @ + 1]
  /\ UNCHANGED <<service, job, faults, history>>

-----------------------------------------------------------------------------
(* The main thread *)

\* PostTracker() reads the file, the crawler restores the cookies and finds
\* itself logged in; without that the process ends before a poller exists.
Start ==
  /\ main = "down"
  /\ main' = "up" /\ loggedIn' = TRUE
  /\ seen' = file
  /\ UNCHANGED <<newest, file, pc, turn, queue, faults, history>>

\* SIGINT or SIGTERM: the handler sets the event main() waits for.
Signal ==
  /\ main = "up"
  /\ main' = "signalled"
  /\ UNCHANGED <<newest, file, loggedIn, job, faults, history>>

\* The waiting loop wakes and calls poller.stop(): no further poll, no waiting
\* for the present one.
Stop ==
  /\ main = "signalled"
  /\ main' = "stopping"
  /\ UNCHANGED <<newest, file, loggedIn, job, faults, history>>

\* __aexit__ closes the browser context.
Close ==
  /\ main = "stopping"
  /\ main' = "closed"
  /\ cut' = [cut EXCEPT ![board] = @ \cup queue]
  /\ UNCHANGED <<newest, file, loggedIn, job, faults, sent, taken, first>>

\* The interpreter joins the job's thread before it ends.
ExitAtOnce ==                                  \* for comparison
  /\ main = "closed"
  /\ main' = "down" /\ seen' = Empty
  /\ UNCHANGED <<newest, file, loggedIn, pc, turn, queue, faults, history>>
Exit ==
  /\ main = "closed" /\ pc = "idle"
  /\ main' = "down" /\ seen' = Empty
  /\ UNCHANGED <<newest, file, loggedIn, pc, turn, queue, faults, history>>

Crash ==
  /\ main # "down" /\ Fault
  /\ main' = "down" /\ seen' = Empty
  /\ pc' = "idle" /\ turn' = 1 /\ queue' = {}
  /\ UNCHANGED <<newest, file, loggedIn, history>>

Expire ==
  /\ main # "down" /\ loggedIn
  /\ loggedIn' = FALSE
  /\ UNCHANGED <<newest, file, main, job, faults, history>>

-----------------------------------------------------------------------------
(* The poll job: _poll_once and _poll_board *)

Scheduled == main \in {"up", "signalled"}

\* One instance at a time; a poll that is due while another runs is skipped.
FireStopped ==                                 \* for comparison
  /\ main # "down" /\ pc = "idle"
  /\ pc' = "list"
  /\ UNCHANGED <<newest, service, seen, turn, queue, faults, history>>
Fire ==
  /\ Scheduled /\ pc = "idle"
  /\ pc' = "list"
  /\ UNCHANGED <<newest, service, seen, turn, queue, faults, history>>

\* The board is done, or an exception ended it: the loop goes to the next one.
EndPoll == pc' = "idle" /\ turn' = 1 /\ queue' = {}   \* for comparison
NextBoard ==
  /\ queue' = {}
  /\ IF turn < Len(BoardList) THEN pc' = "list" /\ turn' = turn + 1
                              ELSE pc' = "idle" /\ turn' = 1

NextPost(rest) ==
  IF rest = {} THEN NextBoard
  ELSE queue' = rest /\ pc' = "detail" /\ UNCHANGED turn

\* get_new_posts: the number is recorded before any of the posts is handled.
ListAll(rows) ==                               \* for comparison
  LET new == {p \in rows : p > seen[board]} IN
    /\ new # {}
    /\ seen' = [seen EXCEPT ![board] = Max(new)]
    /\ pc' = "save" /\ queue' = new
    /\ taken' = [taken EXCEPT ![board] = @ \cup new]
    /\ UNCHANGED <<turn, first>>
Register(rows) ==
  /\ seen[board] = 0
  /\ seen' = [seen EXCEPT ![board] = Max(rows)]
  /\ pc' = "save"
  /\ first' = [first EXCEPT ![board] = IF @ = 0 THEN newest[board] ELSE @]
  /\ UNCHANGED <<turn, queue, taken>>

LateCursor(rows) ==                            \* for comparison
  LET new == {p \in rows : p > seen[board]} IN
    /\ seen[board] # 0 /\ new # {}
    /\ pc' = "save" /\ queue' = new
    /\ taken' = [taken EXCEPT ![board] = @ \cup new]
    /\ UNCHANGED <<turn, seen, first>>
Take(rows) ==
  LET new == {p \in rows : p > seen[board]} IN
    /\ seen[board] # 0 /\ new # {}
    /\ seen' = [seen EXCEPT ![board] = Max(new)]
    /\ pc' = "save" /\ queue' = new
    /\ taken' = [taken EXCEPT ![board] = @ \cup new]
    /\ UNCHANGED <<turn, first>>

Nothing(rows) ==
  /\ rows = {} \/ (seen[board] # 0 /\ \A p \in rows : p <= seen[board])
  /\ NextBoard
  /\ UNCHANGED <<seen, taken, first>>

GetNewPosts(rows) ==
  IF rows = {} THEN Nothing(rows) ELSE Register(rows) \/ Take(rows) \/ Nothing(rows)

Page == IF loggedIn THEN {p \in 1..newest[board] : p > newest[board] - PageSize}
                    ELSE {}   \* a login page has no rows

\* fetch_post_list; parse_post_list leaves out a row it cannot read.
List ==
  /\ pc = "list" /\ main # "closed"
  /\ \/ GetNewPosts(Page) /\ UNCHANGED faults
     \/ \E p \in Page : GetNewPosts(Page \ {p}) /\ Fault
  /\ UNCHANGED <<newest, service, sent, cut>>

\* JsonFileStore.save: opening the file for writing empties it; an error is
\* logged and the poll goes on with the number in memory.
Truncate ==
  /\ pc = "save"
  /\ pc' = "write" /\ file' = Empty
  /\ UNCHANGED <<newest, main, loggedIn, seen, turn, queue, faults, history>>

Write ==
  /\ pc = "write"
  /\ file' = seen
  /\ NextPost(queue)
  /\ UNCHANGED <<newest, main, loggedIn, seen, faults, history>>

SaveFails ==
  /\ pc \in {"save", "write"} /\ Fault
  /\ NextPost(queue)
  /\ UNCHANGED <<newest, service, seen, history>>

Detail ==
  /\ pc = "detail" /\ main # "closed"
  /\ pc' = "handle"
  /\ UNCHANGED <<newest, service, seen, turn, queue, faults, history>>

\* The page cannot be fetched: an error of the browser, or none is left.
FetchRaises ==
  /\ pc \in {"list", "detail"}
  /\ (main = "closed" /\ UNCHANGED faults) \/ Fault
  /\ NextBoard
  /\ UNCHANGED <<newest, service, seen, history>>

-----------------------------------------------------------------------------
(* The handlers *)

Deliver(p) == sent' = [sent EXCEPT ![board][p] = @ + 1]

\* NoticeBoardHandler: the summary is sent, then _send_images_async.
AlwaysImages(p) ==                             \* for comparison
  /\ pc' = "images" /\ UNCHANGED <<turn, queue>>
AfterSummary(p) ==
  IF p \in WithImages THEN pc' = "images" /\ UNCHANGED <<turn, queue>>
                      ELSE NextPost(queue \ {p})

SendSummary ==
  /\ pc = "handle" /\ board \notin ImageBoards
  /\ Deliver(Max(queue))
  /\ AfterSummary(Max(queue))
  /\ UNCHANGED <<newest, service, seen, faults, taken, first, cut>>

\* summarize() fails, or the send does, whether or not the message arrived.
SummaryRaises ==
  /\ pc = "handle" /\ board \notin ImageBoards /\ Fault
  /\ Deliver(Max(queue)) \/ UNCHANGED sent
  /\ NextBoard
  /\ UNCHANGED <<newest, service, seen, taken, first, cut>>

\* Either handler downloads the images and calls send_images, which
\* KakaoMessenger does not have: the AttributeError ends the board.
SendImages ==
  /\ pc = "images" \/ (pc = "handle" /\ board \in ImageBoards)
  /\ NextBoard
  /\ UNCHANGED <<newest, service, seen, faults, history>>

-----------------------------------------------------------------------------
Job == \/ List \/ Truncate \/ Write \/ SaveFails \/ Detail \/ FetchRaises
       \/ SendSummary \/ SummaryRaises \/ SendImages

Next ==
  \/ \E b \in Boards : Publish(b)
  \/ Start \/ Signal \/ Stop \/ Close \/ Exit \/ Crash \/ Expire
  \/ Fire \/ Job

\* The scheduler's thread fires at every interval and every call of the job ends
\* (a page, a command or a request has a time limit).  Setting the event in a
\* signal handler does not wake the loop: what surely does is the browser's
\* answer to a fetch of the job.
Fetching == pc \in {"list", "detail"}
Fairness ==
  /\ WF_vars(Fire) /\ WF_vars(Job)
  /\ SF_vars(Fetching /\ Stop) /\ WF_vars(Close) /\ WF_vars(Exit)

Spec == Init /\ [][Next]_vars /\ Fairness

-----------------------------------------------------------------------------
(* Properties *)

\* Types; the job ends before its process does, holds posts only between the
\* list and the last of them, and never more than the cursor has passed.
TypeOK ==
  /\ newest \in [Boards -> Posts \cup {0}]
  /\ file \in [Boards -> Posts \cup {0}] /\ seen \in [Boards -> Posts \cup {0}]
  /\ main \in {"down", "up", "signalled", "stopping", "closed"}
  /\ loggedIn \in BOOLEAN
  /\ pc \in {"idle", "list", "save", "write", "detail", "handle", "images"}
  /\ turn \in DOMAIN BoardList
  /\ queue \subseteq 1..seen[board]
  /\ faults \in 0..MaxFaults
  /\ sent \in [Boards -> [Posts -> 0..MaxFaults + 1]]
  /\ taken \in [Boards -> SUBSET Posts] /\ first \in [Boards -> Posts \cup {0}]
  /\ cut \in [Boards -> SUBSET Posts]
  /\ main = "down" => pc = "idle" /\ seen = Empty
  /\ pc \in {"detail", "handle", "images"} <=> queue # {} /\ pc \notin {"save", "write"}

\* A notice is announced more than once only if something failed: a stop and a
\* start, at whatever point of a poll, repeats none (post_tracker.py:163 records
\* the number before the posts are handled).
RepeatsPaidByFaults ==
  \A b \in Boards, p \in Posts : sent[b][p] <= 1 + faults

\* What a board held when the service first looked at it is not announced, on
\* that poll or on any later one (post_tracker.py:6, against spam).
NoSpam ==
  faults = 0 =>
    \A b \in Boards, p \in Posts : sent[b][p] > 0 => first[b] > 0 /\ p > first[b]

\* The tracker moves past a post before it is handled, so a post can be lost.  It
\* is lost only to a failure, to the closing of the browser under the poll, or to
\* a newer post of the same poll whose images could not be sent.
LossHasCause ==
  \A b \in Boards \ ImageBoards : \A p \in taken[b] :
    sent[b][p] = 0 /\ ~(b = board /\ p \in queue) =>
      \/ faults > 0 \/ p \in cut[b]
      \/ \E q \in taken[b] \cap WithImages : q > p

\* A signal ends the process, although stop() does not wait for the poll that
\* runs and the event alone does not wake the loop (poller.py:119).
StopEnds == main = "signalled" ~> main = "down"

\* Once no more posts appear (a run of the model has finitely many), every board is
\* read up to its newest post, whatever the boards before it do: an exception costs
\* the board its turn and no other board (poller.py:148).  Not so for a browser whose
\* session has ended, which sees empty boards.
CatchesUp ==
  \A b \in Boards : []<>(seen[b] = newest[b] \/ main # "up" \/ ~loggedIn)
===============================================================================
