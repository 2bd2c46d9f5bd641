---------------------------- MODULE CafePollerProofs ----------------------------
(***************************************************************************)
(* What the resident poller promises about each post, for any boards, page *)
(* size and number of posts and failures: none is announced again without  *)
(* a failure, none that was there at the start is announced, and none is   *)
(* lost without a cause.                                                   *)
(***************************************************************************)
EXTENDS CafePoller, TLAPS, FiniteSetTheorems

(* The greatest of some numbers up to n: the one whose interval up to n     *)
(* contains those of the others.                                           *)
LEMMA MaxFacts ==
  ASSUME NEW n \in Nat, NEW S \in SUBSET (0..n), S # {}
  PROVE  Max(S) \in S /\ \A y \in S : y <= Max(S)
  <1> DEFINE R == StrictSubsetOrdering(Nat)
             T == {i..n : i \in S}
  <1>1. T \subseteq FiniteSubsetsOf(Nat) /\ T # {}
    <2>1. ASSUME NEW i \in S PROVE i..n \in FiniteSubsetsOf(Nat)
      <3>1. i..n \in SUBSET Nat /\ i \in Int /\ n \in Int
        OBVIOUS
      <3> QED BY <3>1, FS_Interval DEF FiniteSubsetsOf
    <2> QED BY <2>1
  <1>2. PICK s \in T : \A r \in T : ~ (<<r, s>> \in R)
    <2>1. IsWellFoundedOn(R, FiniteSubsetsOf(Nat))
      BY FS_StrictSubsetOrderingWellFounded
    <2> HIDE DEF T, R
    <2> QED BY <1>1, <2>1, WFMin
  <1>3. PICK i \in S : s = i..n
    BY <1>2
  <1>4. ASSUME NEW j \in S, i < j PROVE FALSE
    <2>1. /\ j..n \in SUBSET Nat /\ i..n \in SUBSET Nat
          /\ j..n \subseteq i..n /\ i \in i..n /\ i \notin j..n
      BY <1>4
    <2>2. <<j..n, i..n>> \in R
      BY <2>1 DEF StrictSubsetOrdering
    <2> QED BY <1>2, <1>3, <2>2
  <1>5. \A y \in S : i >= y
    BY <1>4
  <1>6. Max(S) \in S /\ \A y \in S : Max(S) >= y
    BY <1>5 DEF Max
  <1> QED BY <1>6

-----------------------------------------------------------------------------
(* The types, with as many messages of a post as there may be.             *)
Of(b) == 0..LastPost[b]
TypeInv ==
  /\ newest \in [Boards -> Nat] /\ \A b \in Boards : newest[b] \in Of(b)
  /\ file \in [Boards -> Nat] /\ \A b \in Boards : file[b] \in Of(b)
  /\ seen \in [Boards -> Nat] /\ \A b \in Boards : seen[b] \in Of(b)
  /\ main \in {"down", "up", "signalled", "stopping", "closed"}
  /\ loggedIn \in BOOLEAN
  /\ pc \in {"idle", "list", "save", "write", "detail", "handle", "images"}
  /\ turn \in DOMAIN BoardList
  /\ queue \subseteq 1..seen[board]
  /\ faults \in 0..MaxFaults
  /\ sent \in [Boards -> [Posts -> Nat]]
  /\ taken \in [Boards -> SUBSET Posts] /\ first \in [Boards -> Posts \cup {0}]
  /\ cut \in [Boards -> SUBSET Posts]
  /\ main = "down" => pc = "idle" /\ seen = Empty
  /\ pc \in {"detail", "handle", "images"} <=> queue # {} /\ pc \notin {"save", "write"}

LEMMA BoardFacts ==
  /\ Len(BoardList) \in Nat /\ Len(BoardList) > 0 /\ DOMAIN BoardList = 1..Len(BoardList)
  /\ \A i \in DOMAIN BoardList : BoardList[i] \in Boards
  /\ \A b \in Boards : /\ LastPost[b] \in Nat /\ LastPost[b] > 0
                       /\ \A p \in 1..LastPost[b] : p \in Posts
                       /\ Of(b) \subseteq Posts \cup {0} /\ Of(b) \subseteq Nat
  /\ \A p \in Posts : p \in Nat /\ p > 0
  /\ MaxFaults \in Nat /\ PageSize \in Nat /\ PageSize > 0
  <1>1. /\ BoardList \in Seq(Boards) /\ BoardList # <<>>
        /\ LastPost \in [Boards -> Nat \ {0}] /\ MaxFaults \in Nat /\ PageSize \in Nat \ {0}
    BY PollerAssumption
  <1>2. Len(BoardList) \in Nat /\ Len(BoardList) > 0 /\ DOMAIN BoardList = 1..Len(BoardList)
    BY <1>1
  <1>3. \A i \in DOMAIN BoardList : BoardList[i] \in Boards
    BY <1>1, <1>2
  <1>4. ASSUME NEW b \in Boards
        PROVE  /\ LastPost[b] \in Nat /\ LastPost[b] > 0
               /\ \A p \in 1..LastPost[b] : p \in Posts
    BY <1>1 DEF Posts
  <1>5. \A b \in Boards : Of(b) \subseteq Posts \cup {0} /\ Of(b) \subseteq Nat
    BY <1>4 DEF Of
  <1>6. \A p \in Posts : p \in Nat /\ p > 0
    BY <1>4 DEF Posts
  <1> QED BY <1>1, <1>2, <1>3, <1>4, <1>5, <1>6

LEMMA QueueFacts ==
  ASSUME TypeInv
  PROVE  /\ board \in Boards /\ seen[board] \in Nat /\ faults \in Nat
         /\ queue \subseteq Posts /\ queue \in SUBSET (0..seen[board])
         /\ queue # {} => Max(queue) \in queue /\ \A p \in queue : p <= Max(queue)
         /\ pc \in {"idle", "list"} => queue = {}
         /\ pc \in {"detail", "handle", "images"} => queue # {}
  <1>1. board \in Boards /\ seen[board] \in Of(board) /\ faults \in Nat
    BY BoardFacts DEF TypeInv, board
  <1>2. queue \subseteq 1..seen[board] /\ seen[board] \in Nat /\ seen[board] <= LastPost[board]
    BY <1>1, BoardFacts DEF TypeInv, Of
  <1>3. queue \subseteq Posts /\ queue \in SUBSET (0..seen[board])
    BY <1>1, <1>2, BoardFacts
  <1>4. queue # {} => Max(queue) \in queue /\ \A p \in queue : p <= Max(queue)
    BY <1>2, <1>3, MaxFacts
  <1> QED BY <1>1, <1>2, <1>3, <1>4 DEF TypeInv

(* Where the job goes when a post or a board is done.                      *)
LEMMA NextBoardFacts ==
  ASSUME TypeInv, NextBoard
  PROVE  queue' = {} /\ pc' \in {"list", "idle"} /\ turn' \in DOMAIN BoardList
  BY BoardFacts DEF TypeInv, NextBoard

LEMMA NextPostFacts ==
  ASSUME TypeInv, NEW rest, NextPost(rest)
  PROVE  /\ queue' = rest /\ turn' \in DOMAIN BoardList
         /\ rest = {} => pc' \in {"list", "idle"}
         /\ rest # {} => turn' = turn /\ pc' = "detail"
  BY NextBoardFacts DEF TypeInv, NextPost

(* The page shows posts of the board only.                                 *)
LEMMA PageFacts ==
  ASSUME TypeInv, NEW rows \in SUBSET Page
  PROVE  /\ rows \in SUBSET (1..newest[board])
         /\ rows # {} => /\ Max(rows) \in rows /\ Max(rows) \in 1..newest[board]
                         /\ \A p \in rows : p <= Max(rows)
  <1>1. board \in Boards /\ newest[board] \in Nat
    BY QueueFacts DEF TypeInv
  <1>2. rows \in SUBSET (1..newest[board])
    BY <1>1 DEF Page
  <1>3. rows # {} => Max(rows) \in rows /\ \A p \in rows : p <= Max(rows)
    <2>1. rows \in SUBSET (0..newest[board])
      BY <1>1, <1>2
    <2> QED BY <1>1, <2>1, MaxFacts
  <1> QED BY <1>2, <1>3

(* What a list does: the number of a board first seen, or its new posts, or *)
(* nothing.                                                                *)
LEMMA ListFacts ==
  ASSUME TypeInv, List
  PROVE  \E rows \in SUBSET Page :
           /\ rows = {} => Nothing(rows)
           /\ Register(rows) \/ Take(rows) \/ Nothing(rows)
           /\ (rows = Page /\ faults' = faults) \/ Fault
  <1>1. \E rows \in SUBSET Page :
          GetNewPosts(rows) /\ ((rows = Page /\ faults' = faults) \/ Fault)
    BY DEF List
  <1> QED BY <1>1 DEF GetNewPosts

LEMMA RegisterFacts ==
  ASSUME TypeInv, NEW rows \in SUBSET Page, rows # {}, Register(rows)
  PROVE  \E m \in rows :
           /\ \A p \in rows : p <= m
           /\ m \in 1..newest[board] /\ m \in Of(board) /\ newest[board] \in Posts
           /\ seen[board] = 0 /\ seen' = [seen EXCEPT ![board] = m] /\ pc' = "save"
           /\ first' = [first EXCEPT ![board] = IF @ = 0 THEN newest[board] ELSE @]
           /\ UNCHANGED <<turn, queue, taken>>
  <1>1. /\ Max(rows) \in rows /\ \A p \in rows : p <= Max(rows)
        /\ Max(rows) \in 1..newest[board]
    BY PageFacts
  <1>2. newest[board] \in Of(board) /\ board \in Boards
    BY QueueFacts DEF TypeInv
  <1>3. Max(rows) \in Of(board) /\ newest[board] \in Posts
    BY <1>1, <1>2, BoardFacts DEF Of
  <1> QED BY <1>1, <1>3 DEF Register

LEMMA TakeFacts ==
  ASSUME TypeInv, NEW rows \in SUBSET Page, Take(rows)
  PROVE  \E m \in queue' :
           /\ queue' = {p \in rows : p > seen[board]} /\ queue' \subseteq 1..m
           /\ m \in Of(board) /\ m > seen[board] /\ seen[board] # 0
           /\ seen' = [seen EXCEPT ![board] = m] /\ pc' = "save"
           /\ taken' = [taken EXCEPT ![board] = @ \cup queue'] /\ queue' \subseteq Posts
           /\ UNCHANGED <<turn, first>>
  <1> DEFINE new == {p \in rows : p > seen[board]}
  <1>1. new \in SUBSET Page /\ new # {}
    BY DEF Take
  <1>2. /\ Max(new) \in new /\ \A p \in new : p <= Max(new)
        /\ Max(new) \in 1..newest[board] /\ new \subseteq 1..newest[board]
    BY <1>1, PageFacts
  <1>3. newest[board] \in Of(board) /\ board \in Boards
    BY QueueFacts DEF TypeInv
  <1>4. Max(new) \in Of(board) /\ new \subseteq Posts /\ new \subseteq 1..Max(new)
    BY <1>2, <1>3, BoardFacts DEF Of
  <1>5. /\ queue' = new /\ seen[board] # 0 /\ seen' = [seen EXCEPT ![board] = Max(new)]
        /\ pc' = "save" /\ taken' = [taken EXCEPT ![board] = @ \cup new]
        /\ UNCHANGED <<turn, first>>
    BY DEF Take
  <1>6. Max(new) > seen[board]
    BY <1>2
  <1> HIDE DEF new
  <1> QED BY <1>2, <1>4, <1>5, <1>6 DEF new

-----------------------------------------------------------------------------
LEMMA TypeInit == Init => TypeInv
  <1> SUFFICES ASSUME Init PROVE TypeInv
    OBVIOUS
  <1>1. ASSUME NEW b \in Boards PROVE 0 \in Of(b) /\ newest[b] \in Of(b)
    <2>1. newest[b] \in 0..1 /\ LastPost[b] \in Nat /\ LastPost[b] > 0
      BY BoardFacts DEF Init
    <2> QED BY <2>1 DEF Of
  <1>2. newest \in [Boards -> Nat] /\ Empty \in [Boards -> Nat] /\ \A b \in Boards : Empty[b] = 0
    BY DEF Init, Empty
  <1>3. 1 \in DOMAIN BoardList /\ 0 \in 0..MaxFaults
    BY BoardFacts
  <1> QED BY <1>1, <1>2, <1>3 DEF Init, TypeInv, Empty

(* Steps of the main thread.                                               *)
LEMMA MainType ==
  ASSUME TypeInv, (\E b \in Boards : Publish(b)) \/ Start \/ Signal \/ Stop \/ Close
                  \/ Exit \/ Crash \/ Expire \/ Fire \/ UNCHANGED vars
  PROVE  TypeInv'
  <1>0. Empty \in [Boards -> Nat] /\ \A b \in Boards : Empty[b] = 0 /\ 0 \in Of(b)
    BY BoardFacts DEF Empty, Of
  <1>1. ASSUME NEW b \in Boards, Publish(b) PROVE TypeInv'
    <2>1. /\ newest[b] < LastPost[b] /\ newest' = [newest EXCEPT ![b] = @ + 1]
          /\ UNCHANGED <<file, main, loggedIn, seen, pc, turn, queue, faults,
                         sent, taken, first, cut>>
      BY <1>1 DEF Publish, service, job, history
    <2>2. newest[b] \in Nat /\ LastPost[b] \in Nat /\ newest[b] + 1 \in Of(b)
      BY <2>1, BoardFacts DEF TypeInv, Of
    <2>3. newest' \in [Boards -> Nat] /\ \A c \in Boards : newest'[c] \in Of(c)
      BY <2>1, <2>2 DEF TypeInv
    <2> QED BY <2>1, <2>3 DEF TypeInv, board
  <1>2. CASE Start
    <2>1. /\ main = "down" /\ main' = "up" /\ loggedIn' = TRUE /\ seen' = file
          /\ UNCHANGED <<newest, file, pc, turn, queue, faults, sent, taken, first, cut>>
      BY <1>2 DEF Start, history
    <2>2. queue = {}
      BY <2>1, QueueFacts DEF TypeInv
    <2> QED BY <2>1, <2>2 DEF TypeInv
  <1>3. CASE Signal \/ Stop \/ Expire \/ Fire \/ UNCHANGED vars
    <2>1. UNCHANGED <<newest, file, seen, turn, queue, faults, sent, taken, first, cut>>
      BY <1>3 DEF Signal, Stop, Expire, Fire, vars, service, job, history
    <2>2. CASE Signal \/ Stop
      BY <2>1, <2>2 DEF Signal, Stop, TypeInv, job, board
    <2>3. CASE Expire
      BY <2>1, <2>3 DEF Expire, TypeInv, job, board
    <2>4. CASE Fire
      BY <2>1, <2>4 DEF Fire, Scheduled, TypeInv, service, board
    <2>5. CASE UNCHANGED vars
      BY <2>1, <2>5 DEF vars, service, job, TypeInv, board
    <2> QED BY <1>3, <2>2, <2>3, <2>4, <2>5
  <1>4. CASE Close
    <2>1. /\ main = "stopping" /\ main' = "closed"
          /\ cut' = [cut EXCEPT ![board] = @ \cup queue]
          /\ UNCHANGED <<newest, file, loggedIn, seen, pc, turn, queue, faults,
                         sent, taken, first>>
      BY <1>4 DEF Close, job
    <2>2. cut' \in [Boards -> SUBSET Posts]
      BY <2>1, QueueFacts DEF TypeInv
    <2> QED BY <2>1, <2>2 DEF TypeInv, board
  <1>5. CASE Exit
    <2>1. /\ pc = "idle" /\ main' = "down" /\ seen' = Empty
          /\ UNCHANGED <<newest, file, loggedIn, pc, turn, queue, faults,
                         sent, taken, first, cut>>
      BY <1>5 DEF Exit, history
    <2>2. queue = {}
      BY <2>1, QueueFacts
    <2> QED BY <1>0, <2>1, <2>2 DEF TypeInv
  <1>6. CASE Crash
    <2>1. /\ main' = "down" /\ seen' = Empty /\ pc' = "idle" /\ turn' = 1 /\ queue' = {}
          /\ faults < MaxFaults /\ faults' = faults + 1
          /\ UNCHANGED <<newest, file, loggedIn, sent, taken, first, cut>>
      BY <1>6 DEF Crash, Fault, history
    <2>2. turn' \in DOMAIN BoardList /\ faults' \in 0..MaxFaults
      BY <2>1, BoardFacts DEF TypeInv
    <2> QED BY <1>0, <2>1, <2>2 DEF TypeInv
  <1> QED BY <1>1, <1>2, <1>3, <1>4, <1>5, <1>6

LEMMA FaultType ==
  ASSUME TypeInv, Fault \/ faults' = faults
  PROVE  faults' \in 0..MaxFaults /\ faults' >= faults
  BY BoardFacts DEF TypeInv, Fault

LEMMA ListType ==
  ASSUME TypeInv, List
  PROVE  TypeInv'
  <1>1. /\ pc = "list" /\ main # "closed" /\ main # "down" /\ queue = {} /\ board \in Boards
        /\ UNCHANGED <<newest, file, main, loggedIn, sent, cut>>
    BY QueueFacts DEF List, TypeInv, service
  <1>2. PICK rows \in SUBSET Page :
           /\ rows = {} => Nothing(rows)
           /\ Register(rows) \/ Take(rows) \/ Nothing(rows)
           /\ (rows = Page /\ faults' = faults) \/ Fault
    BY ListFacts
  <1>3. faults' \in 0..MaxFaults
    BY <1>2, FaultType
  <1>4. CASE rows # {} /\ Register(rows)
    <2>1. PICK m \in rows :
           /\ m \in 1..newest[board] /\ m \in Of(board) /\ newest[board] \in Posts
           /\ seen[board] = 0 /\ seen' = [seen EXCEPT ![board] = m] /\ pc' = "save"
           /\ first' = [first EXCEPT ![board] = IF @ = 0 THEN newest[board] ELSE @]
           /\ UNCHANGED <<turn, queue, taken>>
      BY <1>4, RegisterFacts
    <2>2. seen' \in [Boards -> Nat] /\ \A b \in Boards : seen'[b] \in Of(b)
      BY <1>1, <2>1, BoardFacts DEF TypeInv
    <2>3. first' \in [Boards -> Posts \cup {0}]
      BY <1>1, <2>1 DEF TypeInv
    <2> QED BY <1>1, <1>3, <2>1, <2>2, <2>3 DEF TypeInv, board
  <1>5. CASE Take(rows)
    <2>1. PICK m \in queue' :
           /\ queue' \subseteq 1..m /\ m \in Of(board)
           /\ seen' = [seen EXCEPT ![board] = m] /\ pc' = "save"
           /\ taken' = [taken EXCEPT ![board] = @ \cup queue'] /\ queue' \subseteq Posts
           /\ UNCHANGED <<turn, first>>
      BY <1>5, TakeFacts
    <2>2. /\ seen' \in [Boards -> Nat] /\ \A b \in Boards : seen'[b] \in Of(b)
          /\ taken' \in [Boards -> SUBSET Posts] /\ seen'[board] = m
      BY <1>1, <2>1, BoardFacts DEF TypeInv
    <2>3. board' = board
      BY <2>1 DEF board
    <2> QED BY <1>1, <1>3, <2>1, <2>2, <2>3 DEF TypeInv
  <1>6. CASE Nothing(rows)
    <2>1. NextBoard /\ UNCHANGED <<seen, taken, first>>
      BY <1>6 DEF Nothing
    <2>2. queue' = {} /\ pc' \in {"list", "idle"} /\ turn' \in DOMAIN BoardList
      BY <2>1, NextBoardFacts
    <2> QED BY <1>1, <1>3, <2>1, <2>2 DEF TypeInv
  <1> QED BY <1>2, <1>4, <1>5, <1>6

(* Steps of the job that leave the cursor alone and drop posts of the queue *)
(* only.                                                                   *)
LEMMA JobType ==
  ASSUME TypeInv, Truncate \/ Write \/ SaveFails \/ Detail \/ FetchRaises
                  \/ SendSummary \/ SummaryRaises \/ SendImages
  PROVE  TypeInv'
  <1>0. /\ board \in Boards /\ queue \subseteq 1..seen[board]
        /\ Empty \in [Boards -> Nat] /\ \A b \in Boards : Empty[b] = 0 /\ 0 \in Of(b)
    BY QueueFacts, BoardFacts DEF Empty, Of, TypeInv
  <1>1. /\ UNCHANGED <<newest, main, loggedIn, seen, taken, first, cut>>
        /\ Fault \/ faults' = faults
        /\ main # "down"
    BY DEF Truncate, Write, SaveFails, Detail, FetchRaises, SendSummary, SummaryRaises,
           SendImages, service, history, TypeInv
  <1>2. main # "down" /\ faults' \in 0..MaxFaults
    BY <1>1, FaultType
       DEF TypeInv, Truncate, Write, SaveFails, Detail, FetchRaises, SendSummary,
           SummaryRaises, SendImages
  <1>3. ASSUME NEW rest \in SUBSET queue, NextPost(rest),
               file' \in [Boards -> Nat], \A b \in Boards : file'[b] \in Of(b),
               sent' \in [Boards -> [Posts -> Nat]]
        PROVE  TypeInv'
    <2>1. /\ queue' = rest /\ turn' \in DOMAIN BoardList
          /\ rest = {} => pc' \in {"list", "idle"}
          /\ rest # {} => turn' = turn /\ pc' = "detail"
      BY <1>3, NextPostFacts
    <2>2. queue' \subseteq 1..seen'[board']
      BY <1>0, <1>1, <2>1 DEF board
    <2> QED BY <1>1, <1>2, <1>3, <2>1, <2>2 DEF TypeInv
  <1>4. ASSUME NextBoard, file' = file, sent' \in [Boards -> [Posts -> Nat]]
        PROVE  TypeInv'
    <2>1. NextPost({})
      BY <1>4 DEF NextPost
    <2> QED BY <1>3, <1>4, <2>1 DEF TypeInv
  <1>5. CASE Truncate
    <2>1. pc' = "write" /\ file' = Empty /\ UNCHANGED <<turn, queue, sent>>
      BY <1>5 DEF Truncate, history
    <2> QED BY <1>0, <1>1, <1>2, <2>1 DEF TypeInv, board
  <1>6. CASE Write
    <2>1. file' = seen /\ sent' = sent /\ NextPost(queue)
      BY <1>6 DEF Write, history
    <2> QED BY <1>3, <2>1 DEF TypeInv
  <1>7. CASE SaveFails
    <2>1. file' = file /\ sent' = sent /\ NextPost(queue)
      BY <1>7 DEF SaveFails, history, service
    <2> QED BY <1>3, <2>1 DEF TypeInv
  <1>8. CASE Detail
    <2>1. pc = "detail" /\ pc' = "handle" /\ UNCHANGED <<file, turn, queue, sent>>
      BY <1>8 DEF Detail, history, service
    <2> QED BY <1>1, <1>2, <2>1 DEF TypeInv, board
  <1>9. CASE FetchRaises \/ SendImages
    <2>1. file' = file /\ sent' = sent /\ NextBoard
      BY <1>9 DEF FetchRaises, SendImages, history, service
    <2> QED BY <1>4, <2>1 DEF TypeInv
  <1>10. ASSUME NEW p \in Posts, Deliver(p) PROVE sent' \in [Boards -> [Posts -> Nat]]
    BY <1>0, <1>10 DEF Deliver, TypeInv
  <1>11. CASE SendSummary
    <2>1. pc = "handle" /\ Max(queue) \in queue /\ Max(queue) \in Posts /\ queue # {}
      BY <1>11, QueueFacts DEF SendSummary
    <2>2. Deliver(Max(queue)) /\ AfterSummary(Max(queue)) /\ file' = file
      BY <1>11 DEF SendSummary, service
    <2>3. sent' \in [Boards -> [Posts -> Nat]]
      BY <1>10, <2>1, <2>2
    <2>4. CASE pc' = "images" /\ UNCHANGED <<turn, queue>>
      BY <1>1, <1>2, <2>1, <2>2, <2>3, <2>4 DEF TypeInv, board
    <2>5. CASE NextPost(queue \ {Max(queue)})
      BY <1>3, <2>2, <2>3, <2>5 DEF TypeInv
    <2> QED BY <2>2, <2>4, <2>5 DEF AfterSummary
  <1>12. CASE SummaryRaises
    <2>1. pc = "handle" /\ Max(queue) \in Posts
      BY <1>12, QueueFacts DEF SummaryRaises
    <2>2. (Deliver(Max(queue)) \/ UNCHANGED sent) /\ NextBoard /\ file' = file
      BY <1>12 DEF SummaryRaises, service
    <2>3. sent' \in [Boards -> [Posts -> Nat]]
      BY <1>10, <2>1, <2>2 DEF TypeInv
    <2> QED BY <1>4, <2>2, <2>3
  <1> QED BY <1>5, <1>6, <1>7, <1>8, <1>9, <1>11, <1>12

LEMMA TypeStep == TypeInv /\ [Next]_vars => TypeInv'
  BY MainType, ListType, JobType DEF Next, Job

-----------------------------------------------------------------------------
(* A post that has been announced once more than the failures there were is *)
(* behind the tracker's number, and behind the file's, or the file is being *)
(* written; a post still to be announced is behind the file's too, unless a *)
(* failure kept it from being written.                                      *)
Saving == pc \in {"save", "write"}
Safe(b, p) ==
  /\ main # "down" => p <= seen[b] /\ (b = board /\ p \in queue => pc = "images")
  /\ p <= file[b] \/ Saving
Paid(b, p) == sent[b][p] <= faults \/ (sent[b][p] = 1 + faults /\ Safe(b, p))
Spare(b, p) == b = board /\ p \in queue /\ pc \in {"detail", "handle"}
                 => p <= file[b] \/ sent[b][p] + 1 <= faults
RepeatOK == \A b \in Boards, p \in Posts : Paid(b, p) /\ Spare(b, p)
RepeatInv == TypeInv /\ RepeatOK

LEMMA CountFacts ==
  ASSUME TypeInv, NEW b \in Boards, NEW p \in Posts
  PROVE  /\ sent[b][p] \in Nat /\ faults \in Nat /\ p \in Nat /\ p > 0
         /\ seen[b] \in Nat /\ file[b] \in Nat
  <1>1. faults \in Nat /\ p \in Nat /\ p > 0
    BY QueueFacts, BoardFacts
  <1>2. sent[b][p] \in Nat /\ seen[b] \in Nat /\ file[b] \in Nat
    BY DEF TypeInv
  <1> QED BY <1>1, <1>2

LEMMA RepeatInit == Init => RepeatInv
  <1> SUFFICES ASSUME Init PROVE RepeatOK
    BY TypeInit DEF RepeatInv
  <1>1. ASSUME NEW b \in Boards, NEW p \in Posts PROVE Paid(b, p) /\ Spare(b, p)
    BY DEF Init, Paid, Spare
  <1> QED BY <1>1 DEF RepeatOK

(* A failure that leaves nothing to announce.                               *)
LEMMA FaultPaid ==
  ASSUME RepeatInv, faults' = faults + 1, sent' = sent, queue' = {}
  PROVE  RepeatOK'
  <1>1. ASSUME NEW b \in Boards, NEW p \in Posts PROVE Paid(b, p)' /\ Spare(b, p)'
    BY CountFacts DEF RepeatInv, RepeatOK, Paid, Spare
  <1> QED BY <1>1 DEF RepeatOK

(* Nothing but the labels and the main thread changes.                      *)
LEMMA CalmPaid ==
  ASSUME RepeatInv, UNCHANGED <<file, seen, turn, queue, faults, sent>>,
         main = "down" => main' = "down",
         pc' = pc \/ (pc = "idle" /\ pc' = "list") \/ (pc = "detail" /\ pc' = "handle")
  PROVE  RepeatOK'
  <1>1. ASSUME NEW b \in Boards, NEW p \in Posts PROVE Paid(b, p)' /\ Spare(b, p)'
    BY DEF RepeatInv, RepeatOK, Paid, Spare, Safe, Saving, board
  <1> QED BY <1>1 DEF RepeatOK

(* The board ends without a failure: every other post of it stays counted.  *)
LEMMA NextBoardPaid ==
  ASSUME RepeatInv, NextBoard, ~Saving, UNCHANGED <<file, main, seen, faults, sent>>
  PROVE  RepeatOK'
  <1>1. queue' = {}
    BY NextBoardFacts DEF RepeatInv
  <1>2. ASSUME NEW b \in Boards, NEW p \in Posts PROVE Paid(b, p)' /\ Spare(b, p)'
    BY <1>1 DEF RepeatInv, RepeatOK, Paid, Spare, Safe, Saving
  <1> QED BY <1>2 DEF RepeatOK

LEMMA ListPaid ==
  ASSUME RepeatInv, List
  PROVE  RepeatOK'
  <1>0. /\ TypeInv /\ pc = "list" /\ queue = {} /\ board \in Boards /\ main # "down"
        /\ UNCHANGED <<file, main, sent>>
    BY QueueFacts DEF RepeatInv, List, TypeInv, service
  <1>1. PICK rows \in SUBSET Page :
           /\ rows = {} => Nothing(rows)
           /\ Register(rows) \/ Take(rows) \/ Nothing(rows)
           /\ (rows = Page /\ faults' = faults) \/ Fault
    BY <1>0, ListFacts
  <1>2. faults' >= faults /\ faults' \in Nat
    BY <1>0, <1>1, FaultType DEF TypeInv
  <1>3. CASE rows # {} /\ Register(rows)
    <2>1. PICK m \in rows : /\ seen[board] = 0 /\ seen' = [seen EXCEPT ![board] = m]
                            /\ pc' = "save" /\ UNCHANGED <<turn, queue>>
      BY <1>0, <1>3, RegisterFacts
    <2>2. ASSUME NEW b \in Boards, NEW p \in Posts PROVE Paid(b, p)' /\ Spare(b, p)'
      <3>1. CASE b = board
        <4>1. ~(p <= seen[b])
          BY <1>0, <2>1, <3>1, CountFacts
        <4>2. sent[b][p] <= faults
          BY <1>0, <4>1 DEF RepeatInv, RepeatOK, Paid, Safe
        <4> QED BY <1>0, <1>2, <2>1, <4>2, CountFacts DEF Paid, Spare
      <3>2. CASE b # board
        <4>1. seen'[b] = seen[b]
          BY <1>0, <2>1, <3>2 DEF TypeInv
        <4>2. Safe(b, p) => Safe(b, p)'
          BY <1>0, <2>1, <4>1 DEF Safe, Saving, board
        <4> QED BY <1>0, <1>2, <2>1, <4>2, CountFacts DEF RepeatInv, RepeatOK, Paid, Spare
      <3> QED BY <3>1, <3>2
    <2> QED BY <2>2 DEF RepeatOK
  <1>4. CASE Take(rows)
    <2>1. PICK m \in queue' :
           /\ queue' = {p \in rows : p > seen[board]}
           /\ m \in Of(board) /\ m > seen[board] /\ seen[board] # 0
           /\ seen' = [seen EXCEPT ![board] = m] /\ pc' = "save" /\ UNCHANGED turn
      BY <1>0, <1>4, TakeFacts
    <2>2. ASSUME NEW b \in Boards, NEW p \in Posts PROVE Paid(b, p)' /\ Spare(b, p)'
      <3>1. Safe(b, p) => Safe(b, p)'
        <4>1. m \in Nat /\ seen[b] \in Nat /\ p \in Nat
          BY <1>0, <2>1, CountFacts, BoardFacts DEF Of
        <4>2. p <= seen[b] => p <= seen'[b]
          BY <1>0, <2>1, <4>1 DEF TypeInv
        <4>3. b = board /\ p <= seen[b] => p \notin queue'
          BY <2>1, <4>1
        <4>4. board' = board
          BY <2>1 DEF board
        <4> QED BY <1>0, <2>1, <4>2, <4>3, <4>4 DEF Safe, Saving
      <3> QED BY <1>0, <1>2, <2>1, <3>1, CountFacts DEF RepeatInv, RepeatOK, Paid, Spare
    <2> QED BY <2>2 DEF RepeatOK
  <1>5. CASE Nothing(rows)
    <2>1. NextBoard /\ seen' = seen /\ queue' = {}
      BY <1>0, <1>5, NextBoardFacts DEF Nothing
    <2>2. CASE faults' = faults
      BY <1>0, <2>1, <2>2, NextBoardPaid DEF Saving
    <2>3. CASE faults' = faults + 1
      BY <1>0, <2>1, <2>3, FaultPaid
    <2> QED BY <1>1, <2>2, <2>3 DEF Fault
  <1> QED BY <1>1, <1>3, <1>4, <1>5

LEMMA SavePaid ==
  ASSUME RepeatInv, Truncate \/ Write \/ SaveFails
  PROVE  RepeatOK'
  <1>0. TypeInv /\ Saving /\ main' = main /\ main # "down" /\ UNCHANGED <<seen, sent>>
    BY DEF RepeatInv, Truncate, Write, SaveFails, TypeInv, Saving, service, history
  <1>1. CASE Truncate
    <2>1. pc' = "write" /\ UNCHANGED <<turn, queue, faults>>
      BY <1>1 DEF Truncate
    <2>2. ASSUME NEW b \in Boards, NEW p \in Posts PROVE Paid(b, p)' /\ Spare(b, p)'
      BY <1>0, <2>1 DEF RepeatInv, RepeatOK, Paid, Spare, Safe, Saving, board
    <2> QED BY <2>2 DEF RepeatOK
  <1>2. CASE Write
    <2>1. file' = seen /\ NextPost(queue) /\ faults' = faults
      BY <1>2 DEF Write
    <2>2. queue' = queue /\ (queue # {} => turn' = turn /\ pc' = "detail")
      BY <1>0, <2>1, NextPostFacts
    <2>3. ASSUME NEW b \in Boards, NEW p \in Posts PROVE Paid(b, p)' /\ Spare(b, p)'
      <3>1. Safe(b, p) => Safe(b, p)'
        BY <1>0, <2>1, <2>2 DEF Safe, Saving, board
      <3>2. Spare(b, p)'
        <4> SUFFICES ASSUME b = board', p \in queue' PROVE p <= file'[b]
          BY DEF Spare
        <4>1. b = board /\ p \in queue
          BY <2>2 DEF board
        <4> QED BY <1>0, <2>1, <4>1 DEF TypeInv
      <3> QED BY <1>0, <2>1, <3>1, <3>2 DEF RepeatInv, RepeatOK, Paid
    <2> QED BY <2>3 DEF RepeatOK
  <1>3. CASE SaveFails
    <2>1. file' = file /\ NextPost(queue) /\ faults' = faults + 1
      BY <1>3 DEF SaveFails, Fault, service
    <2>2. queue' = queue /\ (queue # {} => turn' = turn)
      BY <1>0, <2>1, NextPostFacts
    <2>3. ASSUME NEW b \in Boards, NEW p \in Posts PROVE Paid(b, p)' /\ Spare(b, p)'
      <3>1. Paid(b, p)'
        BY <1>0, <2>1, CountFacts DEF RepeatInv, RepeatOK, Paid
      <3>2. Spare(b, p)'
        <4> SUFFICES ASSUME b = board', p \in queue' PROVE sent[b][p] + 1 <= faults'
          BY <1>0 DEF Spare
        <4>1. b = board /\ p \in queue /\ pc # "images"
          BY <1>0, <2>2 DEF board, Saving
        <4>2. sent[b][p] <= faults
          BY <1>0, <4>1 DEF RepeatInv, RepeatOK, Paid, Safe
        <4> QED BY <1>0, <2>1, <4>2, CountFacts
      <3> QED BY <3>1, <3>2
    <2> QED BY <2>3 DEF RepeatOK
  <1> QED BY <1>1, <1>2, <1>3

LEMMA SendPaid ==
  ASSUME RepeatInv, SendSummary \/ SummaryRaises
  PROVE  RepeatOK'
  <1> DEFINE q == Max(queue)
  <1>0. /\ TypeInv /\ pc = "handle" /\ board \in Boards /\ queue # {} /\ main # "down"
        /\ q \in queue /\ q \in Posts /\ UNCHANGED <<file, main, seen>>
    BY QueueFacts DEF RepeatInv, SendSummary, SummaryRaises, TypeInv, service
  <1> HIDE DEF q
  <1>1. sent[board][q] <= faults
    BY <1>0 DEF RepeatInv, RepeatOK, Paid, Safe
  <1>2. ASSUME Deliver(q)
        PROVE  /\ sent'[board][q] = sent[board][q] + 1
               /\ \A b \in Boards, p \in Posts : b # board \/ p # q => sent'[b][p] = sent[b][p]
    BY <1>0, <1>2 DEF Deliver, TypeInv
  <1>3. CASE SendSummary
    <2>1. Deliver(q) /\ AfterSummary(q) /\ faults' = faults
      BY <1>3 DEF SendSummary, q
    <2>2. \/ pc' = "images" /\ UNCHANGED <<turn, queue>>
          \/ /\ queue' = queue \ {q}
             /\ queue' = {} => pc' \in {"list", "idle"}
             /\ queue' # {} => turn' = turn /\ pc' = "detail"
      <3>1. CASE q \in WithImages
        BY <2>1, <3>1 DEF AfterSummary
      <3>2. CASE q \notin WithImages
        <4>1. NextPost(queue \ {q})
          BY <2>1, <3>2 DEF AfterSummary
        <4> QED BY <1>0, <4>1, NextPostFacts
      <3> QED BY <3>1, <3>2
    <2>3. ASSUME NEW b \in Boards, NEW p \in Posts, Safe(b, p) PROVE Safe(b, p)'
      <3>1. ~Saving /\ p <= file[b] /\ p <= seen[b] /\ ~(b = board /\ p \in queue)
        BY <1>0, <2>3 DEF Safe, Saving
      <3>2. b = board' /\ p \in queue' => b = board /\ p \in queue
        BY <2>2 DEF board
      <3> QED BY <1>0, <3>1, <3>2 DEF Safe
    <2>4. ASSUME NEW b \in Boards, NEW p \in Posts PROVE Paid(b, p)'
      <3>1. CASE b = board /\ p = q
        <4>1. CASE q <= file[board]
          <5>1. q <= seen[board]
            BY <1>0 DEF TypeInv
          <5>2. b = board' /\ p \in queue' => pc' = "images"
            BY <2>2, <3>1
          <5>3. Safe(b, p)'
            BY <1>0, <3>1, <4>1, <5>1, <5>2 DEF Safe
          <5>4. sent'[b][p] <= faults' \/ sent'[b][p] = 1 + faults'
            BY <1>0, <1>1, <1>2, <2>1, <3>1, CountFacts
          <5> QED BY <5>3, <5>4 DEF Paid
        <4>2. CASE sent[board][q] + 1 <= faults
          BY <1>2, <2>1, <3>1, <4>2 DEF Paid
        <4> QED BY <1>0, <4>1, <4>2 DEF RepeatInv, RepeatOK, Spare
      <3>2. CASE b # board \/ p # q
        <4>1. sent'[b][p] = sent[b][p]
          BY <1>2, <2>1, <3>2
        <4> QED BY <2>1, <2>3, <4>1 DEF RepeatInv, RepeatOK, Paid
      <3> QED BY <3>1, <3>2
    <2>5. ASSUME NEW b \in Boards, NEW p \in Posts PROVE Spare(b, p)'
      <3> SUFFICES ASSUME b = board', p \in queue', pc' \in {"detail", "handle"}
                   PROVE  p <= file'[b] \/ sent'[b][p] + 1 <= faults'
        BY DEF Spare
      <3>1. b = board /\ p \in queue /\ p # q
        BY <2>2 DEF board
      <3>2. sent'[b][p] = sent[b][p]
        BY <1>2, <2>1, <3>1
      <3> QED BY <1>0, <2>1, <3>1, <3>2 DEF RepeatInv, RepeatOK, Spare
    <2> QED BY <2>4, <2>5 DEF RepeatOK
  <1>4. CASE SummaryRaises
    <2>1. /\ Deliver(q) \/ UNCHANGED sent
          /\ faults' = faults + 1 /\ queue' = {}
      BY <1>0, <1>4, NextBoardFacts DEF SummaryRaises, Fault, q
    <2>2. CASE UNCHANGED sent
      BY <2>1, <2>2, FaultPaid
    <2>3. CASE Deliver(q)
      <3>1. ASSUME NEW b \in Boards, NEW p \in Posts PROVE Paid(b, p)' /\ Spare(b, p)'
        <4>1. sent'[b][p] <= faults + 1
          BY <1>0, <1>1, <1>2, <2>3, CountFacts DEF RepeatInv, RepeatOK, Paid
        <4> QED BY <2>1, <4>1 DEF Paid, Spare
      <3> QED BY <3>1 DEF RepeatOK
    <2> QED BY <2>1, <2>2, <2>3
  <1> QED BY <1>3, <1>4

LEMMA RepeatStep == RepeatInv /\ [Next]_vars => RepeatInv'
  <1> SUFFICES ASSUME RepeatInv, [Next]_vars PROVE RepeatOK'
    BY TypeStep DEF RepeatInv
  <1>0. TypeInv
    BY DEF RepeatInv
  <1>1. CASE \/ \E b \in Boards : Publish(b)
             \/ Signal \/ Stop \/ Close \/ Expire \/ Fire \/ Detail \/ UNCHANGED vars
    <2>1. /\ UNCHANGED <<file, seen, turn, queue, faults, sent>>
          /\ main = "down" => main' = "down"
          /\ pc' = pc \/ (pc = "idle" /\ pc' = "list") \/ (pc = "detail" /\ pc' = "handle")
      BY <1>1 DEF Publish, Signal, Stop, Close, Expire, Fire, Detail, vars, service, job,
                  history, Scheduled
    <2> QED BY <2>1, CalmPaid
  <1>2. CASE Start \/ Exit
    <2>1. /\ pc = "idle" /\ pc' = "idle" /\ queue = {} /\ queue' = {}
          /\ UNCHANGED <<file, turn, faults, sent>>
          /\ main' = "down" \/ seen' = file
      BY <1>0, <1>2, QueueFacts DEF Start, Exit, history, TypeInv
    <2>2. ASSUME NEW b \in Boards, NEW p \in Posts PROVE Paid(b, p)' /\ Spare(b, p)'
      BY <2>1 DEF RepeatInv, RepeatOK, Paid, Spare, Safe, Saving
    <2> QED BY <2>2 DEF RepeatOK
  <1>3. CASE Crash
    BY <1>3, FaultPaid DEF Crash, Fault, history
  <1>4. CASE FetchRaises \/ SendImages
    <2>1. NextBoard /\ ~Saving /\ UNCHANGED <<file, main, seen, sent>> /\ queue' = {}
      BY <1>0, <1>4, NextBoardFacts DEF FetchRaises, SendImages, service, history, Saving
    <2>2. faults' = faults \/ faults' = faults + 1
      BY <1>4 DEF FetchRaises, SendImages, Fault
    <2> QED BY <2>1, <2>2, NextBoardPaid, FaultPaid
  <1> QED BY <1>1, <1>2, <1>3, <1>4, ListPaid, SavePaid, SendPaid DEF Next, Job

(* Each variable stays in its range, and no post is announced more often     *)
(* than once and once more for each failure.                                 *)
THEOREM TypeCorrect == Spec => []TypeOK
  <1>1. RepeatInv => TypeOK
    <2> SUFFICES ASSUME RepeatInv PROVE TypeOK
      OBVIOUS
    <2>0. TypeInv /\ MaxFaults \in Nat
      BY BoardFacts DEF RepeatInv
    <2>1. /\ newest \in [Boards -> Posts \cup {0}] /\ file \in [Boards -> Posts \cup {0}]
          /\ seen \in [Boards -> Posts \cup {0}]
      BY <2>0, BoardFacts DEF TypeInv
    <2>2. ASSUME NEW b \in Boards, NEW p \in Posts PROVE sent[b][p] \in 0..MaxFaults + 1
      <3>1. sent[b][p] \in Nat /\ sent[b][p] <= faults + 1 /\ faults <= MaxFaults /\ faults \in Nat
        BY <2>0, CountFacts DEF RepeatInv, RepeatOK, Paid, TypeInv
      <3> QED BY <2>0, <3>1
    <2>3. sent \in [Boards -> [Posts -> 0..MaxFaults + 1]]
      BY <2>0, <2>2 DEF TypeInv
    <2> QED BY <2>0, <2>1, <2>3 DEF TypeInv, TypeOK
  <1> QED BY <1>1, RepeatInit, RepeatStep, PTL DEF Spec

(* A stop and a start, at whatever point of a poll, repeat no announcement.  *)
THEOREM RepeatsCorrect == Spec => []RepeatsPaidByFaults
  <1>1. RepeatInv => RepeatsPaidByFaults
    BY CountFacts DEF RepeatInv, RepeatOK, Paid, RepeatsPaidByFaults
  <1> QED BY <1>1, RepeatInit, RepeatStep, PTL DEF Spec

-----------------------------------------------------------------------------
(* Without a failure the tracker and, once written, the file know a board   *)
(* from the moment it is first listed, and never fall behind what it held   *)
(* then.                                                                    *)
Known(b, n) == (n = 0 /\ first[b] = 0) \/ (0 < first[b] /\ first[b] <= n)
KnownOK(b) == (main # "down" => Known(b, seen[b])) /\ (~Saving => Known(b, file[b]))
NewOnly == \A p \in queue : first[board] > 0 /\ p > first[board]
Silent  == \A b \in Boards, p \in Posts : sent[b][p] > 0 => first[b] > 0 /\ p > first[b]
SpamOK == faults = 0 => (\A b \in Boards : KnownOK(b)) /\ NewOnly /\ Silent
SpamInv == TypeInv /\ SpamOK

LEMMA FirstFacts ==
  ASSUME TypeInv, NEW b \in Boards
  PROVE  first[b] \in Nat /\ seen[b] \in Nat /\ file[b] \in Nat /\ newest[b] \in Nat
  <1>1. first[b] \in Posts \cup {0} /\ seen[b] \in Nat /\ file[b] \in Nat /\ newest[b] \in Nat
    BY DEF TypeInv
  <1> QED BY <1>1, BoardFacts

LEMMA SpamInit == Init => SpamInv
  <1> SUFFICES ASSUME Init PROVE SpamOK
    BY TypeInit DEF SpamInv
  <1>1. (\A b \in Boards : KnownOK(b)) /\ NewOnly /\ Silent
    BY DEF Init, Empty, KnownOK, Known, NewOnly, Silent
  <1> QED BY <1>1 DEF SpamOK

LEMMA ListSpam ==
  ASSUME SpamInv, List, faults = 0, faults' = 0
  PROVE  (\A b \in Boards : KnownOK(b)') /\ NewOnly' /\ Silent'
  <1>0. /\ TypeInv /\ pc = "list" /\ queue = {} /\ board \in Boards /\ main # "down"
        /\ ~Saving /\ UNCHANGED <<file, main, sent>>
        /\ (\A b \in Boards : KnownOK(b)) /\ NewOnly /\ Silent
    BY QueueFacts DEF SpamInv, SpamOK, List, TypeInv, service, Saving
  <1>1. PICK rows \in SUBSET Page :
           /\ rows = {} => Nothing(rows)
           /\ Register(rows) \/ Take(rows) \/ Nothing(rows)
           /\ (rows = Page /\ faults' = faults) \/ Fault
    BY <1>0, ListFacts
  <1>2. rows = Page
    BY <1>1 DEF Fault
  <1>3. CASE rows # {} /\ Register(rows)
    <2>1. PICK m \in rows :
           /\ \A p \in rows : p <= m
           /\ m \in 1..newest[board] /\ newest[board] \in Posts
           /\ seen[board] = 0 /\ seen' = [seen EXCEPT ![board] = m] /\ pc' = "save"
           /\ first' = [first EXCEPT ![board] = IF @ = 0 THEN newest[board] ELSE @]
           /\ UNCHANGED <<turn, queue, taken>>
      BY <1>0, <1>3, RegisterFacts
    <2>2. first[board] = 0
      BY <1>0, <2>1, FirstFacts DEF KnownOK, Known
    <2>3. m = newest[board] /\ newest[board] > 0
      <3>1. newest[board] \in Nat /\ newest[board] > 0 /\ PageSize \in Nat /\ PageSize > 0
        BY <1>0, <2>1, FirstFacts, BoardFacts
      <3>2. loggedIn
        BY <1>2, <1>3 DEF Page
      <3>3. newest[board] \in Page
        BY <3>1, <3>2 DEF Page
      <3> QED BY <1>2, <2>1, <3>1, <3>3
    <2>4. /\ first'[board] = newest[board] /\ seen'[board] = newest[board]
          /\ \A b \in Boards : b # board => first'[b] = first[b] /\ seen'[b] = seen[b]
      BY <1>0, <2>1, <2>2, <2>3 DEF TypeInv
    <2>5. ASSUME NEW b \in Boards PROVE KnownOK(b)'
      <3>1. newest[board] \in Nat
        BY <1>0, FirstFacts
      <3> QED BY <1>0, <2>1, <2>3, <2>4, <3>1 DEF KnownOK, Known, Saving
    <2>6. NewOnly'
      BY <1>0, <2>1 DEF NewOnly
    <2>7. Silent'
      BY <1>0, <2>2, <2>4 DEF Silent
    <2> QED BY <2>5, <2>6, <2>7
  <1>4. CASE Take(rows)
    <2>1. PICK m \in queue' :
           /\ queue' = {p \in rows : p > seen[board]} /\ queue' \subseteq Posts
           /\ m \in Of(board) /\ m > seen[board] /\ seen[board] # 0
           /\ seen' = [seen EXCEPT ![board] = m] /\ pc' = "save" /\ UNCHANGED <<turn, first>>
      BY <1>0, <1>4, TakeFacts
    <2>2. 0 < first[board] /\ first[board] <= seen[board]
      BY <1>0, <2>1 DEF KnownOK, Known
    <2>3. m \in Nat
      BY <1>0, <2>1, BoardFacts
    <2>4. ASSUME NEW b \in Boards PROVE KnownOK(b)'
      <3>1. Known(b, seen'[b])
        <4>1. CASE b = board
          <5>1. seen'[b] = m
            BY <1>0, <2>1, <4>1 DEF TypeInv
          <5> QED BY <1>0, <2>1, <2>2, <2>3, <4>1, <5>1, FirstFacts DEF Known
        <4>2. CASE b # board
          <5>1. seen'[b] = seen[b]
            BY <1>0, <2>1, <4>2 DEF TypeInv
          <5> QED BY <1>0, <5>1 DEF KnownOK
        <4> QED BY <4>1, <4>2
      <3> QED BY <2>1, <3>1 DEF KnownOK, Known, Saving
    <2>5. NewOnly'
      <3>1. board' = board
        BY <2>1 DEF board
      <3>2. ASSUME NEW p \in queue' PROVE first[board] > 0 /\ p > first[board]
        <4>1. p > seen[board] /\ p \in Nat
          BY <2>1, BoardFacts
        <4> QED BY <1>0, <2>2, <4>1, FirstFacts
      <3> QED BY <2>1, <3>1, <3>2 DEF NewOnly
    <2>6. Silent'
      BY <1>0, <2>1 DEF Silent
    <2> QED BY <2>4, <2>5, <2>6
  <1>5. CASE Nothing(rows)
    <2>1. UNCHANGED <<seen, first>> /\ queue' = {} /\ pc' \in {"list", "idle"}
      BY <1>0, <1>5, NextBoardFacts DEF Nothing
    <2> QED BY <1>0, <2>1 DEF KnownOK, Known, NewOnly, Silent, Saving
  <1> QED BY <1>1, <1>3, <1>4, <1>5

LEMMA SpamStep == SpamInv /\ [Next]_vars => SpamInv'
  <1> SUFFICES ASSUME SpamInv, [Next]_vars, faults' = 0
               PROVE  (\A b \in Boards : KnownOK(b)') /\ NewOnly' /\ Silent'
    BY TypeStep DEF SpamInv, SpamOK
  <1>1. TypeInv /\ TypeInv' /\ faults \in Nat
    BY TypeStep, QueueFacts DEF SpamInv
  <1>2. ~Fault
    BY <1>1 DEF Fault
  <1>3. CASE List
    <2>1. faults = 0
      BY <1>1, <1>2, <1>3 DEF List
    <2> QED BY <1>3, <2>1, ListSpam
  <1>4. CASE ~List
    <2>1. UNCHANGED <<first, faults>>
      BY <1>2, <1>4 DEF Next, Job, Publish, Start, Signal, Stop, Close, Exit, Crash, Expire, Fire,
                  Truncate, Write, SaveFails, Detail, FetchRaises, SendSummary,
                  SummaryRaises, SendImages, vars, service, job, history
    <2>2. (\A b \in Boards : KnownOK(b)) /\ NewOnly /\ Silent
      BY <2>1 DEF SpamInv, SpamOK
    <2>3. CASE \/ \E b \in Boards : Publish(b)
               \/ Signal \/ Stop \/ Close \/ Expire \/ Fire \/ Detail \/ UNCHANGED vars
      <3>1. /\ UNCHANGED <<file, seen, turn, queue, sent>> /\ (main = "down" => main' = "down")
            /\ Saving' = Saving
        BY <2>3 DEF Publish, Signal, Stop, Close, Expire, Fire, Detail, vars, service, job,
                    history, Scheduled, Saving
      <3> QED BY <2>1, <2>2, <3>1 DEF KnownOK, Known, NewOnly, Silent, board
    <2>4. CASE Start \/ Exit
      <3>1. /\ ~Saving /\ ~Saving' /\ UNCHANGED <<file, turn, queue, sent>>
            /\ main' = "down" \/ seen' = file
        BY <1>1, <2>4 DEF Start, Exit, history, TypeInv, Saving
      <3> QED BY <2>1, <2>2, <3>1 DEF KnownOK, Known, NewOnly, Silent, board
    <2>5. CASE Truncate
      <3>1. pc' = "write" /\ UNCHANGED <<main, seen, turn, queue, sent>>
        BY <2>5 DEF Truncate, history
      <3> QED BY <2>1, <2>2, <3>1 DEF KnownOK, Known, NewOnly, Silent, board, Saving
    <2>6. CASE Write
      <3>1. main # "down" /\ main' = main /\ seen' = seen /\ sent' = sent /\ file' = seen
        BY <1>1, <2>6 DEF Write, history, TypeInv
      <3>2. queue' = queue /\ (queue # {} => turn' = turn)
        BY <1>1, <2>6, NextPostFacts DEF Write
      <3> QED BY <2>1, <2>2, <3>1, <3>2 DEF KnownOK, Known, NewOnly, Silent, board
    <2>7. CASE FetchRaises \/ SendImages
      <3>1. ~Saving /\ UNCHANGED <<file, main, seen, sent>> /\ queue' = {}
        BY <1>1, <2>7, NextBoardFacts DEF FetchRaises, SendImages, service, history, Saving
      <3> QED BY <2>1, <2>2, <3>1 DEF KnownOK, Known, NewOnly, Silent
    <2>8. CASE SendSummary
      <3> DEFINE q == Max(queue)
      <3>1. /\ board \in Boards /\ q \in queue /\ q \in Posts /\ ~Saving
            /\ UNCHANGED <<file, main, seen>>
            /\ Deliver(q) /\ AfterSummary(q)
        BY <1>1, <2>8, QueueFacts DEF SendSummary, service, Saving
      <3> HIDE DEF q
      <3>2. queue' \subseteq queue /\ (queue' # {} => turn' = turn)
        <4>1. CASE q \in WithImages
          BY <3>1, <4>1 DEF AfterSummary
        <4>2. CASE q \notin WithImages
          <5>1. NextPost(queue \ {q})
            BY <3>1, <4>2 DEF AfterSummary
          <5> QED BY <1>1, <5>1, NextPostFacts
        <4> QED BY <4>1, <4>2
      <3>3. NewOnly'
        BY <2>1, <2>2, <3>2 DEF NewOnly, board
      <3>4. Silent'
        <4>1. \A b \in Boards, p \in Posts : sent'[b][p] = sent[b][p] \/ (b = board /\ p = q)
          BY <1>1, <3>1 DEF Deliver, TypeInv
        <4> QED BY <2>1, <2>2, <3>1, <4>1 DEF Silent, NewOnly
      <3> QED BY <2>1, <2>2, <3>1, <3>3, <3>4 DEF KnownOK, Known, Saving
    <2> QED BY <1>2, <1>4, <2>3, <2>4, <2>5, <2>6, <2>7, <2>8
            DEF Next, Job, Crash, SaveFails, SummaryRaises
  <1> QED BY <1>3, <1>4

(* What a board held when it was first looked at is never announced, whatever *)
(* stops and starts follow.                                                  *)
THEOREM SpamCorrect == Spec => []NoSpam
  <1>1. SpamInv => NoSpam
    BY DEF SpamInv, SpamOK, Silent, NoSpam
  <1> QED BY <1>1, SpamInit, SpamStep, PTL DEF Spec

-----------------------------------------------------------------------------
(* What the job holds was found new, was cut off when the browser was closed *)
(* under it, and is dropped at the newest post if that one has images.       *)
HeldOK ==
  /\ queue \subseteq taken[board]
  /\ main = "closed" => queue \subseteq cut[board]
  /\ pc = "images" => /\ Max(queue) \in WithImages /\ sent[board][Max(queue)] > 0
                      /\ board \notin ImageBoards
Excused(b, p) == \/ sent[b][p] # 0 \/ (b = board /\ p \in queue) \/ faults > 0
                 \/ p \in cut[b] \/ \E q \in taken[b] \cap WithImages : q > p
LossGoal == \A b \in Boards \ ImageBoards : \A p \in taken[b] : Excused(b, p)
LossOK == HeldOK /\ LossGoal
LossInv == TypeInv /\ LossOK

LEMMA LossInit == Init => LossInv
  <1> SUFFICES ASSUME Init PROVE LossOK
    BY TypeInit DEF LossInv
  <1>1. board \in Boards
    BY QueueFacts, TypeInit
  <1> QED BY <1>1 DEF Init, LossOK, LossGoal, HeldOK

(* A step that finds nothing new: only the posts that leave the queue need   *)
(* an excuse.                                                                *)
LEMMA DropExcused ==
  ASSUME LossInv, UNCHANGED taken, faults' \in Nat, faults' >= faults,
         \A b \in Boards : cut[b] \subseteq cut'[b],
         \A b \in Boards, p \in Posts : sent[b][p] # 0 => sent'[b][p] # 0,
         board \notin ImageBoards =>
           \A p \in queue : \/ board' = board /\ p \in queue'
                            \/ sent'[board][p] # 0 \/ faults' > 0 \/ p \in cut'[board]
                            \/ \E q \in taken[board] \cap WithImages : q > p
  PROVE  LossGoal'
  <1>0. faults \in Nat
    BY QueueFacts DEF LossInv
  <1> SUFFICES ASSUME NEW b \in Boards \ ImageBoards, NEW p \in taken[b]
               PROVE  Excused(b, p)'
    BY DEF LossGoal
  <1>1. Excused(b, p) /\ p \in Posts
    BY DEF LossInv, LossOK, LossGoal, TypeInv
  <1>2. CASE b = board /\ p \in queue
    BY <1>1, <1>2 DEF Excused
  <1>3. CASE ~(b = board /\ p \in queue)
    BY <1>0, <1>1, <1>3 DEF Excused
  <1> QED BY <1>2, <1>3

(* The labels, the numbers and the main thread, but for closing the browser. *)
LEMMA CalmLoss ==
  ASSUME LossInv, UNCHANGED <<turn, queue, faults, sent, taken>>,
         \A b \in Boards : cut[b] \subseteq cut'[b],
         main' = "closed" => main = "closed" \/ queue \subseteq cut'[board],
         pc' = "images" => pc = "images"
  PROVE  LossOK'
  <1>1. board' = board /\ board \in Boards /\ faults \in Nat
    BY QueueFacts DEF LossInv, board
  <1>2. HeldOK'
    BY <1>1 DEF LossInv, LossOK, HeldOK
  <1>3. LossGoal'
    BY <1>1, DropExcused
  <1> QED BY <1>2, <1>3 DEF LossOK

(* The job leaves the queue empty and goes to the next board.                *)
LEMMA EmptyLoss ==
  ASSUME LossInv, queue' = {}, pc' # "images", UNCHANGED <<taken, cut>>,
         \A b \in Boards, p \in Posts : sent[b][p] # 0 => sent'[b][p] # 0,
         faults' \in Nat, faults' >= faults,
         \/ faults' > 0 \/ board \in ImageBoards
         \/ \A p \in queue : \/ sent'[board][p] # 0 \/ p \in cut[board]
                              \/ \E q \in taken[board] \cap WithImages : q > p
  PROVE  LossOK'
  <1>1. HeldOK'
    BY DEF HeldOK
  <1>2. LossGoal'
    BY DropExcused
  <1> QED BY <1>1, <1>2 DEF LossOK

LEMMA ListLoss ==
  ASSUME LossInv, List
  PROVE  LossOK'
  <1>0. /\ TypeInv /\ pc = "list" /\ queue = {} /\ board \in Boards /\ main # "closed"
        /\ UNCHANGED <<main, sent, cut>> /\ faults \in Nat
    BY QueueFacts DEF LossInv, List, TypeInv, service
  <1>1. PICK rows \in SUBSET Page :
           /\ rows = {} => Nothing(rows)
           /\ Register(rows) \/ Take(rows) \/ Nothing(rows)
           /\ (rows = Page /\ faults' = faults) \/ Fault
    BY <1>0, ListFacts
  <1>2. faults' >= faults /\ faults' \in Nat
    BY <1>0, <1>1, FaultType
  <1>3. CASE rows # {} /\ Register(rows)
    <2>1. pc' = "save" /\ UNCHANGED <<turn, queue, taken>>
      BY <1>3 DEF Register
    <2> QED BY <1>0, <1>2, <2>1, EmptyLoss
  <1>4. CASE Take(rows)
    <2>1. /\ taken' = [taken EXCEPT ![board] = @ \cup queue'] /\ pc' = "save" /\ board' = board
      BY <1>0, <1>4, TakeFacts DEF board
    <2>2. \A b \in Boards : taken'[b] = IF b = board THEN taken[b] \cup queue' ELSE taken[b]
      BY <1>0, <2>1 DEF TypeInv
    <2>3. HeldOK'
      BY <1>0, <2>1, <2>2 DEF HeldOK
    <2>4. ASSUME NEW b \in Boards \ ImageBoards, NEW p \in taken'[b] PROVE Excused(b, p)'
      <3>1. CASE p \in taken[b]
        <4>1. \/ sent[b][p] # 0 \/ faults > 0 \/ p \in cut[b]
              \/ \E q \in taken[b] \cap WithImages : q > p
          BY <1>0, <3>1 DEF LossInv, LossOK, LossGoal, Excused
        <4>2. b \in Boards /\ taken[b] \subseteq taken'[b]
          BY <2>2
        <4>3. faults > 0 => faults' > 0
          BY <1>0, <1>2
        <4> QED BY <1>0, <4>1, <4>2, <4>3 DEF Excused
      <3>2. CASE p \notin taken[b]
        BY <2>1, <2>2, <2>4, <3>2 DEF Excused
      <3> QED BY <3>1, <3>2
    <2> QED BY <2>3, <2>4 DEF LossOK, LossGoal
  <1>5. CASE Nothing(rows)
    <2>1. taken' = taken /\ queue' = {} /\ pc' # "images"
      BY <1>0, <1>5, NextBoardFacts DEF Nothing
    <2> QED BY <1>0, <1>2, <2>1, EmptyLoss
  <1> QED BY <1>1, <1>3, <1>4, <1>5

LEMMA SaveLoss ==
  ASSUME LossInv, Write \/ SaveFails
  PROVE  LossOK'
  <1>0. TypeInv /\ main' = main /\ UNCHANGED <<sent, taken, cut>> /\ NextPost(queue)
    BY DEF LossInv, Write, SaveFails, history, service
  <1>1. /\ faults' >= faults /\ faults' \in Nat
    BY <1>0, FaultType DEF Write, SaveFails
  <1>2. /\ queue' = queue
        /\ queue = {} => pc' \in {"list", "idle"}
        /\ queue # {} => turn' = turn /\ pc' = "detail"
    BY <1>0, NextPostFacts
  <1>3. HeldOK'
    BY <1>0, <1>2 DEF LossInv, LossOK, HeldOK, board
  <1>4. LossGoal'
    <2>1. queue # {} => board' = board
      BY <1>2 DEF board
    <2> QED BY <1>0, <1>1, <1>2, <2>1, DropExcused
  <1> QED BY <1>3, <1>4 DEF LossOK

LEMMA SendLoss ==
  ASSUME LossInv, SendSummary \/ SummaryRaises
  PROVE  LossOK'
  <1> DEFINE q == Max(queue)
  <1>0. /\ TypeInv /\ board \in Boards /\ q \in queue /\ q \in Posts /\ faults \in Nat
        /\ UNCHANGED <<main, taken, cut>> /\ board \notin ImageBoards /\ queue \subseteq Posts
    BY QueueFacts DEF LossInv, SendSummary, SummaryRaises, service
  <1>1. ASSUME Deliver(Max(queue))
        PROVE  /\ sent'[board][q] = sent[board][q] + 1 /\ sent'[board][q] > 0
               /\ \A b \in Boards, p \in Posts : sent[b][p] # 0 => sent'[b][p] # 0
    <2>1. sent[board][q] \in Nat
      BY <1>0, CountFacts
    <2>2. /\ sent'[board][q] = sent[board][q] + 1
          /\ \A b \in Boards, p \in Posts : sent'[b][p] = sent[b][p] \/ (b = board /\ p = q)
      BY <1>0, <1>1 DEF Deliver, TypeInv
    <2> QED BY <2>1, <2>2
  <1>2. CASE SendSummary
    <2>1. Deliver(q) /\ AfterSummary(q) /\ faults' = faults
      BY <1>2 DEF SendSummary
    <2>2. CASE q \in WithImages
      <3>1. pc' = "images" /\ UNCHANGED <<turn, queue>> /\ board' = board
        BY <2>1, <2>2 DEF AfterSummary, board
      <3>2. HeldOK'
        BY <1>0, <1>1, <2>1, <2>2, <3>1 DEF LossInv, LossOK, HeldOK
      <3>3. LossGoal'
        BY <1>0, <1>1, <2>1, <3>1, DropExcused
      <3> QED BY <3>2, <3>3 DEF LossOK
    <2>3. CASE q \notin WithImages
      <3>1. NextPost(queue \ {q})
        BY <2>1, <2>3 DEF AfterSummary
      <3>2. /\ queue' = queue \ {q} /\ pc' \in {"list", "idle", "detail"}
            /\ queue' # {} => board' = board
        BY <1>0, <3>1, NextPostFacts DEF board
      <3>3. HeldOK'
        BY <1>0, <3>2 DEF LossInv, LossOK, HeldOK
      <3>4. \A p \in queue : (board' = board /\ p \in queue') \/ sent'[board][p] # 0
        BY <1>1, <2>1, <3>2
      <3>5. LossGoal'
        BY <1>0, <1>1, <2>1, <3>4, DropExcused
      <3> QED BY <3>3, <3>5 DEF LossOK
    <2> QED BY <2>2, <2>3
  <1>3. CASE SummaryRaises
    <2>1. /\ Deliver(q) \/ UNCHANGED sent
          /\ faults' = faults + 1 /\ queue' = {} /\ pc' # "images"
      BY <1>0, <1>3, NextBoardFacts DEF SummaryRaises, Fault
    <2>2. \A b \in Boards, p \in Posts : sent[b][p] # 0 => sent'[b][p] # 0
      BY <1>1, <2>1
    <2> QED BY <1>0, <2>1, <2>2, EmptyLoss
  <1> QED BY <1>2, <1>3

(* The images of the newest post cannot be sent: it is announced, and what   *)
(* the board still held is older.                                            *)
LEMMA ImagesLoss ==
  ASSUME LossInv, SendImages
  PROVE  LossOK'
  <1>0. /\ TypeInv /\ board \in Boards /\ queue \subseteq Posts /\ faults \in Nat
        /\ UNCHANGED <<sent, taken, cut, faults>> /\ queue' = {} /\ pc' # "images"
    BY QueueFacts, NextBoardFacts DEF LossInv, SendImages, history
  <1>1. CASE board \in ImageBoards
    BY <1>0, <1>1, EmptyLoss
  <1>2. CASE pc = "images"
    <2> DEFINE q == Max(queue)
    <2>1. q \in queue /\ \A p \in queue : p <= q
      BY <1>0, <1>2, QueueFacts
    <2>2. q \in WithImages /\ sent[board][q] > 0 /\ q \in taken[board]
      BY <1>2, <2>1 DEF LossInv, LossOK, HeldOK
    <2>3. ASSUME NEW p \in queue
          PROVE  sent[board][p] # 0 \/ \E r \in taken[board] \cap WithImages : r > p
      <3>1. p \in Nat /\ q \in Nat /\ p <= q
        BY <1>0, <2>1, BoardFacts
      <3>2. CASE p = q
        <4>1. sent[board][q] \in Nat
          BY <1>0, <2>1, CountFacts
        <4> QED BY <2>2, <3>2, <4>1
      <3>3. CASE p # q
        BY <2>2, <3>1, <3>3
      <3> QED BY <3>2, <3>3
    <2> QED BY <1>0, <2>3, EmptyLoss
  <1> QED BY <1>1, <1>2 DEF SendImages

LEMMA LossStep == LossInv /\ [Next]_vars => LossInv'
  <1> SUFFICES ASSUME LossInv, [Next]_vars PROVE LossOK'
    BY TypeStep DEF LossInv
  <1>0. TypeInv /\ faults \in Nat /\ board \in Boards
    BY QueueFacts DEF LossInv
  <1>1. CASE \/ \E b \in Boards : Publish(b)
             \/ Start \/ Signal \/ Stop \/ Exit \/ Expire \/ Fire \/ Truncate \/ Detail
             \/ UNCHANGED vars
    <2>1. /\ UNCHANGED <<turn, queue, faults, sent, taken, cut>>
          /\ main' = "closed" => main = "closed"
          /\ pc' = "images" => pc = "images"
      BY <1>1 DEF Publish, Start, Signal, Stop, Exit, Expire, Fire, Truncate, Detail, vars,
                  service, job, history
    <2> QED BY <2>1, CalmLoss
  <1>2. CASE Close
    <2>1. /\ cut' = [cut EXCEPT ![board] = @ \cup queue]
          /\ UNCHANGED <<turn, queue, pc, faults, sent, taken>>
      BY <1>2 DEF Close, job
    <2>2. queue \subseteq cut'[board] /\ \A b \in Boards : cut[b] \subseteq cut'[b]
      BY <1>0, <2>1 DEF TypeInv
    <2> QED BY <2>1, <2>2, CalmLoss
  <1>3. CASE Crash
    <2>1. /\ queue' = {} /\ pc' = "idle" /\ faults' = faults + 1 /\ UNCHANGED <<sent, taken, cut>>
      BY <1>3 DEF Crash, Fault, history
    <2> QED BY <1>0, <2>1, EmptyLoss
  <1>4. CASE FetchRaises
    <2>1. /\ queue' = {} /\ pc' # "images" /\ UNCHANGED <<sent, taken, cut>>
      BY <1>0, <1>4, NextBoardFacts DEF FetchRaises, history
    <2>2. faults' = faults + 1 \/ (faults' = faults /\ queue \subseteq cut[board])
      BY <1>4 DEF FetchRaises, Fault, LossInv, LossOK, HeldOK
    <2> QED BY <1>0, <2>1, <2>2, EmptyLoss
  <1> QED BY <1>1, <1>2, <1>3, <1>4, ListLoss, SaveLoss, SendLoss, ImagesLoss DEF Next, Job

(* A post the service found new and never announced fell to a failure, to    *)
(* the closing of the browser, or to a newer post with images.               *)
THEOREM LossCorrect == Spec => []LossHasCause
  <1>1. LossInv => LossHasCause
    <2> SUFFICES ASSUME LossInv, NEW b \in Boards \ ImageBoards, NEW p \in taken[b],
                        sent[b][p] = 0, ~(b = board /\ p \in queue)
                 PROVE  \/ faults > 0 \/ p \in cut[b]
                        \/ \E q \in taken[b] \cap WithImages : q > p
      BY DEF LossHasCause
    <2> QED BY DEF LossInv, LossOK, LossGoal, Excused
  <1> QED BY <1>1, LossInit, LossStep, PTL DEF Spec
===============================================================================
