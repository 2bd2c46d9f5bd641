-------------------------- MODULE BatchSingleProofs --------------------------
(***************************************************************************)
(* What holds of BatchMonitor when cron never starts a batch while the     *)
(* last one is still running: every page size, retry bound, number of      *)
(* posts and fault budget, and one process at a time.                      *)
(***************************************************************************)
EXTENDS BatchMonitorProofs, FiniteSetTheorems

SingleRun == \A r, q \in Runs : r = q

\* No run falls back to the file.
AllDb == DbAvailable /\ "dbDown" \notin FaultKinds

\* The board a run is working through, and the boards it has still to list.
InLoop(r, b) == \/ b = Photo /\ pc[r] \in {"sendPhoto", "savePhoto"}
                \/ b = Notice /\ pc[r] \in {"sendNotice", "saveNotice"}
ToList(r, b) == \/ pc[r] = "listPhoto"
                \/ b = Notice /\ pc[r] \in {"sendPhoto", "savePhoto", "listNotice"}

\* With one process, a step is its own or leaves every local alone.
Alone(r) == (Progress(r) \/ Failure(r)) /\ \A q \in Runs : q = r
Quiet == /\ \A r \in Runs : SameLocals(r) /\ maxId'[r] = maxId[r]
         /\ UNCHANGED <<posts, file, sent, gaveUp, faults>>

LEMMA AloneOrQuiet ==
  ASSUME SingleRun, [Next]_vars
  PROVE  Quiet \/ \E r \in Runs : Alone(r)
  <1>1. ASSUME NEW b \in Boards, Publish(b) PROVE Quiet
    BY <1>1 DEF Publish, store, local, SameLocals, Quiet
  <1>2. CASE UNCHANGED vars
    BY <1>2 DEF vars, SameLocals, Quiet
  <1>3. ASSUME NEW r \in Runs, Progress(r) \/ Failure(r) PROVE Alone(r)
    BY <1>3 DEF SingleRun, Alone
  <1> QED BY <1>1, <1>2, <1>3 DEF Next

-----------------------------------------------------------------------------
(* The history and the run: no row is ahead of where the run stands *)

\* The cursor a run loaded is still the newest row of every board it has not
\* listed; nothing it holds is recorded, save for the notice it is recording,
\* whose row can only be the one it is about to write again.
RowsBehind(r) ==
  /\ pc[r] # "idle" => mode[r] = "db"
  /\ \A b \in Boards :
       /\ ToList(r, b) => IsMaxRow(b, lastSeen[r][b])
       /\ InLoop(r, b) => \A a \in articles[r] : \A q \in Recorded(b) :
            q < a \/ (q = a /\ pc[r] = "saveNotice" /\ Current(r, a))
  /\ pc[r] = "saveNotice" =>
       \A p \in articles[r] : Current(r, p) => posts[Notice][p] \in {"none", outcome[r]}

RowInv == DeliveryInv /\ \A r \in Runs : RowsBehind(r)

LEMMA IsMaxRowKept ==
  ASSUME NEW b \in Boards, NEW m, IsMaxRow(b, m), posts'[b] = posts[b]
  PROVE  IsMaxRow(b, m)'
  BY DEF IsMaxRow, Recorded

\* A row is added for one post at most, whatever becomes of the call.
LEMMA RecordedUpsert ==
  ASSUME TypeInv, NEW b \in Boards, NEW p \in Ids, NEW status \in {"SUCCESS", "FAIL"},
         Upsert(b, p, status) \/ UNCHANGED posts
  PROVE  /\ Recorded(b)' \in {Recorded(b), Recorded(b) \cup {p}}
         /\ Upsert(b, p, status) => Recorded(b)' = Recorded(b) \cup {p}
         /\ \A c \in Boards \ {b} : Recorded(c)' = Recorded(c) /\ posts'[c] = posts[c]
  <1>1. posts \in [Boards -> [Ids -> {"none", "SUCCESS", "FAIL"}]]
    BY DEF TypeInv, TypeOK, SharedTypeOK
  <1>2. CASE UNCHANGED posts
    <2>1. Recorded(b)' = Recorded(b)
      BY <1>2 DEF Recorded
    <2>2. Upsert(b, p, status) => p \in Recorded(b)
      BY <1>1, <1>2 DEF Upsert, Recorded
    <2> QED BY <1>2, <2>1, <2>2 DEF Recorded
  <1>3. CASE Upsert(b, p, status)
    <2>1. \A q \in Ids : posts'[b][q] = IF q = p THEN status ELSE posts[b][q]
      BY <1>1, <1>3 DEF Upsert
    <2>2. \A c \in Boards \ {b} : posts'[c] = posts[c]
      BY <1>1, <1>3 DEF Upsert
    <2>3. Recorded(b)' = Recorded(b) \cup {p}
      BY <2>1 DEF Recorded
    <2> QED BY <2>2, <2>3 DEF Recorded
  <1> QED BY <1>2, <1>3

LEMMA RowsBehindKept ==
  ASSUME NEW r \in Runs, RowsBehind(r), SameLocals(r), posts' = posts
  PROVE  RowsBehind(r)'
  BY DEF RowsBehind, SameLocals, ToList, InLoop, IsMaxRow, Recorded, Current

LEMMA RowsBehindStep ==
  ASSUME AllDb, RowInv, NEW r \in Runs, Progress(r) \/ Failure(r)
  PROVE  RowsBehind(r)'
  <1>t. /\ TypeInv /\ RowsBehind(r)
        /\ pc \in [Runs -> Labels] /\ articles \in [Runs -> SUBSET Ids]
        /\ mode \in [Runs -> {"none", "db", "file"}]
        /\ lastSeen \in [Runs -> [Boards -> Cursor]]
        /\ outcome \in [Runs -> {"SUCCESS", "FAIL"}]
    BY DEF RowInv, DeliveryInv, TypeInv, TypeOK, LocalTypeOK
  <1>b. Photo \in Boards /\ Notice \in Boards /\ Photo # Notice
    BY DEF Boards, Photo, Notice
  <1>i. Ids \subseteq Int /\ Cursor \subseteq Int
    BY BoundsAssumption DEF Ids, Cursor
  <1>q. CASE pc'[r] = "idle" \/ (pc'[r] \in {"load", "finally", "writeFile"} /\ mode'[r] = "db")
    BY <1>q DEF RowsBehind, ToList, InLoop
  <1>1. CASE Exit(r)
    BY <1>1, <1>q, <1>t DEF Exit, Goto
  <1>2. CASE Escape(r) /\ pc[r] # "idle"
    BY <1>2, <1>q, <1>t DEF Escape, Goto, RowsBehind
  <1>3. CASE Connect(r) \/ ConnectFails(r) \/ OpenFile(r)
    BY <1>3, <1>q, <1>t DEF AllDb, Connect, ConnectFails, Fault, OpenFile, Goto, RowsBehind
  <1>4. CASE Load(r)
    <2>1. PICK seen \in [Boards -> Cursor] :
            /\ IF mode[r] = "db" THEN \A b \in Boards : IsMaxRow(b, seen[b]) ELSE seen = file
            /\ lastSeen' = [lastSeen EXCEPT ![r] = seen]
      BY <1>4 DEF Load
    <2>2. /\ mode[r] = "db" /\ mode'[r] = "db" /\ pc'[r] = "listPhoto" /\ lastSeen'[r] = seen
          /\ posts' = posts
      BY <1>4, <2>1, <1>t DEF Load, Goto, store, RowsBehind
    <2>3. \A b \in Boards : IsMaxRow(b, seen[b])'
      BY <2>1, <2>2 DEF IsMaxRow, Recorded
    <2> QED BY <2>2, <2>3 DEF RowsBehind, ToList, InLoop
  <1>5. ASSUME NEW b \in Boards, ToList(r, b), articles'[r] = ToProcess(r, b), posts' = posts
        PROVE  \A a \in articles'[r] : \A q \in Recorded(b)' : q < a
    <2>1. \A a \in articles'[r] : a \in Int /\ a > lastSeen[r][b]
      BY <1>5, <1>i DEF ToProcess, NewestOnly, Fresh, Page
    <2>2. \A q \in Recorded(b)' : q \in Int /\ q <= lastSeen[r][b]
      BY <1>5, <1>t, <1>i DEF RowsBehind, IsMaxRow, Recorded
    <2>3. lastSeen[r][b] \in Int
      BY <1>t, <1>i
    <2> QED BY <2>1, <2>2, <2>3
  <1>6. CASE ListPhotos(r)
    <2>1. /\ pc[r] = "listPhoto" /\ mode'[r] = mode[r] /\ lastSeen'[r] = lastSeen[r] /\ posts' = posts
          /\ pc'[r] = IF Fresh(r, Photo) = {} THEN "listNotice" ELSE "sendPhoto"
          /\ Fresh(r, Photo) # {} => articles'[r] = ToProcess(r, Photo)
      BY <1>6, <1>t DEF ListPhotos, List, Goto, store
    <2>2. IsMaxRow(Notice, lastSeen[r][Notice])
      BY <2>1, <1>t, <1>b DEF RowsBehind, ToList
    <2>3. IsMaxRow(Notice, lastSeen[r][Notice])'
      BY <2>1, <2>2 DEF IsMaxRow, Recorded
    <2>4. Fresh(r, Photo) # {} => \A a \in articles'[r] : \A q \in Recorded(Photo)' : q < a
      BY <2>1, <1>5, <1>b DEF ToList
    <2> QED BY <2>1, <2>3, <2>4, <1>t, <1>b DEF RowsBehind, ToList, InLoop
  <1>7. CASE ListNotices(r)
    <2>1. /\ pc[r] = "listNotice" /\ mode'[r] = mode[r] /\ posts' = posts
          /\ pc'[r] = IF Fresh(r, Notice) = {} THEN "finally" ELSE "sendNotice"
          /\ Fresh(r, Notice) # {} => articles'[r] = ToProcess(r, Notice)
      BY <1>7, <1>t DEF ListNotices, List, Goto, store
    <2>4. Fresh(r, Notice) # {} => \A a \in articles'[r] : \A q \in Recorded(Notice)' : q < a
      BY <2>1, <1>5, <1>b DEF ToList
    <2> QED BY <2>1, <2>4, <1>t, <1>b DEF RowsBehind, ToList, InLoop
  <1>8. CASE SendPhoto(r)
    <2>1. /\ pc[r] = "sendPhoto" /\ pc'[r] = "savePhoto" /\ mode'[r] = mode[r]
          /\ articles'[r] = articles[r] /\ lastSeen'[r] = lastSeen[r] /\ posts' = posts
      BY <1>8, <1>t DEF SendPhoto, Goto, local, store
    <2>2. IsMaxRow(Notice, lastSeen[r][Notice])'
      <3>1. IsMaxRow(Notice, lastSeen[r][Notice])
        BY <2>1, <1>t, <1>b DEF RowsBehind, ToList
      <3> QED BY <2>1, <3>1 DEF IsMaxRow, Recorded
    <2>3. \A a \in articles[r] : \A q \in Recorded(Photo)' : q < a
      BY <2>1, <1>t, <1>b DEF RowsBehind, InLoop, Recorded
    <2> QED BY <2>1, <2>2, <2>3, <1>t, <1>b DEF RowsBehind, ToList, InLoop
  <1>9. CASE SavePhoto(r) \/ SavePhotoRaises(r)
    <2>1. PICK p \in articles[r] :
            /\ Current(r, p) /\ NextArticle(r, Photo, p, "sendPhoto", "listNotice")
            /\ Upsert(Photo, p, "SUCCESS") \/ UNCHANGED posts
      BY <1>9 DEF SavePhoto, SavePhotoRaises, Record, UpsertRaises
    <2>2. /\ pc[r] = "savePhoto" /\ pc'[r] \in {"sendPhoto", "listNotice"} /\ p \in Ids
          /\ mode'[r] = mode[r] /\ articles'[r] = articles[r] \ {p}
          /\ lastSeen'[r][Notice] = lastSeen[r][Notice]
      BY <1>9, <2>1, <1>t, <1>b DEF SavePhoto, SavePhotoRaises, NextArticle, Goto
    <2>3. /\ Recorded(Photo)' \subseteq Recorded(Photo) \cup {p}
          /\ posts'[Notice] = posts[Notice]
      BY <2>1, <2>2, <1>t, <1>b, RecordedUpsert
    <2>4. IsMaxRow(Notice, lastSeen[r][Notice])'
      <3>1. IsMaxRow(Notice, lastSeen[r][Notice])
        BY <2>2, <1>t, <1>b DEF RowsBehind, ToList
      <3> QED BY <2>2, <2>3, <3>1 DEF IsMaxRow, Recorded
    <2>5. \A a \in articles'[r] : \A q \in Recorded(Photo)' : q < a
      <3>0. \A a \in articles[r] : a \in Int /\ p \in Int /\ p <= a
        BY <2>1, <2>2, <1>t, <1>i DEF Current
      <3>1. \A a \in articles[r] : a # p => p < a
        BY <3>0
      <3>2. \A a \in articles[r] : \A q \in Recorded(Photo) : q < a
        BY <2>2, <1>t, <1>b DEF RowsBehind, InLoop
      <3> QED BY <2>2, <2>3, <3>1, <3>2
    <2> QED BY <2>2, <2>4, <2>5, <1>t, <1>b DEF RowsBehind, ToList, InLoop
  <1>10. CASE SendNotice(r) \/ NoticeAttemptRaises(r)
    <2>1. /\ pc[r] = "sendNotice" /\ pc'[r] \in {"sendNotice", "saveNotice"}
          /\ mode'[r] = mode[r] /\ articles'[r] = articles[r] /\ posts' = posts
      BY <1>10, <1>t DEF SendNotice, NoticeAttemptRaises, Goto, store
    <2>2. \A a \in articles[r] : \A q \in Recorded(Notice) : q < a
      BY <2>1, <1>t, <1>b DEF RowsBehind, InLoop
    <2>3. \A p \in articles[r] : posts[Notice][p] = "none"
      <3>1. SUFFICES ASSUME NEW p \in articles[r], p \in Recorded(Notice) PROVE FALSE
        BY <1>t DEF Recorded
      <3>2. p < p /\ p \in Int
        BY <3>1, <2>2, <1>t, <1>i
      <3> QED BY <3>2
    <2> QED BY <2>1, <2>2, <2>3, <1>t, <1>b DEF RowsBehind, ToList, InLoop, Recorded
  <1>11. CASE SaveNotice(r)
    <2>1. PICK p \in articles[r] :
            /\ Current(r, p) /\ NextArticle(r, Notice, p, "sendNotice", "finally")
            /\ Upsert(Notice, p, outcome[r]) \/ UNCHANGED posts
      BY <1>11 DEF SaveNotice, Record
    <2>2. /\ pc[r] = "saveNotice" /\ pc'[r] \in {"sendNotice", "finally"} /\ p \in Ids
          /\ mode'[r] = mode[r] /\ articles'[r] = articles[r] \ {p}
      BY <1>11, <2>1, <1>t, <1>b DEF SaveNotice, NextArticle, Goto
    <2>3. Recorded(Notice)' \subseteq Recorded(Notice) \cup {p}
      BY <2>1, <2>2, <1>t, <1>b, RecordedUpsert
    <2>5. \A a \in articles'[r] : \A q \in Recorded(Notice)' : q < a
      <3>0. \A a \in articles[r] : a \in Int /\ p \in Int /\ p <= a
        BY <2>1, <2>2, <1>t, <1>i DEF Current
      <3>a. \A a \in articles'[r] : a \in articles[r] /\ p < a
        BY <2>2, <3>0
      <3>b. \A a \in articles'[r] : ~Current(r, a)
        BY <2>1, <3>0, <3>a DEF Current
      <3>1. \A a \in articles'[r] : p < a /\ ~Current(r, a)
        BY <3>a, <3>b
      <3>2. \A a \in articles'[r] : \A q \in Recorded(Notice) : q < a
        BY <2>2, <3>1, <1>t, <1>b DEF RowsBehind, InLoop
      <3> QED BY <2>3, <3>1, <3>2
    <2> QED BY <2>2, <2>5, <1>t, <1>b DEF RowsBehind, ToList, InLoop
  <1>12. CASE SaveNoticeRaises(r)
    <2>1. PICK p \in articles[r] :
            Current(r, p) /\ (Upsert(Notice, p, outcome[r]) \/ UNCHANGED posts)
      BY <1>12 DEF SaveNoticeRaises, UpsertRaises
    <2>2. /\ pc[r] = "saveNotice" /\ p \in Ids /\ mode'[r] = mode[r] /\ mode[r] = "db"
          /\ \/ pc'[r] = "finally"
             \/ pc'[r] = "saveNotice" /\ articles'[r] = articles[r] /\ outcome'[r] = outcome[r]
      BY <1>12, <2>1, <1>t, <1>b DEF SaveNoticeRaises, Goto
    <2>3. Recorded(Notice)' \subseteq Recorded(Notice) \cup {p}
      BY <2>1, <2>2, <1>t, <1>b, RecordedUpsert
    <2>4. posts'[Notice][p] \in {"none", outcome[r]}
      BY <2>1, <2>2, <1>t, <1>b, UpsertRow DEF RowsBehind
    <2>5. CASE pc'[r] = "finally"
      BY <2>2, <2>5, <1>q
    <2>6. CASE pc'[r] = "saveNotice" /\ articles'[r] = articles[r] /\ outcome'[r] = outcome[r]
      <3>1. \A a \in articles[r] : \A q \in Recorded(Notice)' : q < a \/ (q = a /\ Current(r, a))
        <4>1. \A a \in articles[r] : p < a \/ p = a
          BY <2>1, <1>t, <1>i DEF Current
        <4>2. \A a \in articles[r] : \A q \in Recorded(Notice) : q < a \/ (q = a /\ Current(r, a))
          BY <2>2, <1>t, <1>b DEF RowsBehind, InLoop
        <4> QED BY <2>1, <2>3, <4>1, <4>2
      <3>2. \A q \in articles[r] : Current(r, q) => q = p
        BY <2>1, <1>t, OneCurrent
      <3>3. \A a \in articles[r] : Current(r, a)' <=> Current(r, a)
        BY <2>6 DEF Current
      <3> QED BY <2>2, <2>4, <2>6, <3>1, <3>2, <3>3, <1>b DEF RowsBehind, ToList, InLoop
    <2> QED BY <2>2, <2>5, <2>6
  <1> QED
    BY <1>1, <1>2, <1>3, <1>4, <1>6, <1>7, <1>8, <1>9, <1>10, <1>11, <1>12
    DEF Progress, Failure, AbortBeforeWork, FinishDb, WriteFile, SaveFileFails, Crash,
        ListRaises, SendPhotoRaises, SendPoisonedPhoto

LEMMA RowInit == Init => RowInv
  <1> SUFFICES ASSUME Init PROVE RowInv
    OBVIOUS
  <1>1. DeliveryInv
    BY DeliveryInit
  <1> QED BY <1>1 DEF Init, RowInv, RowsBehind, ToList, InLoop

LEMMA RowInvStep == ASSUME SingleRun, AllDb PROVE RowInv /\ [Next]_vars => RowInv'
  <1> SUFFICES ASSUME RowInv, [Next]_vars PROVE RowInv'
    OBVIOUS
  <1>1. DeliveryInv'
    BY DeliveryStep DEF RowInv
  <1>2. CASE Quiet
    BY <1>1, <1>2, RowsBehindKept DEF RowInv, Quiet
  <1>3. ASSUME NEW r \in Runs, Alone(r) PROVE RowInv'
    <2>1. RowsBehind(r)'
      BY <1>3, RowsBehindStep DEF Alone
    <2> QED BY <1>1, <1>3, <2>1 DEF RowInv, Alone
  <1> QED BY <1>2, <1>3, AloneOrQuiet

-----------------------------------------------------------------------------
(* What a step sends *)

\* The message a run is about to send.
Sending(r, b, p, k) ==
  /\ \/ b = Photo /\ pc[r] = "sendPhoto" /\ k = 1
     \/ b = Notice /\ pc[r] = "sendNotice" /\ k = part[r]
  /\ p \in articles[r] /\ Current(r, p)

LEMMA SentOne ==
  ASSUME TypeInv, NEW r \in Runs, Progress(r) \/ Failure(r)
  PROVE  \/ UNCHANGED sent
         \/ \E b \in Boards, p \in Ids, k \in 1..MaxParts :
              Sending(r, b, p, k) /\ MayDeliver(b, p, k)
  <1>t. articles \in [Runs -> SUBSET Ids] /\ part \in [Runs -> 1..MaxParts]
    BY DEF TypeInv, TypeOK, LocalTypeOK
  <1>b. Photo \in Boards /\ Notice \in Boards /\ 1 \in 1..MaxParts
    BY BoundsAssumption DEF Boards
  <1>1. CASE SendPhoto(r) \/ SendPhotoRaises(r)
    BY <1>1, <1>t, <1>b DEF SendPhoto, SendPhotoRaises, MayDeliver, Sending
  <1>2. CASE SendNotice(r) \/ NoticeAttemptRaises(r)
    BY <1>2, <1>t, <1>b DEF SendNotice, NoticeAttemptRaises, MayDeliver, Sending
  <1>3. CASE \/ Connect(r) \/ ConnectFails(r) \/ Load(r) \/ AbortBeforeWork(r)
             \/ ListPhotos(r) \/ ListNotices(r) \/ ListRaises(r) \/ SendPoisonedPhoto(r)
             \/ SavePhoto(r) \/ SavePhotoRaises(r) \/ SaveNotice(r) \/ SaveNoticeRaises(r)
             \/ FinishDb(r) \/ OpenFile(r) \/ WriteFile(r) \/ SaveFileFails(r) \/ Crash(r)
    BY <1>3 DEF Connect, ConnectFails, Load, AbortBeforeWork, ListPhotos, ListNotices,
                List, ListRaises, SendPoisonedPhoto, SavePhoto, SavePhotoRaises,
                SaveNotice, SaveNoticeRaises, FinishDb, OpenFile, WriteFile,
                SaveFileFails, Crash
  <1> QED BY <1>1, <1>2, <1>3 DEF Progress, Failure

\* A delivery counts one message once.
LEMMA DeliverOne ==
  ASSUME TypeInv, NEW b \in Boards, NEW p \in Ids, NEW k \in 1..MaxParts,
         MayDeliver(b, p, k), NEW m \in Messages
  PROVE  /\ m # <<b, p, k>> => sent'[m] = sent[m]
         /\ sent'[m] <= sent[m] + 1
  <1>1. sent \in [Messages -> 0..SentCap] /\ SentCap \in Nat
    BY BoundsAssumption DEF TypeInv, TypeOK, SharedTypeOK
  <1>2. CASE UNCHANGED sent
    BY <1>1, <1>2
  <1>3. CASE Deliver(b, p, k)
    BY <1>1, <1>3 DEF Deliver
  <1> QED BY <1>2, <1>3 DEF MayDeliver

\* One run at a time and always with its database: a post with a row in the
\* history is never announced again.
THEOREM ResentCorrect == ASSUME SingleRun, AllDb PROVE Spec => RecordedNotResent
  <1>1. ASSUME RowInv, [Next]_vars, NEW m \in Messages, posts[m[1]][m[2]] # "none"
        PROVE  sent'[m] = sent[m]
    <2>t. TypeInv /\ m[2] \in Ids
      BY <1>1 DEF RowInv, DeliveryInv, Messages
    <2>1. CASE Quiet
      BY <2>1 DEF Quiet
    <2>2. ASSUME NEW r \in Runs, Alone(r), NEW b \in Boards, NEW p \in Ids, NEW k \in 1..MaxParts,
                 Sending(r, b, p, k), MayDeliver(b, p, k)
          PROVE  sent'[m] = sent[m]
      <3>1. \A q \in Recorded(b) : q < p
        BY <1>1, <2>2 DEF RowInv, RowsBehind, Sending, InLoop
      <3>2. ~(p < p)
        BY BoundsAssumption DEF Ids
      <3>3. p \notin Recorded(b)
        BY <3>1, <3>2
      <3>4. m # <<b, p, k>>
        BY <1>1, <3>3 DEF Recorded
      <3> QED BY <2>t, <2>2, <3>4, DeliverOne
    <2> QED BY <2>t, <2>1, <2>2, <1>1, AloneOrQuiet, SentOne DEF Alone
  <1>2. RowInv /\ [Next]_vars =>
          [\A m \in Messages : posts[m[1]][m[2]] # "none" => sent'[m] = sent[m]]_vars
    BY <1>1
  <1>3. Spec => []RowInv
    BY RowInit, RowInvStep, PTL DEF Spec
  <1> QED BY <1>2, <1>3, PTL DEF Spec, RecordedNotResent

\* One run at a time and always with its database: a row that says SUCCESS
\* keeps saying it, even when the commit happened and its answer was lost.
THEOREM FinalCorrect == ASSUME SingleRun, AllDb PROVE Spec => SuccessIsFinal
  <1>1. ASSUME RowInv, [Next]_vars, NEW b \in Boards, NEW p \in Ids, posts[b][p] = "SUCCESS"
        PROVE  posts'[b][p] = "SUCCESS"
    <2>t. DeliveryInv /\ p \in Recorded(b) /\ ~(p < p)
      BY <1>1, BoundsAssumption DEF RowInv, Recorded, Ids
    <2>1. ASSUME NEW r \in Runs, Saving(r, b), p \in articles[r], Current(r, p),
                 b = Notice => posts'[b][p] = outcome[r]
          PROVE  posts'[b][p] = "SUCCESS"
      <3>1. InLoop(r, b) /\ RowsBehind(r)
        BY <1>1, <2>1 DEF RowInv, Saving, InLoop
      <3>2. pc[r] = "saveNotice"
        BY <2>1, <2>t, <3>1 DEF RowsBehind
      <3>3. b = Notice
        BY <2>1, <3>2 DEF Saving
      <3>4. posts[Notice][p] \in {"none", outcome[r]}
        BY <2>1, <3>1, <3>2 DEF RowsBehind
      <3> QED BY <1>1, <2>1, <3>3, <3>4
    <2> QED BY <2>t, <2>1, <1>1, RowStep DEF RowWritten
  <1>2. RowInv /\ [Next]_vars =>
          [\A b \in Boards, p \in Ids : posts[b][p] = "SUCCESS" => posts'[b][p] = "SUCCESS"]_vars
    BY <1>1
  <1>3. Spec => []RowInv
    BY RowInit, RowInvStep, PTL DEF Spec
  <1> QED BY <1>2, <1>3, PTL DEF Spec, SuccessIsFinal

-----------------------------------------------------------------------------
(* Every hole in the history is one failure *)

\* A hole, or what becomes one as soon as the run records a later article.
Hole(b, p) ==
  /\ p \in Page(b) \ Recorded(b)
  /\ \E lo \in Recorded(b) : lo < p
  /\ \/ \E hi \in Recorded(b) : p < hi
     \/ \E r \in Runs : InLoop(r, b) /\ p \notin articles[r] /\ \E a \in articles[r] : p < a
Gap(b) == {p \in Ids : Hole(b, p)}

\* What a run holds is an unbroken stretch of the page.
Stretch(r, b) ==
  InLoop(r, b) =>
    \A a \in articles[r] :
      /\ a <= newest[b]
      /\ \A q \in Page(b) : q < a /\ q \notin articles[r] => \A c \in articles[r] : q < c

GapInv ==
  /\ RowInv
  /\ \A b \in Boards :
       /\ \A q \in Recorded(b) : q <= newest[b]
       /\ \A r \in Runs : Stretch(r, b)
       /\ Cardinality(Gap(b)) <= faults

LEMMA GapFinite == \A b \in Boards : IsFiniteSet(Gap(b)) /\ Cardinality(Gap(b)) \in Nat
  <1>1. IsFiniteSet(Ids)
    BY BoundsAssumption, FS_Interval DEF Ids
  <1>2. \A b \in Boards : Gap(b) \subseteq Ids
    BY DEF Gap
  <1> QED BY <1>1, <1>2, FS_Subset, FS_CardinalityType

\* One more hole at most, and only when a failure was counted.
LEMMA GapCount ==
  ASSUME TypeInv, TypeInv', NEW b \in Boards, Cardinality(Gap(b)) <= faults,
         \/ Gap(b)' \subseteq Gap(b) /\ faults <= faults'
         \/ faults' = faults + 1 /\ \E p \in Ids : Gap(b)' \subseteq Gap(b) \cup {p}
  PROVE  Cardinality(Gap(b)') <= faults'
  <1> DEFINE G == Gap(b)
             H == Gap(b)'
  <1>1. IsFiniteSet(G) /\ Cardinality(G) \in Nat
    BY GapFinite
  <1>2. IsFiniteSet(H) /\ Cardinality(H) \in Nat
    <2>1. IsFiniteSet(Ids) /\ H \subseteq Ids
      BY BoundsAssumption, FS_Interval DEF Ids, Gap
    <2> QED BY <2>1, FS_Subset, FS_CardinalityType
  <1>3. faults \in Int /\ faults' \in Int
    BY BoundsAssumption DEF TypeInv, TypeOK, SharedTypeOK
  <1>h. \/ H \subseteq G /\ faults <= faults'
        \/ faults' = faults + 1 /\ \E p \in Ids : H \subseteq G \cup {p}
    OBVIOUS
  <1>c. Cardinality(G) <= faults
    OBVIOUS
  <1> HIDE DEF G, H
  <1>4. CASE H \subseteq G /\ faults <= faults'
    <2>1. Cardinality(H) <= Cardinality(G)
      BY <1>1, <1>4, FS_Subset
    <2> QED BY <1>1, <1>2, <1>3, <1>4, <1>c, <2>1 DEF H
  <1>5. ASSUME faults' = faults + 1, NEW p \in Ids, H \subseteq G \cup {p}
        PROVE  Cardinality(H) <= faults'
    <2>1. /\ IsFiniteSet(G \cup {p})
          /\ Cardinality(G \cup {p}) = Cardinality(G) \/ Cardinality(G \cup {p}) = Cardinality(G) + 1
      BY <1>1, FS_AddElement
    <2>2. Cardinality(H) <= Cardinality(G \cup {p})
      BY <1>5, <2>1, FS_Subset
    <2> QED BY <1>1, <1>2, <1>3, <1>5, <1>c, <2>1, <2>2
  <1> QED BY <1>h, <1>4, <1>5 DEF H

LEMMA NewestStill == ASSUME NEW r \in Runs, Progress(r) \/ Failure(r) PROVE newest' = newest
  <1>1. ASSUME Progress(r) PROVE newest' = newest
    BY <1>1 DEF Progress, Connect, Load, ListPhotos, ListNotices, List, SendPhoto,
                SendPoisonedPhoto, SavePhoto, SendNotice, SaveNotice, FinishDb,
                OpenFile, WriteFile, world
  <1>2. ASSUME Failure(r) PROVE newest' = newest
    BY <1>2 DEF Failure, ConnectFails, AbortBeforeWork, ListRaises, SendPhotoRaises,
                SavePhotoRaises, NoticeAttemptRaises, SaveNoticeRaises, SaveFileFails, Crash
  <1> QED BY <1>1, <1>2

\* What goes well is free, what fails is counted once.
LEMMA ProgressIsFree == ASSUME NEW r \in Runs, Progress(r) PROVE faults' = faults
  BY DEF Progress, Connect, Load, ListPhotos, ListNotices, List, SendPhoto,
         SendPoisonedPhoto, SavePhoto, SendNotice, SaveNotice, FinishDb,
         OpenFile, WriteFile, world

LEMMA FailureIsPaid == ASSUME NEW r \in Runs, Failure(r) PROVE faults' = faults + 1
  BY DEF Failure, ConnectFails, AbortBeforeWork, ListRaises, SendPhotoRaises,
         SavePhotoRaises, UpsertRaises, NoticeAttemptRaises, SaveNoticeRaises,
         SaveFileFails, Crash, Fault

\* A step that neither records nor lists leaves the holes of a board alone.
LEMMA CalmGap ==
  ASSUME NEW r \in Runs, Alone(r), NEW b \in Boards, Stretch(r, b),
         newest' = newest, posts'[b] = posts[b],
         InLoop(r, b)' => InLoop(r, b) /\ articles'[r] = articles[r]
  PROVE  Gap(b)' \subseteq Gap(b) /\ Stretch(r, b)'
  <1>1. Recorded(b)' = Recorded(b) /\ Page(b)' = Page(b)
    BY DEF Recorded, Page
  <1>2. ASSUME NEW p \in Ids, Hole(b, p)' PROVE Hole(b, p)
    BY <1>1, <1>2 DEF Hole, Alone
  <1>3. Stretch(r, b)'
    BY <1>1 DEF Stretch
  <1> QED BY <1>2, <1>3 DEF Gap

\* A fresh list starts right above the newest row, so what it leaves out is
\* below that row already.
LEMMA ListGap ==
  ASSUME TypeInv, NEW r \in Runs, Alone(r), RowsBehind(r), NEW b \in Boards, ToList(r, b),
         newest' = newest, posts' = posts, articles'[r] = ToProcess(r, b)
  PROVE  Gap(b)' \subseteq Gap(b) /\ Stretch(r, b)'
  <1> DEFINE last == lastSeen[r][b]
  <1>1. Recorded(b)' = Recorded(b) /\ Page(b)' = Page(b)
    BY DEF Recorded, Page
  <1>2. last \in Int /\ newest[b] \in Int /\ Ids \subseteq Int
    BY BoundsAssumption DEF TypeInv, TypeOK, SharedTypeOK, LocalTypeOK, Cursor, Ids
  <1>3. IsMaxRow(b, last)
    BY DEF RowsBehind
  <1>4. \A p \in Page(b) : p \in Ids /\ p <= newest[b] /\ (p > last <=> p \in Fresh(r, b))
    BY DEF Page, Fresh
  <1>5. \A a \in ToProcess(r, b) : a \in Fresh(r, b) /\ a \in Page(b)
    BY DEF ToProcess, NewestOnly, Fresh
  <1>6. ASSUME NEW p \in Ids, Hole(b, p)' PROVE Hole(b, p)
    <2>1. /\ p \in Page(b) \ Recorded(b) /\ \E lo \in Recorded(b) : lo < p
          /\ \/ \E hi \in Recorded(b) : p < hi
             \/ p \notin ToProcess(r, b)
      BY <1>1, <1>6 DEF Hole, Alone
    <2>2. CASE p \notin ToProcess(r, b)
      <3>1. last # 0
        BY <2>1, <1>3 DEF IsMaxRow
      <3>2. ToProcess(r, b) = Fresh(r, b)
        BY <3>1 DEF ToProcess
      <3>3. last \in Recorded(b) /\ p <= last /\ p # last
        BY <1>2, <1>3, <1>4, <2>1, <2>2, <3>1, <3>2 DEF IsMaxRow
      <3>4. p < last
        BY <1>2, <3>3
      <3> QED BY <2>1, <3>3, <3>4 DEF Hole
    <2> QED BY <2>1, <2>2 DEF Hole
  <1>7. ASSUME NEW a \in ToProcess(r, b), NEW q \in Page(b), q < a, q \notin ToProcess(r, b),
               NEW c \in ToProcess(r, b)
        PROVE  q < c
    <2>0. a \in Int /\ q \in Int /\ c \in Int /\ c > last
      BY <1>2, <1>4, <1>5, <1>7
    <2>1. CASE last = 0
      <3>1. a \in NewestOnly(r, b) /\ c \in NewestOnly(r, b)
        BY <1>7, <2>1 DEF ToProcess
      <3>2. a <= c
        BY <3>1 DEF NewestOnly
      <3> QED BY <1>7, <2>0, <3>2
    <2>2. CASE last # 0
      <3>1. q \notin Fresh(r, b)
        BY <1>7, <2>2 DEF ToProcess
      <3>2. ~(q > last)
        BY <1>4, <1>7, <3>1
      <3> QED BY <1>2, <2>0, <3>2
    <2> QED BY <2>1, <2>2
  <1>8. Stretch(r, b)'
    BY <1>1, <1>4, <1>5, <1>7 DEF Stretch
  <1> QED BY <1>6, <1>8 DEF Gap

\* Recording the lowest article a run holds opens no hole; passing it over
\* without a row opens one, at that very article.
LEMMA SaveGap ==
  ASSUME TypeInv, NEW r \in Runs, Alone(r), RowsBehind(r), NEW b \in Boards,
         InLoop(r, b), Stretch(r, b), NEW p \in articles[r], Current(r, p),
         newest' = newest, Recorded(b)' \in {Recorded(b), Recorded(b) \cup {p}},
         InLoop(r, b)' => articles'[r] \in {articles[r], articles[r] \ {p}}
  PROVE  /\ Stretch(r, b)'
         /\ Gap(b)' \subseteq Gap(b) \cup {p}
         /\ p \in Recorded(b)' => Gap(b)' \subseteq Gap(b)
         /\ (InLoop(r, b)' => p \in articles'[r]) => Gap(b)' \subseteq Gap(b)
         /\ (\A q \in Recorded(b) : q <= newest[b]) => \A q \in Recorded(b)' : q <= newest'[b]
  <1>i. Ids \subseteq Int /\ articles[r] \subseteq Ids
    BY BoundsAssumption DEF TypeInv, TypeOK, LocalTypeOK, Ids
  <1>0. /\ p \in Int /\ \A a \in articles[r] : a \in Int
        /\ \A q \in Page(b) : q \in Int
        /\ \A q \in Recorded(b) : q \in Int
    BY <1>i DEF Page, Recorded
  <1>1. Page(b)' = Page(b)
    BY DEF Page
  <1>2. \A a \in articles[r] : p <= a /\ (a # p => p < a)
    BY <1>0 DEF Current
  <1>3. \A q \in Recorded(b) : q <= p
    <2>1. \A q \in Recorded(b) : q < p \/ q = p
      BY DEF RowsBehind
    <2> QED BY <2>1, <1>0
  <1>4. /\ p <= newest[b]
        /\ \A a \in articles[r], q \in Page(b) : q < a /\ q \notin articles[r] => q < p
    BY DEF Stretch
  <1>5. ASSUME NEW x \in Ids, Hole(b, x)', x # p PROVE Hole(b, x)
    <2>1. x \in Page(b) \ Recorded(b)
      BY <1>1, <1>5 DEF Hole
    <2>2. \A q \in Recorded(b)' : q \in Recorded(b) \/ q = p
      OBVIOUS
    <2>3. PICK lo \in Recorded(b)' : lo < x
      BY <1>5 DEF Hole
    <2>4. \/ \E hi \in Recorded(b)' : x < hi
          \/ InLoop(r, b)' /\ x \notin articles'[r] /\ \E a \in articles'[r] : x < a
      BY <1>5 DEF Hole, Alone
    <2>5. CASE x < p
      <3>1. lo \in Recorded(b)
        BY <2>2, <2>3, <2>5, <1>0, <1>i
      <3>2. x \notin articles[r]
        BY <2>5, <1>i, <1>0, <1>2
      <3> QED BY <2>1, <2>3, <2>5, <3>1, <3>2 DEF Hole
    <2>6. CASE ~(x < p)
      <3>1. \A hi \in Recorded(b)' : ~(x < hi)
        <4>1. x \in Int
          BY <1>i
        <4>2. \A hi \in Recorded(b)' : hi \in Int /\ hi <= p
          BY <2>2, <1>0, <1>3
        <4> QED BY <4>1, <4>2, <2>6, <1>0
      <3>2. x \notin articles[r] /\ \E a \in articles[r] : x < a
        BY <2>4, <3>1, <1>5
      <3>3. x < p
        BY <2>1, <3>2, <1>4
      <3> QED BY <2>6, <3>3
    <2> QED BY <2>5, <2>6
  <1>6. p \in Recorded(b)' => ~Hole(b, p)'
    BY DEF Hole
  <1>7. ASSUME InLoop(r, b)' => p \in articles'[r], Hole(b, p)' PROVE Hole(b, p)
    <2>1. p \notin Recorded(b)'
      BY <1>7 DEF Hole
    <2>2. Recorded(b)' = Recorded(b)
      BY <2>1
    <2>3. p \in Page(b) \ Recorded(b) /\ (\E lo \in Recorded(b) : lo < p) /\ \E hi \in Recorded(b) : p < hi
      BY <1>1, <1>7, <2>2 DEF Hole, Alone
    <2> QED BY <2>3 DEF Hole
  <1>8. Stretch(r, b)'
    <2>1. ASSUME InLoop(r, b)', NEW a \in articles'[r], NEW q \in Page(b), q < a,
                 q \notin articles'[r], NEW c \in articles'[r]
          PROVE  q < c
      <3>1. a \in articles[r] /\ c \in articles[r]
        BY <2>1
      <3>2. CASE q = p
        BY <1>2, <2>1, <3>1, <3>2
      <3>3. CASE q # p
        <4>1. q \notin articles[r]
          BY <2>1, <3>3
        <4> QED BY <4>1, <2>1, <3>1 DEF Stretch
      <3> QED BY <3>2, <3>3
    <2>2. InLoop(r, b)' => \A a \in articles'[r] : a <= newest'[b]
      BY DEF Stretch
    <2> QED BY <2>1, <2>2, <1>1 DEF Stretch
  <1>9. (\A q \in Recorded(b) : q <= newest[b]) => \A q \in Recorded(b)' : q <= newest'[b]
    BY <1>4
  <1> QED BY <1>5, <1>6, <1>7, <1>8, <1>9 DEF Gap

LEMMA GapStep ==
  ASSUME AllDb, GapInv, TypeInv', NEW r \in Runs, Alone(r), NEW b \in Boards
  PROVE  /\ \A q \in Recorded(b)' : q <= newest'[b]
         /\ Stretch(r, b)'
         /\ Cardinality(Gap(b)') <= faults'
  <1>t. /\ TypeInv /\ RowsBehind(r) /\ Stretch(r, b)
        /\ \A q \in Recorded(b) : q <= newest[b]
        /\ Cardinality(Gap(b)) <= faults
        /\ pc \in [Runs -> Labels] /\ articles \in [Runs -> SUBSET Ids]
        /\ outcome \in [Runs -> {"SUCCESS", "FAIL"}]
        /\ faults \in Int /\ newest' = newest
    BY NewestStill, BoundsAssumption
    DEF GapInv, RowInv, DeliveryInv, TypeInv, TypeOK, SharedTypeOK, LocalTypeOK, Alone
  <1>b. Photo \in Boards /\ Notice \in Boards /\ Photo # Notice /\ b \in {Photo, Notice}
    BY DEF Boards, Photo, Notice
  <1>f. faults <= faults'
    BY <1>t, ProgressIsFree, FailureIsPaid DEF Alone
  <1>k. CASE /\ Stretch(r, b)' /\ Gap(b)' \subseteq Gap(b)
             /\ \A q \in Recorded(b)' : q <= newest'[b]
    BY <1>k, <1>t, <1>f, GapCount
  <1>c. CASE /\ posts'[b] = posts[b]
             /\ InLoop(r, b)' => InLoop(r, b) /\ articles'[r] = articles[r]
    <2>1. Recorded(b)' = Recorded(b)
      BY <1>c DEF Recorded
    <2> QED BY <2>1, <1>c, <1>k, <1>t, CalmGap
  <1>l. CASE ToList(r, b) /\ posts' = posts /\ articles'[r] = ToProcess(r, b)
    <2>1. Recorded(b)' = Recorded(b)
      BY <1>l DEF Recorded
    <2> QED BY <2>1, <1>l, <1>k, <1>t, ListGap
  <1>1. CASE Exit(r) /\ posts' = posts
    BY <1>1, <1>c, <1>t DEF Exit, Goto, InLoop
  <1>2. CASE Escape(r) /\ posts' = posts
    BY <1>2, <1>c, <1>t DEF Escape, Goto, InLoop
  <1>3. CASE Connect(r) \/ ConnectFails(r) \/ Load(r) \/ OpenFile(r)
    BY <1>3, <1>c, <1>t DEF Connect, ConnectFails, Load, OpenFile, Goto, store, InLoop
  <1>4. CASE ListPhotos(r)
    <2>1. /\ pc[r] = "listPhoto" /\ posts' = posts /\ pc'[r] \in {"sendPhoto", "listNotice"}
          /\ pc'[r] = "sendPhoto" => articles'[r] = ToProcess(r, Photo)
      BY <1>4, <1>t DEF ListPhotos, List, Goto, store
    <2> QED BY <2>1, <1>c, <1>l, <1>b DEF InLoop, ToList
  <1>5. CASE ListNotices(r)
    <2>1. /\ pc[r] = "listNotice" /\ posts' = posts /\ pc'[r] \in {"sendNotice", "finally"}
          /\ pc'[r] = "sendNotice" => articles'[r] = ToProcess(r, Notice)
      BY <1>5, <1>t DEF ListNotices, List, Goto, store
    <2> QED BY <2>1, <1>c, <1>l, <1>b DEF InLoop, ToList
  <1>6. CASE SendPhoto(r) \/ SendNotice(r) \/ NoticeAttemptRaises(r)
    BY <1>6, <1>c, <1>t, <1>b
    DEF SendPhoto, SendNotice, NoticeAttemptRaises, Goto, store, local, InLoop
  <1>7. CASE SavePhoto(r) \/ SavePhotoRaises(r)
    <2>1. PICK p \in articles[r] :
            /\ Current(r, p) /\ NextArticle(r, Photo, p, "sendPhoto", "listNotice")
            /\ \/ Upsert(Photo, p, "SUCCESS")
               \/ UNCHANGED posts /\ Failure(r)
      BY <1>7, <1>t DEF SavePhoto, SavePhotoRaises, Record, UpsertRaises, RowsBehind, Failure
    <2>2. /\ pc[r] = "savePhoto" /\ pc'[r] \in {"sendPhoto", "listNotice"} /\ p \in Ids
          /\ articles'[r] = articles[r] \ {p}
      BY <1>7, <2>1, <1>t, <1>b DEF SavePhoto, SavePhotoRaises, NextArticle, Goto
    <2>3. CASE b = Notice
      <3>1. posts'[b] = posts[b]
        BY <2>1, <2>2, <2>3, <1>t, <1>b, RecordedUpsert
      <3> QED BY <2>2, <2>3, <3>1, <1>c, <1>b DEF InLoop
    <2>4. CASE b = Photo
      <3>1. /\ Recorded(b)' \in {Recorded(b), Recorded(b) \cup {p}}
            /\ Upsert(Photo, p, "SUCCESS") => p \in Recorded(b)'
        BY <2>1, <2>2, <2>4, <1>t, <1>b, RecordedUpsert
      <3>2. InLoop(r, b)
        BY <2>2, <2>4 DEF InLoop
      <3>3. /\ Stretch(r, b)' /\ \A q \in Recorded(b)' : q <= newest'[b]
            /\ Gap(b)' \subseteq Gap(b) \cup {p}
            /\ p \in Recorded(b)' => Gap(b)' \subseteq Gap(b)
        BY <2>1, <2>2, <3>1, <3>2, <1>t, SaveGap
      <3>4. CASE Upsert(Photo, p, "SUCCESS")
        BY <3>1, <3>3, <3>4, <1>k
      <3>5. CASE UNCHANGED posts /\ Failure(r)
        <4>1. faults' = faults + 1
          BY <3>5, FailureIsPaid
        <4> QED BY <2>2, <3>3, <4>1, <1>t, GapCount
      <3> QED BY <2>1, <3>4, <3>5
    <2> QED BY <2>3, <2>4, <1>b
  <1>8. CASE SaveNotice(r) \/ SaveNoticeRaises(r)
    <2>1. PICK p \in articles[r] :
            /\ Current(r, p) /\ pc[r] = "saveNotice"
            /\ Upsert(Notice, p, outcome[r]) \/ UNCHANGED posts
            /\ \/ Upsert(Notice, p, outcome[r]) /\ articles'[r] = articles[r] \ {p}
               \/ articles'[r] = articles[r] /\ pc'[r] = pc[r]
               \/ pc'[r] = "finally"
            /\ pc'[r] \in {"sendNotice", "saveNotice", "finally"}
      <3>1. CASE SaveNotice(r)
        BY <3>1, <1>t DEF SaveNotice, Record, RowsBehind, NextArticle, Goto
      <3>2. CASE SaveNoticeRaises(r)
        BY <3>2, <1>t DEF SaveNoticeRaises, UpsertRaises, Goto
      <3> QED BY <1>8, <3>1, <3>2
    <2>2. p \in Ids
      BY <1>t
    <2>3. CASE b = Photo
      <3>1. posts'[b] = posts[b]
        BY <2>1, <2>2, <2>3, <1>t, <1>b, RecordedUpsert
      <3> QED BY <2>1, <2>3, <3>1, <1>c, <1>b DEF InLoop
    <2>4. CASE b = Notice
      <3>1. /\ Recorded(b)' \in {Recorded(b), Recorded(b) \cup {p}}
            /\ Upsert(Notice, p, outcome[r]) => p \in Recorded(b)'
        BY <2>1, <2>2, <2>4, <1>t, <1>b, RecordedUpsert
      <3>2. InLoop(r, b) /\ (InLoop(r, b)' => pc'[r] # "finally")
        BY <2>1, <2>4, <1>b DEF InLoop
      <3>3. InLoop(r, b)' => articles'[r] \in {articles[r], articles[r] \ {p}}
        BY <2>1, <3>2
      <3>4. /\ Stretch(r, b)' /\ \A q \in Recorded(b)' : q <= newest'[b]
            /\ p \in Recorded(b)' => Gap(b)' \subseteq Gap(b)
            /\ (InLoop(r, b)' => p \in articles'[r]) => Gap(b)' \subseteq Gap(b)
        BY <2>1, <2>2, <3>1, <3>2, <3>3, <1>t, SaveGap
      <3>5. p \in Recorded(b)' \/ (InLoop(r, b)' => p \in articles'[r])
        BY <2>1, <3>1, <3>2
      <3> QED BY <3>4, <3>5, <1>k
    <2> QED BY <2>3, <2>4, <1>b
  <1> QED
    BY <1>1, <1>2, <1>3, <1>4, <1>5, <1>6, <1>7, <1>8
    DEF Alone, Progress, Failure, AbortBeforeWork, FinishDb, WriteFile, SaveFileFails, Crash,
        ListRaises, SendPhotoRaises, SendPoisonedPhoto, store

\* A new post is above everything recorded and everything the run holds.
LEMMA GapQuiet ==
  ASSUME GapInv, TypeInv', PageGrows, Quiet, NEW b \in Boards
  PROVE  /\ \A q \in Recorded(b)' : q <= newest'[b]
         /\ \A r \in Runs : Stretch(r, b)'
         /\ Cardinality(Gap(b)') <= faults'
  <1>t. /\ TypeInv /\ faults' = faults /\ faults \in Int
        /\ Recorded(b)' = Recorded(b) /\ Recorded(b) \subseteq Ids
        /\ \A q \in Recorded(b) : q <= newest[b]
        /\ Cardinality(Gap(b)) <= faults
        /\ articles \in [Runs -> SUBSET Ids] /\ Ids \subseteq Int
        /\ newest[b] \in Int /\ newest'[b] \in Int
    BY BoundsAssumption
    DEF GapInv, RowInv, DeliveryInv, TypeInv, TypeOK, SharedTypeOK, LocalTypeOK, Quiet,
        Recorded, Ids, Cursor
  <1>p. newest[b] <= newest'[b] /\ \A p \in Page(b)' : p <= newest[b] => p \in Page(b)
    BY DEF PageGrows
  <1>r. \A r \in Runs : (InLoop(r, b)' <=> InLoop(r, b)) /\ articles'[r] = articles[r]
    BY DEF Quiet, SameLocals, InLoop
  <1>s. \A r \in Runs : InLoop(r, b) => \A a \in articles[r] : a \in Int /\ a <= newest[b]
    BY <1>t DEF GapInv, Stretch
  <1>1. \A q \in Recorded(b)' : q <= newest'[b]
    <2>1. \A q \in Recorded(b) : q \in Int
      BY <1>t
    <2> QED BY <2>1, <1>t, <1>p
  <1>2. ASSUME NEW r \in Runs, InLoop(r, b), NEW a \in articles[r]
        PROVE  /\ a <= newest'[b]
               /\ \A q \in Page(b)' : q < a /\ q \notin articles[r] => \A c \in articles[r] : q < c
    <2>1. a \in Int /\ a <= newest[b]
      BY <1>2, <1>s
    <2>2. \A q \in Page(b)' : q \in Int
      BY BoundsAssumption DEF Page, Ids
    <2>3. \A q \in Page(b)' : q < a => q \in Page(b)
      BY <2>1, <2>2, <1>t, <1>p
    <2>4. Stretch(r, b)
      BY DEF GapInv
    <2> QED BY <2>1, <2>3, <2>4, <1>2, <1>t, <1>p DEF Stretch
  <1>3. ASSUME NEW x \in Ids, Hole(b, x)' PROVE Hole(b, x)
    <2>1. /\ x \in Page(b)' /\ x \notin Recorded(b) /\ \E lo \in Recorded(b) : lo < x
          /\ \/ \E hi \in Recorded(b) : x < hi
             \/ \E r \in Runs : InLoop(r, b) /\ x \notin articles[r] /\ \E a \in articles[r] : x < a
      BY <1>3, <1>t, <1>r DEF Hole
    <2>2. x <= newest[b]
      <3>1. x \in Int
        BY <1>t
      <3>2. CASE \E hi \in Recorded(b) : x < hi
        <4>1. PICK hi \in Recorded(b) : x < hi
          BY <3>2
        <4>2. hi \in Int /\ hi <= newest[b] /\ newest[b] \in Int
          BY <1>t
        <4> QED BY <3>1, <4>1, <4>2
      <3>3. CASE \E r \in Runs : InLoop(r, b) /\ \E a \in articles[r] : x < a
        <4>1. PICK r \in Runs : InLoop(r, b) /\ \E a \in articles[r] : x < a
          BY <3>3
        <4>2. PICK a \in articles[r] : x < a
          BY <4>1
        <4> QED BY <3>1, <4>1, <4>2, <1>s, <1>t
      <3> QED BY <2>1, <3>2, <3>3
    <2>3. x \in Page(b)
      BY <2>1, <2>2, <1>p
    <2> QED BY <2>1, <2>3 DEF Hole
  <1>4. Gap(b)' \subseteq Gap(b)
    BY <1>3 DEF Gap
  <1>5. Cardinality(Gap(b)') <= faults'
    BY <1>4, <1>t, GapCount
  <1>6. \A r \in Runs : Stretch(r, b)'
    BY <1>2, <1>r DEF Stretch
  <1> QED BY <1>1, <1>5, <1>6

LEMMA GapInit == Init => GapInv
  <1> SUFFICES ASSUME Init PROVE GapInv
    OBVIOUS
  <1>1. RowInv
    BY RowInit
  <1>2. ASSUME NEW b \in Boards
        PROVE  /\ \A q \in Recorded(b) : q = newest[b] /\ newest[b] \in Int
               /\ \A r \in Runs : Stretch(r, b)
    BY BoundsAssumption, ConfigAssumption
    DEF Init, Recorded, Stretch, InLoop, Cursor
  <1>3. ASSUME NEW b \in Boards PROVE Cardinality(Gap(b)) <= faults
    <2>1. ASSUME NEW x \in Ids, Hole(b, x) PROVE FALSE
      <3>1. PICK lo \in Recorded(b) : lo < x
        BY <2>1 DEF Hole
      <3>2. PICK hi \in Recorded(b) : x < hi
        BY <2>1 DEF Hole, Init, InLoop
      <3>3. lo = newest[b] /\ hi = newest[b] /\ newest[b] \in Int /\ x \in Int
        BY <1>2, BoundsAssumption DEF Ids
      <3> QED BY <3>1, <3>2, <3>3
    <2>2. Gap(b) = {}
      BY <2>1 DEF Gap
    <2> QED BY <2>2, FS_EmptySet DEF Init
  <1> QED BY <1>1, <1>2, <1>3, BoundsAssumption DEF GapInv

LEMMA GapInvStep == ASSUME SingleRun, AllDb PROVE GapInv /\ [Next]_vars => GapInv'
  <1> SUFFICES ASSUME GapInv, [Next]_vars PROVE GapInv'
    OBVIOUS
  <1>1. RowInv' /\ TypeInv' /\ PageGrows
    BY RowInvStep, PageStep DEF GapInv, RowInv, DeliveryInv
  <1>2. CASE Quiet
    BY <1>1, <1>2, GapQuiet DEF GapInv
  <1>3. ASSUME NEW r \in Runs, Alone(r) PROVE GapInv'
    <2>1. \A b \in Boards : /\ \A q \in Recorded(b)' : q <= newest'[b]
                            /\ Stretch(r, b)'
                            /\ Cardinality(Gap(b)') <= faults'
      BY <1>1, <1>3, GapStep
    <2> QED BY <1>1, <1>3, <2>1 DEF GapInv, Alone
  <1> QED BY <1>2, <1>3, AloneOrQuiet

\* One run at a time and always with its database: the posts without a row
\* between two recorded ones are at most as many as the failures there were.
THEOREM HolesCorrect == ASSUME SingleRun, AllDb PROVE Spec => []HolesPaidByFaults
  <1>1. Spec => []GapInv
    BY GapInit, GapInvStep, PTL DEF Spec
  <1>2. GapInv => HolesPaidByFaults
    <2> SUFFICES ASSUME GapInv, NEW b \in Boards
                 PROVE  Cardinality({p \in Page(b) \ Recorded(b) :
                          \E lo, hi \in Recorded(b) : lo < p /\ p < hi}) <= faults
      BY DEF HolesPaidByFaults
    <2> DEFINE G == Gap(b)
               H == {p \in Page(b) \ Recorded(b) :
                          \E lo, hi \in Recorded(b) : lo < p /\ p < hi}
    <2>1. H \subseteq G
      BY DEF Gap, Hole, Page
    <2>2. IsFiniteSet(G) /\ Cardinality(G) \in Nat /\ Cardinality(G) <= faults /\ faults \in Int
      BY GapFinite, BoundsAssumption
      DEF GapInv, RowInv, DeliveryInv, TypeInv, TypeOK, SharedTypeOK
    <2> HIDE DEF G, H
    <2>3. Cardinality(H) \in Nat /\ Cardinality(H) <= Cardinality(G)
      BY <2>1, <2>2, FS_Subset, FS_CardinalityType
    <2>4. Cardinality(H) <= faults
      BY <2>2, <2>3
    <2> QED BY <2>4 DEF H
  <1> QED BY <1>1, <1>2, PTL

-----------------------------------------------------------------------------
(* The history is an append-only record behind what was announced *)

\* Once the history has begun, what lies between its end and an article the run
\* still holds was held by the run before, and announced.
Untold(r, b) ==
  InLoop(r, b) =>
    \A q \in Page(b) :
      /\ Recorded(b) # {} /\ \A x \in Recorded(b) : x < q
      /\ q \notin articles[r] /\ \E a \in articles[r] : q < a
      => Delivered(b, q)

HistoryInv == GapInv /\ \A r \in Runs, b \in Boards : Untold(r, b)

\* The lowest article is recorded, or passed over when it was announced.
LEMMA SaveUntold ==
  ASSUME TypeInv, SentKept, NEW r \in Runs, NEW b \in Boards, InLoop(r, b), Stretch(r, b),
         Untold(r, b), NEW p \in articles[r], Current(r, p), newest' = newest,
         Recorded(b)' \in {Recorded(b), Recorded(b) \cup {p}},
         InLoop(r, b)' => articles'[r] \in {articles[r], articles[r] \ {p}},
         InLoop(r, b)' => p \in articles'[r] \cup Recorded(b)' \/ Delivered(b, p)
  PROVE  Untold(r, b)'
  <1>i. Ids \subseteq Int /\ articles[r] \subseteq Ids /\ Page(b) \subseteq Ids /\ Page(b)' = Page(b)
    BY BoundsAssumption DEF TypeInv, TypeOK, LocalTypeOK, Ids, Page
  <1>1. SUFFICES ASSUME InLoop(r, b)', NEW q \in Page(b), NEW a \in articles'[r], q < a,
                        Recorded(b)' # {}, \A x \in Recorded(b)' : x < q, q \notin articles'[r]
                 PROVE  Delivered(b, q)'
    BY <1>i DEF Untold
  <1>2. a \in articles[r] /\ p \in Int /\ q \in Int
    BY <1>1, <1>i
  <1>3. CASE p \in Recorded(b)'
    <2>1. p < q
      BY <1>1, <1>3
    <2>2. q # p
      BY <2>1, <1>2
    <2>3. q \notin articles[r]
      BY <1>1, <2>2
    <2>4. q < p
      BY <1>1, <1>2, <2>3 DEF Stretch
    <2> QED BY <1>2, <2>1, <2>4
  <1>4. CASE p \notin Recorded(b)'
    <2>1. Recorded(b)' = Recorded(b)
      BY <1>4
    <2>2. Delivered(b, q)
      <3>1. CASE q \in articles[r]
        BY <1>1, <1>4, <3>1
      <3>2. CASE q \notin articles[r]
        BY <1>1, <1>2, <2>1, <3>2 DEF Untold
      <3> QED BY <3>1, <3>2
    <2> QED BY <2>2, <1>i, DeliveredKept
  <1> QED BY <1>3, <1>4

LEMMA UntoldStep ==
  ASSUME AllDb, HistoryInv, SentKept, NEW r \in Runs, Alone(r), NEW b \in Boards
  PROVE  Untold(r, b)'
  <1>t. /\ TypeInv /\ RowsBehind(r) /\ SoFar(r) /\ Stretch(r, b) /\ Untold(r, b)
        /\ pc \in [Runs -> Labels] /\ articles \in [Runs -> SUBSET Ids]
        /\ outcome \in [Runs -> {"SUCCESS", "FAIL"}]
        /\ lastSeen \in [Runs -> [Boards -> Cursor]]
        /\ newest' = newest
    BY NewestStill
    DEF HistoryInv, GapInv, RowInv, DeliveryInv, TypeInv, TypeOK, LocalTypeOK, Alone
  <1>b. Photo \in Boards /\ Notice \in Boards /\ Photo # Notice /\ b \in {Photo, Notice}
    BY DEF Boards, Photo, Notice
  <1>g. Page(b)' = Page(b) /\ Page(b) \subseteq Ids
    BY <1>t DEF Page
  <1>c. CASE /\ posts'[b] = posts[b]
             /\ InLoop(r, b)' => InLoop(r, b) /\ articles'[r] = articles[r]
    <2>1. Recorded(b)' = Recorded(b)
      BY <1>c DEF Recorded
    <2> QED BY <2>1, <1>c, <1>t, <1>g, DeliveredKept DEF Untold
  <1>l. CASE ToList(r, b) /\ posts' = posts /\ articles'[r] = ToProcess(r, b)
    <2>1. Recorded(b)' = Recorded(b) /\ IsMaxRow(b, lastSeen[r][b])
      BY <1>l, <1>t DEF Recorded, RowsBehind
    <2>2. ASSUME Recorded(b) # {}, NEW q \in Page(b), \A x \in Recorded(b) : x < q
          PROVE  q \in articles'[r]
      <3>1. lastSeen[r][b] # 0 /\ lastSeen[r][b] < q
        BY <2>1, <2>2 DEF IsMaxRow
      <3>2. q > lastSeen[r][b]
        BY <3>1, <1>t, <1>g, BoundsAssumption DEF Ids, Cursor
      <3> QED BY <1>l, <3>1, <3>2 DEF ToProcess, Fresh
    <2> QED BY <2>1, <2>2, <1>g DEF Untold
  <1>1. CASE Exit(r) /\ posts' = posts
    BY <1>1, <1>c, <1>t DEF Exit, Goto, InLoop
  <1>2. CASE Escape(r) /\ posts' = posts
    BY <1>2, <1>c, <1>t DEF Escape, Goto, InLoop
  <1>3. CASE Connect(r) \/ ConnectFails(r) \/ Load(r) \/ OpenFile(r)
    BY <1>3, <1>c, <1>t DEF Connect, ConnectFails, Load, OpenFile, Goto, store, InLoop
  <1>4. CASE ListPhotos(r)
    <2>1. /\ pc[r] = "listPhoto" /\ posts' = posts /\ pc'[r] \in {"sendPhoto", "listNotice"}
          /\ pc'[r] = "sendPhoto" => articles'[r] = ToProcess(r, Photo)
      BY <1>4, <1>t DEF ListPhotos, List, Goto, store
    <2> QED BY <2>1, <1>c, <1>l, <1>b DEF InLoop, ToList
  <1>5. CASE ListNotices(r)
    <2>1. /\ pc[r] = "listNotice" /\ posts' = posts /\ pc'[r] \in {"sendNotice", "finally"}
          /\ pc'[r] = "sendNotice" => articles'[r] = ToProcess(r, Notice)
      BY <1>5, <1>t DEF ListNotices, List, Goto, store
    <2> QED BY <2>1, <1>c, <1>l, <1>b DEF InLoop, ToList
  <1>6. CASE SendPhoto(r) \/ SendNotice(r) \/ NoticeAttemptRaises(r)
    BY <1>6, <1>c, <1>t, <1>b
    DEF SendPhoto, SendNotice, NoticeAttemptRaises, Goto, store, local, InLoop
  <1>7. CASE SavePhoto(r) \/ SavePhotoRaises(r)
    <2>1. PICK p \in articles[r] :
            /\ Current(r, p) /\ NextArticle(r, Photo, p, "sendPhoto", "listNotice")
            /\ Upsert(Photo, p, "SUCCESS") \/ UNCHANGED posts
      BY <1>7, <1>t DEF SavePhoto, SavePhotoRaises, Record, UpsertRaises, RowsBehind
    <2>2. /\ pc[r] = "savePhoto" /\ pc'[r] \in {"sendPhoto", "listNotice"} /\ p \in Ids
          /\ articles'[r] = articles[r] \ {p} /\ Delivered(Photo, p)
      BY <1>7, <2>1, <1>t, <1>b DEF SavePhoto, SavePhotoRaises, NextArticle, Goto, SoFar
    <2>3. CASE b = Notice
      <3>1. posts'[b] = posts[b]
        BY <2>1, <2>2, <2>3, <1>t, <1>b, RecordedUpsert
      <3> QED BY <2>2, <2>3, <3>1, <1>c, <1>b DEF InLoop
    <2>4. CASE b = Photo
      <3>1. Recorded(b)' \in {Recorded(b), Recorded(b) \cup {p}}
        BY <2>1, <2>2, <2>4, <1>t, <1>b, RecordedUpsert
      <3>2. InLoop(r, b)
        BY <2>2, <2>4 DEF InLoop
      <3> QED BY <2>1, <2>2, <2>4, <3>1, <3>2, <1>t, SaveUntold
    <2> QED BY <2>3, <2>4, <1>b
  <1>8. CASE SaveNotice(r) \/ SaveNoticeRaises(r)
    <2>1. PICK p \in articles[r] :
            /\ Current(r, p) /\ pc[r] = "saveNotice"
            /\ Upsert(Notice, p, outcome[r]) \/ UNCHANGED posts
            /\ \/ Upsert(Notice, p, outcome[r]) /\ articles'[r] = articles[r] \ {p}
               \/ articles'[r] = articles[r] /\ pc'[r] = pc[r]
               \/ pc'[r] = "finally"
            /\ pc'[r] \in {"sendNotice", "saveNotice", "finally"}
      <3>1. CASE SaveNotice(r)
        BY <3>1, <1>t DEF SaveNotice, Record, RowsBehind, NextArticle, Goto
      <3>2. CASE SaveNoticeRaises(r)
        BY <3>2, <1>t DEF SaveNoticeRaises, UpsertRaises, Goto
      <3> QED BY <1>8, <3>1, <3>2
    <2>2. p \in Ids
      BY <1>t
    <2>3. CASE b = Photo
      <3>1. posts'[b] = posts[b]
        BY <2>1, <2>2, <2>3, <1>t, <1>b, RecordedUpsert
      <3> QED BY <2>1, <2>3, <3>1, <1>c, <1>b DEF InLoop
    <2>4. CASE b = Notice
      <3>1. /\ Recorded(b)' \in {Recorded(b), Recorded(b) \cup {p}}
            /\ Upsert(Notice, p, outcome[r]) => p \in Recorded(b)'
        BY <2>1, <2>2, <2>4, <1>t, <1>b, RecordedUpsert
      <3>2. InLoop(r, b) /\ (InLoop(r, b)' => pc'[r] # "finally")
        BY <2>1, <2>4, <1>b DEF InLoop
      <3>3. /\ InLoop(r, b)' => articles'[r] \in {articles[r], articles[r] \ {p}}
            /\ InLoop(r, b)' => p \in articles'[r] \cup Recorded(b)'
        BY <2>1, <3>1, <3>2
      <3> QED BY <2>1, <2>2, <3>1, <3>2, <3>3, <1>t, SaveUntold
    <2> QED BY <2>3, <2>4, <1>b
  <1> QED
    BY <1>1, <1>2, <1>3, <1>4, <1>5, <1>6, <1>7, <1>8
    DEF Alone, Progress, Failure, AbortBeforeWork, FinishDb, WriteFile, SaveFileFails, Crash,
        ListRaises, SendPhotoRaises, SendPoisonedPhoto, store

\* A new post is above everything the run holds.
LEMMA UntoldQuiet ==
  ASSUME HistoryInv, PageGrows, SentKept, Quiet, NEW r \in Runs, NEW b \in Boards
  PROVE  Untold(r, b)'
  <1>t. /\ Stretch(r, b) /\ Untold(r, b) /\ Recorded(b)' = Recorded(b)
        /\ articles'[r] = articles[r] /\ articles[r] \subseteq Ids /\ Ids \subseteq Int
        /\ newest[b] \in Int /\ Page(b)' \subseteq Ids
        /\ InLoop(r, b)' <=> InLoop(r, b)
    BY BoundsAssumption
    DEF HistoryInv, GapInv, RowInv, DeliveryInv, TypeInv, TypeOK, SharedTypeOK, LocalTypeOK,
        Quiet, SameLocals, Recorded, Ids, Cursor, Page, InLoop
  <1>1. ASSUME InLoop(r, b), NEW q \in Page(b)', NEW a \in articles[r], q < a
        PROVE  q \in Page(b)
    <2>1. a \in Int /\ q \in Int /\ a <= newest[b]
      BY <1>1, <1>t DEF Stretch
    <2>2. q <= newest[b]
      BY <1>1, <1>t, <2>1
    <2> QED BY <2>2 DEF PageGrows
  <1> QED BY <1>t, <1>1, DeliveredKept DEF Untold

LEMMA HistoryInit == Init => HistoryInv
  BY GapInit DEF HistoryInv, Init, Untold, InLoop

LEMMA HistoryStep == ASSUME SingleRun, AllDb PROVE HistoryInv /\ [Next]_vars => HistoryInv'
  <1> SUFFICES ASSUME HistoryInv, [Next]_vars PROVE HistoryInv'
    OBVIOUS
  <1>1. GapInv' /\ PageGrows /\ SentKept
    BY GapInvStep, PageStep, SentStep DEF HistoryInv, GapInv, RowInv, DeliveryInv
  <1>2. CASE Quiet
    BY <1>1, <1>2, UntoldQuiet DEF HistoryInv
  <1>3. ASSUME NEW r \in Runs, Alone(r) PROVE HistoryInv'
    <2>1. \A b \in Boards : Untold(r, b)'
      BY <1>1, <1>3, UntoldStep
    <2> QED BY <1>1, <1>3, <2>1 DEF HistoryInv, Alone
  <1> QED BY <1>2, <1>3, AloneOrQuiet

\* The same history, seen by PostHistory.
Promised == [History!Next]_<<newest, posts, Announced>>

LEMMA AheadOfHistory ==
  ASSUME GapInv, NEW r \in Runs, NEW b \in Boards, InLoop(r, b),
         NEW p \in articles[r], p \notin Recorded(b)
  PROVE  p \in History!Ahead(b)
  <1>1. p \in Ids /\ p <= newest[b]
    BY DEF GapInv, Stretch, RowInv, DeliveryInv, TypeInv, TypeOK, LocalTypeOK
  <1>2. \A q \in Recorded(b) : q < p
    BY DEF GapInv, RowInv, RowsBehind
  <1> QED BY <1>1, <1>2 DEF History!Ahead, History!Recorded, Recorded

\* Sending the last missing part announces a post; any other part shows nothing.
LEMMA SendPromised ==
  ASSUME GapInv, SentKept, NEW r \in Runs, NEW b \in Boards, NEW p \in Ids,
         NEW k \in 1..MaxParts, Sending(r, b, p, k), MayDeliver(b, p, k),
         UNCHANGED <<newest, posts>>
  PROVE  Promised
  <1>1. TypeInv /\ p \in articles[r] /\ InLoop(r, b) /\ pc[r] # "saveNotice"
    BY DEF GapInv, RowInv, DeliveryInv, Sending, InLoop
  <1>2. ASSUME NEW c \in Boards, NEW q \in Ids, c # b \/ q # p
        PROVE  Delivered(c, q)' <=> Delivered(c, q)
    <2>1. ASSUME NEW j \in 1..Parts(c, q) PROVE sent'[<<c, q, j>>] = sent[<<c, q, j>>]
      <3>1. <<c, q, j>> \in Messages /\ <<c, q, j>> # <<b, p, k>>
        BY <1>2, <2>1, PartsType, BoundsAssumption DEF Messages
      <3> QED BY <3>1, <1>1, DeliverOne
    <2> QED BY <2>1 DEF Delivered, Parts
  <1>3. Delivered(b, p) => Delivered(b, p)'
    BY DeliveredKept
  <1>4. CASE Delivered(b, p)' <=> Delivered(b, p)
    <2>1. \A c \in Boards, q \in Ids : Delivered(c, q)' <=> Delivered(c, q)
      BY <1>2, <1>4
    <2>2. Announced' = Announced
      BY <2>1, Zenon DEF Announced
    <2> QED BY <2>2 DEF Promised
  <1>5. CASE Delivered(b, p)' /\ ~Delivered(b, p)
    <2>1. Announced' = [Announced EXCEPT ![b] = @ \cup {p}]
      BY <1>2, <1>5 DEF Announced
    <2>2. ~(p < p)
      BY BoundsAssumption DEF Ids
    <2>3. p \notin Recorded(b)
      BY <1>1, <2>2 DEF GapInv, RowInv, RowsBehind
    <2>4. p \in History!Ahead(b)
      BY <1>1, <2>3, AheadOfHistory
    <2>5. History!Tell(b, p)
      BY <2>1, <2>4 DEF History!Tell
    <2> QED BY <2>5 DEF Promised, History!Next
  <1> QED BY <1>3, <1>4, <1>5

\* Writing a row appends to the history, or repeats what its end says.
LEMMA SavePromised ==
  ASSUME HistoryInv, NEW r \in Runs, NEW b \in Boards, Saving(r, b), NEW p \in articles[r],
         Current(r, p), NEW status \in {"SUCCESS", "FAIL"}, Upsert(b, p, status),
         b = Notice => status = outcome[r], b = Photo => status = "SUCCESS",
         UNCHANGED <<newest, sent>>
  PROVE  Promised
  <1>1. /\ TypeInv /\ p \in Ids /\ InLoop(r, b) /\ RowsBehind(r) /\ SoFar(r) /\ Untold(r, b)
        /\ Stretch(r, b) /\ articles[r] \subseteq Ids
        /\ posts \in [Boards -> [Ids -> {"none", "SUCCESS", "FAIL"}]]
    BY DEF HistoryInv, GapInv, RowInv, DeliveryInv, TypeInv, TypeOK, SharedTypeOK, LocalTypeOK,
           Saving, InLoop
  <1>2. Announced' = Announced
    BY DEF Announced, Delivered, Parts
  <1>3. CASE p \in Recorded(b)
    <2>1. ~(p < p)
      BY <1>1, BoundsAssumption DEF Ids
    <2>2. pc[r] = "saveNotice"
      BY <1>1, <1>3, <2>1 DEF RowsBehind
    <2>3. b = Notice
      BY <2>2 DEF Saving
    <2>4. posts[b][p] = status
      BY <1>1, <1>3, <2>2, <2>3 DEF RowsBehind, Recorded
    <2>5. posts' = posts
      BY <1>1, <2>4 DEF Upsert
    <2> QED BY <1>2, <2>5 DEF Promised
  <1>4. CASE p \notin Recorded(b)
    <2>1. p \in History!Ahead(b)
      BY <1>1, <1>4, AheadOfHistory DEF HistoryInv
    <2>2. ASSUME History!Recorded(b) # {}, NEW q \in History!Shown(b) \cap History!Ahead(b), q < p
          PROVE  q \in Announced[b]
      <3>1. /\ q \in Page(b) /\ q \in Ids /\ Recorded(b) # {} /\ \A x \in Recorded(b) : x < q
        BY <2>2 DEF History!Recorded, History!Shown, History!Ahead, Recorded, Page
      <3>2. q \notin articles[r]
        BY <1>1, <2>2, <3>1, BoundsAssumption DEF Current, Ids
      <3>3. Delivered(b, q)
        BY <1>1, <2>2, <3>1, <3>2 DEF Untold
      <3> QED BY <3>1, <3>3 DEF Announced
    <2>3. \/ status = "SUCCESS" /\ p \in Announced[b]
          \/ status = "FAIL" /\ b \in {Notice}
      <3>1. b \in {Photo, Notice} /\ Photo # Notice
        BY DEF Boards, Photo, Notice
      <3>2. status = "SUCCESS" => Delivered(b, p)
        BY <1>1, <3>1 DEF Saving, SoFar
      <3> QED BY <1>1, <3>1, <3>2 DEF Announced
    <2>4. History!Record(b, p, status)
      BY <1>2, <2>1, <2>2, <2>3 DEF History!Record, Upsert
    <2> QED BY <1>1, <2>4 DEF Promised, History!Next
  <1> QED BY <1>3, <1>4

LEMMA PromisedStep ==
  ASSUME SingleRun, AllDb, HistoryInv, [Next]_vars
  PROVE  Promised
  <1>t. /\ TypeInv /\ SentKept /\ articles \in [Runs -> SUBSET Ids]
        /\ outcome \in [Runs -> {"SUCCESS", "FAIL"}]
        /\ \A r \in Runs : RowsBehind(r)
    BY SentStep
    DEF HistoryInv, GapInv, RowInv, DeliveryInv, TypeInv, TypeOK, LocalTypeOK
  <1>b. Photo \in Boards /\ Notice \in Boards /\ Photo # Notice
    BY DEF Boards, Photo, Notice
  <1>s. CASE UNCHANGED <<newest, posts, sent>>
    BY <1>s DEF Promised, Announced, Delivered, Parts
  <1>1. CASE UNCHANGED vars
    BY <1>1, <1>s DEF vars
  <1>2. ASSUME NEW b \in Boards, Publish(b) PROVE Promised
    <2>1. newest' = [newest EXCEPT ![b] = @ + 1] /\ posts' = posts /\ sent' = sent
      BY <1>2 DEF Publish, store
    <2>2. Announced' = Announced
      BY <2>1 DEF Announced, Delivered, Parts
    <2>3. History!Publish(b)
      BY <2>1, <2>2 DEF History!Publish
    <2> QED BY <2>3 DEF Promised, History!Next
  <1>3. ASSUME NEW r \in Runs, Progress(r) \/ Failure(r) PROVE Promised
    <2>0. newest' = newest
      BY <1>3, NewestStill
    <2>1. CASE SavePhoto(r) \/ SavePhotoRaises(r)
      <3>1. PICK p \in articles[r] :
              Current(r, p) /\ (Upsert(Photo, p, "SUCCESS") \/ UNCHANGED posts)
        BY <2>1, <1>t DEF SavePhoto, SavePhotoRaises, Record, UpsertRaises
      <3>2. Saving(r, Photo) /\ sent' = sent
        BY <2>1, <1>t DEF SavePhoto, SavePhotoRaises, Saving, RowsBehind
      <3> QED BY <2>0, <3>1, <3>2, <1>b, <1>s, SavePromised
    <2>2. CASE SaveNotice(r) \/ SaveNoticeRaises(r)
      <3>1. PICK p \in articles[r] :
              Current(r, p) /\ (Upsert(Notice, p, outcome[r]) \/ UNCHANGED posts)
        BY <2>2, <1>t DEF SaveNotice, SaveNoticeRaises, Record, UpsertRaises
      <3>2. Saving(r, Notice) /\ sent' = sent
        BY <2>2, <1>t DEF SaveNotice, SaveNoticeRaises, Saving, RowsBehind
      <3> QED BY <2>0, <3>1, <3>2, <1>b, <1>s, <1>t, SavePromised
    <2>3. CASE \/ Connect(r) \/ ConnectFails(r) \/ Load(r) \/ AbortBeforeWork(r)
               \/ ListPhotos(r) \/ ListNotices(r) \/ ListRaises(r) \/ SendPoisonedPhoto(r)
               \/ SendPhoto(r) \/ SendPhotoRaises(r) \/ SendNotice(r) \/ NoticeAttemptRaises(r)
               \/ FinishDb(r) \/ OpenFile(r) \/ WriteFile(r) \/ SaveFileFails(r) \/ Crash(r)
      <3>1. posts' = posts
        BY <2>3 DEF Connect, ConnectFails, Load, AbortBeforeWork, ListPhotos, ListNotices,
                    List, ListRaises, SendPoisonedPhoto, SendPhoto, SendPhotoRaises,
                    SendNotice, NoticeAttemptRaises, FinishDb, OpenFile, WriteFile,
                    SaveFileFails, Crash, store
      <3>2. CASE UNCHANGED sent
        BY <2>0, <3>1, <3>2, <1>s
      <3>3. ASSUME NEW b \in Boards, NEW p \in Ids, NEW k \in 1..MaxParts,
                   Sending(r, b, p, k), MayDeliver(b, p, k)
            PROVE  Promised
        BY <2>0, <3>1, <3>3, <1>t, SendPromised DEF HistoryInv
      <3> QED BY <1>3, <3>2, <3>3, <1>t, SentOne
    <2> QED BY <1>3, <2>1, <2>2, <2>3 DEF Progress, Failure
  <1> QED BY <1>1, <1>2, <1>3 DEF Next

LEMMA PromisedInit == Init => History!Init
  <1> SUFFICES ASSUME Init PROVE History!Init
    OBVIOUS
  <1>1. newest = Baseline /\ newest \in [Boards -> Nat] /\ Ids \subseteq Int
    BY BoundsAssumption, ConfigAssumption DEF Init, Cursor, Ids
  <1>2. ASSUME NEW b \in Boards, NEW p \in Ids
        PROVE  Delivered(b, p) <=> p <= newest[b]
    <2>1. \A k \in 1..Parts(b, p) : <<b, p, k>> \in Messages
      BY PartsType, BoundsAssumption DEF Messages
    <2>2. \A k \in 1..Parts(b, p) :
            sent[<<b, p, k>>] = IF p <= newest[b] THEN 1 ELSE 0
      BY <2>1, <1>1 DEF Init
    <2>3. 1 \in 1..Parts(b, p)
      BY PartsType, BoundsAssumption
    <2>4. \A k \in 1..Parts(b, p) : sent[<<b, p, k>>] > 0 <=> p <= newest[b]
      BY <2>2
    <2> QED BY <2>3, <2>4, Zenon DEF Delivered
  <1>3. Announced = [b \in Boards |-> {p \in Ids : p <= newest[b]}]
    BY <1>2 DEF Announced
  <1>4. /\ posts \in [Boards -> [Ids -> {"none", "SUCCESS"}]]
        /\ \A b \in Boards : History!Recorded(b) \subseteq {newest[b]}
    BY <1>1 DEF Init, History!Recorded
  <1> QED BY <1>1, <1>3, <1>4 DEF History!Init

\* One run at a time and always with its database: whatever fails and is retried,
\* and wherever a run dies, the posts table is an append-only history in the order
\* of the posts, behind what was announced, that passes no post on the page untold.
THEOREM HistoryCorrect == ASSUME SingleRun, AllDb PROVE Spec => ImplementsHistory
  <1>1. HistoryInv /\ [Next]_vars => [History!Next]_<<newest, posts, Announced>>
    BY PromisedStep DEF Promised
  <1>2. Spec => []HistoryInv
    BY HistoryInit, HistoryStep, PTL DEF Spec
  <1> QED BY <1>1, <1>2, PromisedInit, PTL DEF Spec, ImplementsHistory, History!Spec

\* A new row lies above the history, and what is below it on the page was recorded,
\* is between two older rows, or was announced.
LEMMA SkipFree ==
  ASSUME SingleRun, HistoryInv, HistoryInv', NothingSkipped, [Next]_vars
  PROVE  NothingSkipped'
  <1>t. /\ DeliveryInv /\ TypeInv /\ PageGrows /\ HandledKept /\ Ids \subseteq Int
        /\ \A r \in Runs : articles[r] \subseteq Ids
        /\ \A b \in Boards : newest[b] \in Int /\ Recorded(b) \subseteq Ids
    <2>1. DeliveryInv /\ TypeInv
      BY DEF HistoryInv, GapInv, RowInv, DeliveryInv
    <2>2. PageGrows /\ HandledKept
      BY <2>1, PageStep, HandledStep
    <2> QED BY <2>1, <2>2, BoundsAssumption
         DEF TypeInv, TypeOK, SharedTypeOK, LocalTypeOK, Ids, Cursor, Recorded
  <1> SUFFICES ASSUME NEW b \in Boards, NEW p \in Page(b)',
                      NEW lo \in Recorded(b)', NEW hi \in Recorded(b)', lo <= p, p <= hi
               PROVE  Handled(b, p)'
    BY DEF NothingSkipped
  <1>i. p \in Ids /\ lo \in Ids /\ hi \in Ids /\ p \in Int /\ lo \in Int /\ hi \in Int
    BY <1>t DEF Page, Recorded
  <1>n. ASSUME NEW x \in Ids, x \in Recorded(b)', x \notin Recorded(b)
        PROVE  /\ x <= newest[b] /\ \A y \in Recorded(b) : y < x
               /\ \E r \in Runs : InLoop(r, b) /\ Current(r, x)
    <2>1. PICK r \in Runs : Saving(r, b) /\ x \in articles[r] /\ Current(r, x)
      BY <1>n, <1>t, RowStep DEF Recorded, RowWritten
    <2>2. InLoop(r, b)
      BY <2>1 DEF Saving, InLoop
    <2>3. x <= newest[b]
      BY <2>1, <2>2 DEF HistoryInv, GapInv, Stretch
    <2>4. \A y \in Recorded(b) : y < x
      BY <1>n, <2>1, <2>2 DEF HistoryInv, GapInv, RowInv, RowsBehind
    <2> QED BY <2>1, <2>2, <2>3, <2>4
  <1>1. CASE p \in Recorded(b)'
    <2>1. posts'[b][p] \in {"SUCCESS", "FAIL"}
      BY <1>1 DEF Recorded, HistoryInv, GapInv, RowInv, DeliveryInv, TypeInv, TypeOK, SharedTypeOK
    <2>2. posts'[b][p] = "SUCCESS" => Delivered(b, p)'
      BY <1>i DEF HistoryInv, GapInv, RowInv, DeliveryInv, SuccessMeansDelivered
    <2> QED BY <2>1, <2>2 DEF Handled
  <1>2. CASE p \notin Recorded(b)'
    <2>1. p \notin Recorded(b)
      BY <1>2, <1>i, <1>t, RowStep DEF Recorded, RowWritten
    <2>2. hi <= newest[b]
      BY <1>n, <1>i DEF HistoryInv, GapInv
    <2>3. p \in Page(b)
      <3>1. p <= newest[b]
        BY <2>2, <1>i, <1>t
      <3> QED BY <3>1, <1>t DEF PageGrows
    <2>4. ASSUME NEW x \in Recorded(b), p <= x, NEW y \in Recorded(b), y <= p
          PROVE  Handled(b, p)'
      <3>1. Handled(b, p)
        BY <2>3, <2>4 DEF NothingSkipped
      <3> QED BY <3>1, <1>i, <1>t DEF HandledKept
    <2>5. lo # p /\ hi # p /\ lo < hi
      <3>1. lo # p /\ hi # p
        BY <1>2
      <3> QED BY <3>1, <1>i
    <2>6. CASE lo \notin Recorded(b)
      <3>1. hi \notin Recorded(b)
        <4>1. hi \in Recorded(b) => hi < lo
          BY <2>6, <1>n, <1>i
        <4> QED BY <4>1, <2>5, <1>i
      <3>2. PICK r \in Runs : Current(r, lo)
        BY <2>6, <1>n, <1>i
      <3>3. PICK q \in Runs : Current(q, hi)
        BY <3>1, <1>n, <1>i
      <3>4. r = q
        BY DEF SingleRun
      <3>5. hi <= lo
        BY <3>2, <3>3, <3>4 DEF Current
      <3> QED BY <3>5, <2>5, <1>i
    <2>7. CASE lo \in Recorded(b) /\ hi \in Recorded(b)
      BY <2>4, <2>7
    <2>8. CASE lo \in Recorded(b) /\ hi \notin Recorded(b)
      <3>1. PICK r \in Runs : InLoop(r, b) /\ Current(r, hi)
        BY <2>8, <1>n, <1>i
      <3>2. p \notin articles[r] /\ hi \in articles[r] /\ p < hi
        BY <3>1, <2>5, <1>i DEF Current
      <3>3. CASE \E x \in Recorded(b) : p <= x
        BY <3>3, <2>4, <2>8
      <3>4. CASE \A x \in Recorded(b) : x < p
        <4>1. Delivered(b, p)
          BY <2>3, <2>8, <3>1, <3>2, <3>4 DEF HistoryInv, Untold
        <4> QED BY <4>1, <1>i, <1>t DEF HandledKept, Handled
      <3>5. (\E x \in Recorded(b) : p <= x) \/ \A x \in Recorded(b) : x < p
        <4>1. \A x \in Recorded(b) : x \in Int
          BY <1>t
        <4> QED BY <4>1, <1>i
      <3> QED BY <3>3, <3>4, <3>5
    <2> QED BY <2>6, <2>7, <2>8
  <1> QED BY <1>1, <1>2

\* One run at a time and always with its database, a history that begins empty
\* skips nothing either: no post still on the page lies between two rows without
\* having been announced or recorded as failed.
THEOREM SkipCorrectUnseeded == ASSUME SingleRun, AllDb PROVE Spec => []NothingSkipped
  <1>1. Init => NothingSkipped
    <2> SUFFICES ASSUME Init, NEW b \in Boards, NEW p \in Page(b),
                        NEW lo \in Recorded(b), NEW hi \in Recorded(b), lo <= p, p <= hi
                 PROVE  Handled(b, p)
      BY DEF NothingSkipped
    <2>1. lo = Baseline[b] /\ hi = Baseline[b] /\ p \in Ids /\ Baseline[b] \in Int
      BY BoundsAssumption, ConfigAssumption DEF Init, Recorded, Page, Cursor
    <2>2. p = lo
      BY <2>1, BoundsAssumption DEF Ids
    <2>3. posts[b][p] = "SUCCESS"
      BY <2>2 DEF Init, Recorded
    <2>4. DeliveryInv
      BY DeliveryInit
    <2> QED BY <2>1, <2>3, <2>4 DEF DeliveryInv, SuccessMeansDelivered, Handled
  <1>2. HistoryInv /\ NothingSkipped /\ [Next]_vars => (HistoryInv /\ NothingSkipped)'
    BY HistoryStep, SkipFree
  <1> QED BY <1>1, <1>2, HistoryInit, PTL DEF Spec

-----------------------------------------------------------------------------
(* Every repetition of a message is paid for by a failure *)

\* The run has sent this part already, or is past sending.
Done(r, p, k) == Current(r, p) /\ (k < part[r] \/ pc[r] \in {"savePhoto", "saveNotice"})

\* The run may still send it.
Ahead(r, b, p, k) ==
  \/ ToList(r, b) /\ p > lastSeen[r][b]
  \/ InLoop(r, b) /\ p \in articles[r] /\ ~Done(r, p, k)

\* The history keeps every later run from sending it; the run at hand keeps
\* itself from doing so.
Backed(b, p) == \E q \in Recorded(b) : p <= q
At(r, b, p) == InLoop(r, b) /\ Current(r, p)

\* As many deliveries as failures, and one more that some row or the run at
\* the post accounts for.  What a run may still send has had no such extra
\* delivery, and in a run without a database the next one needs its row first.
Paid(b, p, k) ==
  LET n == sent[<<b, p, k>>] IN
  /\ n <= faults + 1
  /\ n > faults => Backed(b, p) \/ \E r \in Runs : mode[r] = "db" /\ At(r, b, p)
  /\ \A r \in Runs :
       /\ Ahead(r, b, p, k) => n <= faults
       /\ mode[r] = "file" /\ pc[r] = "load" => n <= faults
       /\ mode[r] = "file" /\ n > faults => Backed(b, p)
       /\ mode[r] = "file" /\ n = faults /\ (pc[r] = "load" \/ Ahead(r, b, p, k)) => Backed(b, p)

PaidInv ==
  /\ DeliveryInv
  /\ \A r \in Runs : pc[r] # "idle" => mode[r] # "none"
  /\ \A b \in Boards, p \in Ids, k \in 1..MaxParts : Paid(b, p, k)

LEMMA SendingAhead ==
  ASSUME TypeInv, NEW r \in Runs, NEW b \in Boards, NEW p \in Ids, NEW k \in 1..MaxParts,
         Sending(r, b, p, k)
  PROVE  Ahead(r, b, p, k)
  <1>1. part[r] \in Int /\ (pc[r] = "sendPhoto" => part[r] = 1)
    BY BoundsAssumption DEF TypeInv, TypeOK, LocalTypeOK, PartOK, BeforeNotices
  <1> QED BY <1>1 DEF Sending, Ahead, InLoop, Done

LEMMA BackedKept ==
  ASSUME DeliveryInv, [Next]_vars, NEW b \in Boards, NEW p \in Ids, Backed(b, p)
  PROVE  Backed(b, p)'
  <1>1. PICK q \in Recorded(b) : p <= q
    BY DEF Backed
  <1>2. q \in Ids /\ posts[b][q] # "none"
    BY DEF Recorded
  <1>3. posts'[b][q] # "none"
    BY <1>2, RowStep DEF RowWritten
  <1> QED BY <1>1, <1>2, <1>3 DEF Backed, Recorded

\* The count of one message over a step.
LEMMA CountStep ==
  ASSUME TypeInv, NEW r \in Runs, Progress(r) \/ Failure(r),
         NEW b \in Boards, NEW p \in Ids, NEW k \in 1..MaxParts
  PROVE  /\ sent[<<b, p, k>>] \in Int /\ sent'[<<b, p, k>>] <= sent[<<b, p, k>>] + 1
         /\ sent'[<<b, p, k>>] # sent[<<b, p, k>>] => Sending(r, b, p, k)
  <1> DEFINE m == <<b, p, k>>
  <1>1. m \in Messages /\ sent[m] \in Int
    BY BoundsAssumption DEF Messages, TypeInv, TypeOK, SharedTypeOK
  <1>2. CASE UNCHANGED sent
    BY <1>1, <1>2
  <1>3. ASSUME NEW c \in Boards, NEW q \in Ids, NEW j \in 1..MaxParts,
               Sending(r, c, q, j), MayDeliver(c, q, j)
        PROVE  sent'[m] <= sent[m] + 1 /\ (sent'[m] # sent[m] => Sending(r, b, p, k))
    <2>1. sent'[m] <= sent[m] + 1 /\ (m # <<c, q, j>> => sent'[m] = sent[m])
      BY <1>1, <1>3, DeliverOne
    <2> QED BY <1>3, <2>1
  <1> QED BY <1>1, <1>2, <1>3, SentOne

\* What a run may still send after a step, it could send before, and did not.
LEMMA AheadStep ==
  ASSUME TypeInv, NEW r \in Runs, Progress(r), pc[r] \notin {"idle", "load"},
         NEW b \in Boards, NEW p \in Ids, NEW k \in 1..MaxParts, Ahead(r, b, p, k)'
  PROVE  Ahead(r, b, p, k) /\ ~Sending(r, b, p, k)
  <1>t. /\ pc \in [Runs -> Labels] /\ articles \in [Runs -> SUBSET Ids]
        /\ lastSeen \in [Runs -> [Boards -> Cursor]]
        /\ part \in [Runs -> 1..MaxParts] /\ part[r] \in Int /\ k \in Int
    BY BoundsAssumption DEF TypeInv, TypeOK, LocalTypeOK
  <1>b. Photo \in Boards /\ Notice \in Boards /\ Photo # Notice /\ b \in {Photo, Notice}
    BY DEF Boards, Photo, Notice
  <1>1. CASE Exit(r)
    BY <1>1, <1>t DEF Exit, Goto, Ahead, ToList, InLoop
  <1>2. CASE Escape(r)
    BY <1>2, <1>t DEF Escape, Goto, Ahead, ToList, InLoop
  <1>3. CASE OpenFile(r)
    BY <1>3, <1>t DEF OpenFile, Goto, Ahead, ToList, InLoop
  <1>4. CASE ListPhotos(r)
    <2>1. /\ pc[r] = "listPhoto" /\ pc'[r] \in {"sendPhoto", "listNotice"}
          /\ lastSeen'[r] = lastSeen[r]
          /\ pc'[r] = "sendPhoto" => articles'[r] \subseteq Fresh(r, Photo)
      BY <1>4, <1>t DEF ListPhotos, List, Goto, ToProcess, NewestOnly
    <2>2. ToList(r, b) /\ ~Sending(r, b, p, k)
      BY <2>1, <1>b DEF ToList, Sending
    <2>3. p > lastSeen[r][b]
      BY <2>1, <1>b DEF Ahead, ToList, InLoop, Fresh
    <2> QED BY <2>2, <2>3 DEF Ahead
  <1>5. CASE ListNotices(r)
    <2>1. /\ pc[r] = "listNotice" /\ pc'[r] \in {"sendNotice", "finally"}
          /\ pc'[r] = "sendNotice" => articles'[r] \subseteq Fresh(r, Notice)
      BY <1>5, <1>t DEF ListNotices, List, Goto, ToProcess, NewestOnly
    <2>2. b = Notice /\ p > lastSeen[r][b]
      BY <2>1, <1>b DEF Ahead, ToList, InLoop, Fresh
    <2> QED BY <2>1, <2>2 DEF Ahead, ToList, Sending
  <1>6. CASE SendPhoto(r)
    <2>1. /\ pc[r] = "sendPhoto" /\ pc'[r] = "savePhoto" /\ part'[r] = part[r]
          /\ lastSeen'[r] = lastSeen[r] /\ articles'[r] = articles[r]
      BY <1>6, <1>t DEF SendPhoto, Goto, local
    <2>2. Current(r, p)' <=> Current(r, p)
      BY <2>1 DEF Current
    <2> QED BY <2>1, <2>2, <1>b DEF Ahead, ToList, InLoop, Done, Sending
  <1>7. CASE SendNotice(r)
    <2>1. PICK q \in articles[r] : 
            /\ Current(r, q) /\ pc[r] = "sendNotice" /\ articles'[r] = articles[r]
            /\ \/ pc'[r] = "saveNotice"
               \/ pc'[r] = "sendNotice" /\ part'[r] = part[r] + 1
      BY <1>7, <1>t DEF SendNotice, Goto
    <2>2. Current(r, p)' <=> Current(r, p)
      BY <2>1 DEF Current
    <2>3. b = Notice /\ p \in articles[r] /\ ~Done(r, p, k)'
      BY <2>1, <1>b DEF Ahead, ToList, InLoop
    <2>4. Current(r, p) => k > part[r]
      BY <2>1, <2>2, <2>3, <1>t DEF Done
    <2> QED BY <2>1, <2>3, <2>4, <1>t DEF Ahead, InLoop, Done, Sending
  <1>8. CASE SavePhoto(r) \/ SaveNotice(r)
    <2>1. PICK q \in articles[r], c \in Boards :
            /\ Current(r, q) /\ articles'[r] = articles[r] \ {q}
            /\ \/ c = Photo /\ pc[r] = "savePhoto" /\ pc'[r] \in {"sendPhoto", "listNotice"}
                  /\ lastSeen'[r][Notice] = lastSeen[r][Notice]
               \/ c = Notice /\ pc[r] = "saveNotice" /\ pc'[r] \in {"sendNotice", "finally"}
      <3>1. CASE SavePhoto(r)
        <4>1. PICK q \in articles[r] :
                Current(r, q) /\ NextArticle(r, Photo, q, "sendPhoto", "listNotice")
          BY <3>1 DEF SavePhoto
        <4>2. /\ pc[r] = "savePhoto" /\ pc'[r] \in {"sendPhoto", "listNotice"}
              /\ articles'[r] = articles[r] \ {q}
              /\ lastSeen'[r][Notice] = lastSeen[r][Notice]
          BY <3>1, <4>1, <1>t, <1>b DEF SavePhoto, NextArticle, Goto
        <4> QED BY <4>1, <4>2, <1>b
      <3>2. CASE SaveNotice(r)
        <4>1. PICK q \in articles[r] :
                Current(r, q) /\ NextArticle(r, Notice, q, "sendNotice", "finally")
          BY <3>2 DEF SaveNotice
        <4>2. /\ pc[r] = "saveNotice" /\ pc'[r] \in {"sendNotice", "finally"}
              /\ articles'[r] = articles[r] \ {q}
          BY <3>2, <4>1, <1>t, <1>b DEF SaveNotice, NextArticle, Goto
        <4> QED BY <4>1, <4>2, <1>b
      <3> QED BY <1>8, <3>1, <3>2
    <2>2. ~Sending(r, b, p, k)
      BY <2>1 DEF Sending
    <2>3. CASE ToList(r, b)'
      BY <2>1, <2>2, <2>3, <1>b DEF Ahead, ToList, InLoop
    <2>4. CASE InLoop(r, b)' /\ p \in articles'[r]
      <3>1. ~Current(r, p)
        BY <2>1, <2>4, OneCurrent
      <3> QED BY <2>1, <2>2, <2>4, <3>1, <1>b DEF Ahead, InLoop, Done
    <2> QED BY <2>3, <2>4 DEF Ahead
  <1> QED
    BY <1>1, <1>2, <1>3, <1>4, <1>5, <1>6, <1>7, <1>8
    DEF Progress, Connect, Load, FinishDb, WriteFile, SendPoisonedPhoto

\* A run with a connection leaves a post it has begun to send only by
\* recording it.
LEMMA AtStep ==
  ASSUME TypeInv, NEW r \in Runs, Progress(r), mode[r] = "db",
         NEW b \in Boards, NEW p \in Ids, NEW k \in 1..MaxParts, At(r, b, p),
         Ahead(r, b, p, k) => sent'[<<b, p, k>>] # sent[<<b, p, k>>]
  PROVE  Backed(b, p)' \/ (mode'[r] = "db" /\ At(r, b, p)')
  <1>t. /\ pc \in [Runs -> Labels] /\ articles \in [Runs -> SUBSET Ids]
        /\ mode \in [Runs -> {"none", "db", "file"}]
        /\ outcome \in [Runs -> {"SUCCESS", "FAIL"}] /\ p \in Int
    BY BoundsAssumption DEF TypeInv, TypeOK, LocalTypeOK, Ids
  <1>b. Photo \in Boards /\ Notice \in Boards /\ Photo # Notice /\ b \in {Photo, Notice}
    BY DEF Boards, Photo, Notice
  <1>1. CASE SendPhoto(r) \/ SendNotice(r)
    <2>1. /\ articles'[r] = articles[r] /\ mode'[r] = mode[r]
          /\ \/ pc[r] = "sendPhoto" /\ pc'[r] = "savePhoto"
             \/ pc[r] = "sendNotice" /\ pc'[r] \in {"sendNotice", "saveNotice"}
      BY <1>1, <1>t DEF SendPhoto, SendNotice, Goto, local
    <2> QED BY <2>1, <1>b DEF At, InLoop, Current
  <1>2. CASE SavePhoto(r) \/ SaveNotice(r)
    <2>1. PICK q \in articles[r], status \in {"SUCCESS", "FAIL"} :
            Current(r, q) /\ Upsert(b, q, status)
      BY <1>2, <1>t, <1>b DEF SavePhoto, SaveNotice, Record, At, InLoop
    <2>2. q = p
      BY <2>1, OneCurrent DEF At, Current
    <2>3. p \in Recorded(b)'
      BY <2>1, <2>2, <1>t, RecordedUpsert
    <2> QED BY <2>3, <1>t DEF Backed
  <1>3. CASE SendPoisonedPhoto(r)
    <2>1. UNCHANGED sent /\ pc[r] = "sendPhoto" /\ b = Photo /\ part[r] = 1 /\ ~(k < 1)
      BY <1>3, <1>b, BoundsAssumption
      DEF SendPoisonedPhoto, At, InLoop, TypeInv, PartOK, BeforeNotices
    <2> QED BY <2>1 DEF At, Ahead, Done, Current
  <1>4. CASE \/ Connect(r) \/ Load(r) \/ ListPhotos(r) \/ ListNotices(r)
             \/ FinishDb(r) \/ OpenFile(r) \/ WriteFile(r)
    BY <1>4 DEF Connect, Load, ListPhotos, ListNotices, List, FinishDb, OpenFile, WriteFile,
                At, InLoop
  <1> QED BY <1>1, <1>2, <1>3, <1>4 DEF Progress

\* The run turns to the file only when it starts, and then at a failure.
LEMMA ModeStep ==
  ASSUME TypeInv, NEW r \in Runs, Progress(r) \/ Failure(r),
         pc[r] # "idle" => mode[r] # "none"
  PROVE  /\ pc'[r] # "idle" => mode'[r] # "none"
         /\ mode'[r] # mode[r] => pc[r] = "idle" \/ mode'[r] = "none"
         /\ DbAvailable /\ Progress(r) /\ mode'[r] = "file" => mode[r] = "file" /\ pc'[r] # "load"
  <1>t. pc \in [Runs -> Labels] /\ mode \in [Runs -> {"none", "db", "file"}]
    BY DEF TypeInv, TypeOK, LocalTypeOK
  <1>1. CASE Exit(r)
    BY <1>1, <1>t DEF Exit, Goto
  <1>2. CASE Escape(r) /\ pc[r] # "idle"
    BY <1>2, <1>t DEF Escape, Goto
  <1>3. CASE Connect(r)
    BY <1>3, <1>t DEF Connect, Goto
  <1>4. CASE ConnectFails(r)
    BY <1>4, <1>t
    DEF ConnectFails, Fault, Goto, Progress, Connect, Load, ListPhotos, ListNotices, List,
        SendPhoto, SendPoisonedPhoto, SavePhoto, SendNotice, SaveNotice, FinishDb, OpenFile, WriteFile
  <1>5. CASE Load(r) \/ OpenFile(r) \/ ListPhotos(r) \/ ListNotices(r)
    BY <1>5, <1>t DEF Load, OpenFile, ListPhotos, ListNotices, List, Goto, local
  <1>6. CASE SendPhoto(r) \/ SendNotice(r) \/ NoticeAttemptRaises(r) \/ SaveNoticeRaises(r)
    BY <1>6, <1>t DEF SendPhoto, SendNotice, NoticeAttemptRaises, SaveNoticeRaises, Goto, local
  <1>7. CASE SavePhoto(r) \/ SavePhotoRaises(r) \/ SaveNotice(r)
    BY <1>7, <1>t DEF SavePhoto, SavePhotoRaises, SaveNotice, NextArticle, Goto
  <1> QED
    BY <1>1, <1>2, <1>3, <1>4, <1>5, <1>6, <1>7
    DEF Progress, Failure, AbortBeforeWork, FinishDb, WriteFile, SaveFileFails, Crash,
        ListRaises, SendPhotoRaises, SendPoisonedPhoto

\* A failure pays for whatever was delivered during it.
LEMMA PaidFailure ==
  ASSUME PaidInv, [Next]_vars, NEW r \in Runs, Alone(r), Failure(r),
         NEW b \in Boards, NEW p \in Ids, NEW k \in 1..MaxParts
  PROVE  Paid(b, p, k)'
  <1> DEFINE n == sent[<<b, p, k>>]
             n1 == sent'[<<b, p, k>>]
  <1>t. /\ TypeInv /\ Paid(b, p, k) /\ faults \in Int /\ faults' = faults + 1
        /\ n \in Int /\ n1 <= n + 1 /\ (n1 # n => Sending(r, b, p, k))
        /\ (Sending(r, b, p, k) => Ahead(r, b, p, k))
        /\ (Backed(b, p) => Backed(b, p)')
        /\ \A q \in Runs : q = r
    <2>1. DeliveryInv /\ TypeInv /\ Paid(b, p, k) /\ \A q \in Runs : q = r
      BY DEF PaidInv, DeliveryInv, Alone
    <2>2. faults \in Int /\ faults' = faults + 1
      BY <2>1, FailureIsPaid, BoundsAssumption DEF TypeInv, TypeOK, SharedTypeOK
    <2>3. n \in Int /\ n1 <= n + 1 /\ (n1 # n => Sending(r, b, p, k))
      BY <2>1, CountStep
    <2>4. Sending(r, b, p, k) => Ahead(r, b, p, k)
      BY <2>1, SendingAhead
    <2>5. Backed(b, p) => Backed(b, p)'
      BY <2>1, BackedKept
    <2> QED BY <2>1, <2>2, <2>3, <2>4, <2>5
  <1>i. n1 \in Int
    <2>1. CASE n1 = n
      BY <2>1, <1>t
    <2>2. CASE n1 # n
      <3>1. TypeInv' /\ <<b, p, k>> \in Messages
        BY <1>t, TypeStep DEF Messages
      <3> QED BY <3>1, BoundsAssumption DEF TypeInv, TypeOK, SharedTypeOK
    <2> QED BY <2>1, <2>2
  <1>1. n1 <= faults'
    <2>1. n <= faults + 1 /\ (Ahead(r, b, p, k) => n <= faults)
      BY <1>t DEF Paid
    <2> QED BY <2>1, <1>t, <1>i
  <1>2. ASSUME mode'[r] = "file", n1 = faults' PROVE Backed(b, p)'
    <2>1. CASE n > faults
      <3>1. mode[r] = "file" => Backed(b, p)
        BY <2>1, <1>t DEF Paid
      <3>2. pc[r] = "idle" => ~At(r, b, p)
        BY DEF At, InLoop
      <3>3. pc[r] = "idle" => Backed(b, p)
        BY <2>1, <3>2, <1>t DEF Paid
      <3>4. mode[r] = "file" \/ pc[r] = "idle"
        BY <1>2, <1>t, ModeStep DEF PaidInv
      <3> QED BY <3>1, <3>3, <3>4, <1>t
    <2>2. CASE n <= faults
      <3>1. n = faults /\ Sending(r, b, p, k) /\ Ahead(r, b, p, k)
        BY <2>2, <1>2, <1>t
      <3>2. pc[r] # "idle"
        BY <3>1 DEF Sending
      <3>3. mode[r] = "file"
        BY <1>2, <3>2, <1>t, ModeStep DEF PaidInv
      <3> QED BY <3>1, <3>3, <1>t DEF Paid
    <2> QED BY <2>1, <2>2, <1>t
  <1>3. ~(n1 > faults')
    BY <1>1, <1>i, <1>t
  <1>4. n1 <= faults' + 1
    BY <1>1, <1>i, <1>t
  <1> QED BY <1>1, <1>2, <1>3, <1>4, <1>t DEF Paid

\* Loading a cursor: what lies after it has no row at or above it.
LEMMA PaidLoad ==
  ASSUME PaidInv, [Next]_vars, NEW r \in Runs, Alone(r), Load(r),
         NEW b \in Boards, NEW p \in Ids, NEW k \in 1..MaxParts
  PROVE  Paid(b, p, k)'
  <1> DEFINE n == sent[<<b, p, k>>]
  <1>t. /\ TypeInv /\ Paid(b, p, k) /\ n \in Int /\ faults \in Int
        /\ (Backed(b, p) => Backed(b, p)')
        /\ (\A q \in Runs : q = r) /\ mode[r] \in {"db", "file"}
        /\ pc \in [Runs -> Labels] /\ lastSeen \in [Runs -> [Boards -> Cursor]]
        /\ mode \in [Runs -> {"none", "db", "file"}]
    BY CountStep, BackedKept, BoundsAssumption
    DEF PaidInv, DeliveryInv, TypeInv, TypeOK, SharedTypeOK, LocalTypeOK, Alone, Load
  <1>1. PICK seen \in [Boards -> Cursor] :
          /\ IF mode[r] = "db" THEN \A c \in Boards : IsMaxRow(c, seen[c]) ELSE seen = file
          /\ lastSeen' = [lastSeen EXCEPT ![r] = seen]
    BY DEF Load
  <1>2. /\ pc[r] = "load" /\ pc'[r] = "listPhoto" /\ mode'[r] = mode[r] /\ lastSeen'[r] = seen
        /\ sent' = sent /\ faults' = faults
    BY <1>1, <1>t DEF Load, Goto, world
  <1>3. ~At(r, b, p)
    BY <1>2 DEF At, InLoop
  <1>4. n > faults => Backed(b, p)
    BY <1>3, <1>t DEF Paid
  <1>5. ASSUME mode[r] = "db", p > seen[b] PROVE n <= faults
    <2>1. IsMaxRow(b, seen[b])
      BY <1>1, <1>5
    <2>2. \A q \in Recorded(b) : q \in Int /\ q <= seen[b]
      BY <2>1, BoundsAssumption DEF IsMaxRow, Recorded, Ids
    <2>3. seen[b] \in Int /\ p \in Int
      BY BoundsAssumption DEF Cursor, Ids
    <2>4. ~Backed(b, p)
      BY <1>5, <2>2, <2>3 DEF Backed
    <2> QED BY <1>4, <2>4, <1>t
  <1>6. Ahead(r, b, p, k)' => p > seen[b]
    BY <1>2 DEF Ahead, InLoop
  <1>7. mode[r] = "file" => n <= faults /\ (n = faults => Backed(b, p))
    BY <1>2, <1>t DEF Paid
  <1> QED BY <1>2, <1>4, <1>5, <1>6, <1>7, <1>t DEF Paid

\* Every other step that succeeds.
LEMMA PaidProgress ==
  ASSUME DbAvailable, PaidInv, [Next]_vars, NEW r \in Runs, Alone(r), Progress(r),
         pc[r] # "load",
         NEW b \in Boards, NEW p \in Ids, NEW k \in 1..MaxParts
  PROVE  Paid(b, p, k)'
  <1> DEFINE n == sent[<<b, p, k>>]
             n1 == sent'[<<b, p, k>>]
  <1>t. /\ TypeInv /\ Paid(b, p, k) /\ faults \in Int /\ faults' = faults
        /\ n \in Int /\ n1 <= n + 1 /\ (n1 # n => Sending(r, b, p, k))
        /\ (Sending(r, b, p, k) => Ahead(r, b, p, k))
        /\ (Backed(b, p) => Backed(b, p)')
        /\ (\A q \in Runs : q = r)
        /\ pc \in [Runs -> Labels] /\ mode \in [Runs -> {"none", "db", "file"}]
    BY ProgressIsFree, CountStep, SendingAhead, BackedKept, BoundsAssumption
    DEF PaidInv, DeliveryInv, TypeInv, TypeOK, SharedTypeOK, LocalTypeOK, Alone
  <1>i. n1 \in Int
    <2>1. TypeInv' /\ <<b, p, k>> \in Messages
      BY <1>t, TypeStep DEF Messages
    <2> QED BY <2>1, BoundsAssumption DEF TypeInv, TypeOK, SharedTypeOK
  <1>m. /\ mode'[r] = "file" => mode[r] = "file" /\ pc'[r] # "load"
        /\ pc[r] # "idle" => mode[r] \in {"db", "file"}
    BY <1>t, ModeStep DEF PaidInv
  <1>a. Ahead(r, b, p, k)' => Ahead(r, b, p, k) /\ n1 = n
    <2>1. CASE pc[r] = "idle"
      <3>1. pc'[r] = "load"
        BY <2>1, <1>t
        DEF Progress, Connect, Load, ListPhotos, ListNotices, List, SendPhoto, SendPoisonedPhoto,
            SavePhoto, SendNotice, SaveNotice, FinishDb, OpenFile, WriteFile, Goto
      <3> QED BY <3>1 DEF Ahead, ToList, InLoop
    <2>2. CASE pc[r] # "idle"
      BY <2>2, <1>t, AheadStep
    <2> QED BY <2>1, <2>2
  <1>1. n1 <= faults + 1
    BY <1>t, <1>i DEF Paid
  <1>2. ASSUME n1 > faults, mode[r] = "file" PROVE Backed(b, p)
    <2>1. CASE n > faults
      BY <1>2, <2>1, <1>t DEF Paid
    <2>2. CASE n <= faults
      <3>1. Ahead(r, b, p, k) /\ n = faults
        BY <2>2, <1>2, <1>t, <1>i
      <3> QED BY <1>2, <3>1, <1>t DEF Paid
    <2> QED BY <2>1, <2>2, <1>t
  <1>3. ASSUME n1 > faults PROVE Backed(b, p)' \/ (mode'[r] = "db" /\ At(r, b, p)')
    <2>1. CASE mode[r] = "file"
      BY <1>2, <1>3, <2>1, <1>t
    <2>2. CASE Sending(r, b, p, k) /\ n1 # n /\ mode[r] = "db"
      <3>1. At(r, b, p)
        BY <2>2 DEF At, Sending, InLoop
      <3> QED BY <2>2, <3>1, <1>t, AtStep
    <2>3. CASE n > faults /\ mode[r] # "file"
      <3>1. ~Ahead(r, b, p, k)
        BY <2>3, <1>t DEF Paid
      <3>2. Backed(b, p) \/ (mode[r] = "db" /\ At(r, b, p))
        BY <2>3, <1>t DEF Paid
      <3>3. ASSUME mode[r] = "db", At(r, b, p)
            PROVE  Backed(b, p)' \/ (mode'[r] = "db" /\ At(r, b, p)')
        <4>1. TypeInv /\ Progress(r)
          BY <1>t
        <4> QED BY <3>1, <3>3, <4>1, AtStep
      <3> QED BY <3>2, <3>3, <1>t
    <2>4. n > faults \/ n1 # n
      BY <1>3, <1>t
    <2>5. Sending(r, b, p, k) => mode[r] \in {"db", "file"}
      BY <1>m DEF Sending
    <2> QED BY <2>1, <2>2, <2>3, <2>4, <2>5, <1>t
  <1>4. Ahead(r, b, p, k)' => n1 <= faults
    BY <1>a, <1>t DEF Paid
  <1>5. ASSUME mode'[r] = "file", n1 = faults, Ahead(r, b, p, k)' PROVE Backed(b, p)
    BY <1>5, <1>a, <1>m, <1>t DEF Paid
  <1> QED BY <1>1, <1>2, <1>3, <1>4, <1>5, <1>m, <1>t DEF Paid

LEMMA PaidInit == ASSUME DbAvailable PROVE Init => PaidInv
  <1> SUFFICES ASSUME Init PROVE PaidInv
    OBVIOUS
  <1>1. DeliveryInv
    BY DeliveryInit
  <1>2. ASSUME NEW b \in Boards, NEW p \in Ids, NEW k \in 1..MaxParts PROVE Paid(b, p, k)
    <2>1. <<b, p, k>> \in Messages
      BY DEF Messages
    <2>2. sent[<<b, p, k>>] = IF p <= Baseline[b] THEN 1 ELSE 0
      BY <2>1 DEF Init
    <2>3. \A r \in Runs : pc[r] = "idle" /\ mode[r] = "none" /\ ~Ahead(r, b, p, k)
      BY DEF Init, Ahead, ToList, InLoop
    <2>4. p <= Baseline[b] => Backed(b, p)
      <3>1. p \in Int /\ p >= 1 /\ Baseline[b] \in Cursor
        BY ConfigAssumption, BoundsAssumption DEF Ids
      <3>2. p <= Baseline[b] => Baseline[b] \in Ids
        BY <3>1, BoundsAssumption DEF Ids, Cursor
      <3>3. Baseline[b] \in Ids => Baseline[b] \in Recorded(b)
        BY DEF Init, Recorded
      <3> QED BY <3>2, <3>3 DEF Backed
    <2>5. faults = 0
      BY DEF Init
    <2> QED BY <2>2, <2>3, <2>4, <2>5 DEF Paid
  <1> QED BY <1>1, <1>2 DEF Init, PaidInv

\* Nothing is claimed of a run that does not exist or of a step that changes
\* neither counts nor rows.
LEMMA PaidQuiet ==
  ASSUME PaidInv, Quiet, NEW b \in Boards, NEW p \in Ids, NEW k \in 1..MaxParts
  PROVE  Paid(b, p, k)'
  <1>1. Paid(b, p, k)
    BY DEF PaidInv
  <1>2. sent' = sent /\ faults' = faults /\ (Backed(b, p)' <=> Backed(b, p))
    BY DEF Quiet, Backed, Recorded
  <1>3. ASSUME NEW r \in Runs
        PROVE  /\ mode'[r] = mode[r] /\ pc'[r] = pc[r]
               /\ (At(r, b, p)' <=> At(r, b, p)) /\ (Ahead(r, b, p, k)' <=> Ahead(r, b, p, k))
    BY DEF Quiet, SameLocals, At, Ahead, ToList, InLoop, Done, Current
  <1> QED BY <1>1, <1>2, <1>3 DEF Paid

LEMMA PaidInvStep == ASSUME SingleRun, DbAvailable PROVE PaidInv /\ [Next]_vars => PaidInv'
  <1> SUFFICES ASSUME PaidInv, [Next]_vars PROVE PaidInv'
    OBVIOUS
  <1>1. DeliveryInv'
    BY DeliveryStep DEF PaidInv
  <1>2. CASE Quiet
    <2>1. \A b \in Boards, p \in Ids, k \in 1..MaxParts : Paid(b, p, k)'
      BY <1>2, PaidQuiet
    <2>2. \A r \in Runs : pc'[r] # "idle" => mode'[r] # "none"
      BY <1>2 DEF PaidInv, Quiet, SameLocals
    <2> QED BY <1>1, <2>1, <2>2 DEF PaidInv
  <1>3. ASSUME NEW r \in Runs, Alone(r) PROVE PaidInv'
    <2>1. pc[r] = "load" /\ Progress(r) => Load(r)
      BY DEF Progress, Connect, ListPhotos, ListNotices, List, SendPhoto, SendPoisonedPhoto,
             SavePhoto, SendNotice, SaveNotice, FinishDb, OpenFile, WriteFile
    <2>2. \A b \in Boards, p \in Ids, k \in 1..MaxParts : Paid(b, p, k)'
      BY <1>3, <2>1, PaidFailure, PaidLoad, PaidProgress DEF Alone
    <2>3. pc'[r] # "idle" => mode'[r] # "none"
      BY <1>3, ModeStep DEF PaidInv, DeliveryInv, Alone
    <2> QED BY <1>1, <1>3, <2>2, <2>3 DEF PaidInv, Alone
  <1> QED BY <1>2, <1>3, AloneOrQuiet

\* One run at a time and pymysql installed, whatever falls back to the file,
\* fails, crashes or answers ambiguously: no message reaches KakaoTalk more
\* often than there were failures, plus once.
THEOREM RepeatsCorrect == ASSUME SingleRun, DbAvailable PROVE Spec => []RepeatsPaidByFaults
  <1>1. Spec => []PaidInv
    BY PaidInit, PaidInvStep, PTL DEF Spec
  <1>2. PaidInv => RepeatsPaidByFaults
    <2> SUFFICES ASSUME PaidInv, NEW m \in Messages PROVE sent[m] <= 1 + faults
      BY DEF RepeatsPaidByFaults
    <2>1. PICK b \in Boards, p \in Ids, k \in 1..MaxParts : m = <<b, p, k>>
      BY DEF Messages
    <2>2. sent[m] <= faults + 1 /\ faults \in Int
      BY <2>1, BoundsAssumption
      DEF PaidInv, Paid, DeliveryInv, TypeInv, TypeOK, SharedTypeOK
    <2> QED BY <2>2
  <1> QED BY <1>1, <1>2, PTL

-----------------------------------------------------------------------------
(* The cursor in the file passes no post by *)

\* The file is never left half written, and it starts with both boards.
WholeWrites == {"crash", "fileWrite"} \cap FaultKinds = {} /\ \A b \in Boards : FileInit[b] > 0

Told(b, p) == Delivered(b, p) \/ (b = Notice /\ p \in gaveUp)

\* The cursor m passes nothing that is on the page.
Passes(b, m) ==
  /\ 0 < m /\ m <= newest[b]
  /\ \A p \in Page(b) : FileInit[b] <= p /\ p <= m => Told(b, p)

\* What a run without a connection holds is all that is missing below it.
Holds(r, b) ==
  /\ Passes(b, maxId[r])
  /\ \A a \in articles[r] :
       /\ a <= newest[b]
       /\ \A p \in Page(b) : FileInit[b] <= p /\ p < a /\ p \notin articles[r] => Told(b, p)

FileRun(r) ==
  /\ pc[r] = "idle" => mode[r] = "none"
  /\ pc[r] = "writeFile" => mode[r] = "file"
  /\ pc[r] \in BeforeNotices \cup {"sendNotice"} => outcome[r] = "SUCCESS"
  /\ pc[r] = "saveNotice" /\ outcome[r] = "FAIL" =>
       \A p \in articles[r] : Current(r, p) => p \in gaveUp
  /\ mode[r] = "file" =>
       \A b \in Boards : /\ pc[r] # "load" => Passes(b, lastSeen[r][b])
                         /\ InLoop(r, b) => Holds(r, b)

CursorInv ==
  /\ DeliveryInv
  /\ \A r \in Runs : FileRun(r)
  /\ \A b \in Boards :
       IF \E r \in Runs : pc[r] = "writeFile" THEN file[b] = 0 ELSE Passes(b, file[b])

ToldKept == \A b \in Boards, p \in Ids : Told(b, p) => Told(b, p)'

LEMMA ToldStep == ASSUME TypeInv, [Next]_vars PROVE ToldKept
  <1>1. SentKept
    BY SentStep
  <1>2. gaveUp \subseteq gaveUp'
    <2>1. CASE UNCHANGED vars
      BY <2>1 DEF vars
    <2>2. ASSUME NEW b \in Boards, Publish(b) PROVE gaveUp \subseteq gaveUp'
      BY <2>2 DEF Publish
    <2>3. ASSUME NEW r \in Runs, Progress(r) PROVE gaveUp \subseteq gaveUp'
      BY <2>3 DEF Progress, Connect, Load, ListPhotos, ListNotices, List, SendPhoto,
                  SendPoisonedPhoto, SavePhoto, SendNotice, SaveNotice, FinishDb,
                  OpenFile, WriteFile
    <2>4. ASSUME NEW r \in Runs, NoticeAttemptRaises(r) PROVE gaveUp \subseteq gaveUp'
      BY <2>4 DEF NoticeAttemptRaises
    <2>5. ASSUME NEW r \in Runs, Failure(r), ~NoticeAttemptRaises(r) PROVE gaveUp \subseteq gaveUp'
      BY <2>5 DEF Failure, ConnectFails, AbortBeforeWork, ListRaises, SendPhotoRaises,
                  SavePhotoRaises, SaveNoticeRaises, SaveFileFails, Crash
    <2> QED BY <2>1, <2>2, <2>3, <2>4, <2>5 DEF Next
  <1>3. ASSUME NEW b \in Boards, NEW p \in Ids, Told(b, p) PROVE Told(b, p)'
    BY <1>1, <1>2, <1>3, DeliveredKept DEF Told
  <1> QED BY <1>3 DEF ToldKept

LEMMA PassesKept ==
  ASSUME TypeInv, TypeInv', ToldKept, PageGrows, NEW b \in Boards, NEW m \in Cursor, Passes(b, m)
  PROVE  Passes(b, m)'
  <1>1. /\ newest[b] \in Int /\ newest'[b] \in Int /\ m \in Int
    BY BoundsAssumption DEF TypeInv, TypeOK, SharedTypeOK, Cursor
  <1>2. newest[b] <= newest'[b] /\ \A p \in Page(b)' : p <= newest[b] => p \in Page(b)
    BY DEF PageGrows
  <1>3. 0 < m /\ m <= newest'[b]
    BY <1>1, <1>2 DEF Passes
  <1>4. ASSUME NEW p \in Page(b)', FileInit[b] <= p, p <= m
        PROVE  Told(b, p)'
    <2>1. p \in Ids /\ p \in Int
      BY BoundsAssumption DEF Page, Ids
    <2>2. p <= newest[b]
      BY <1>1, <1>4, <2>1 DEF Passes
    <2>3. Told(b, p)
      BY <1>2, <1>4, <2>2 DEF Passes
    <2> QED BY <2>1, <2>3 DEF ToldKept
  <1> QED BY <1>3, <1>4 DEF Passes

LEMMA HoldsKept ==
  ASSUME TypeInv, TypeInv', ToldKept, PageGrows, NEW b \in Boards, NEW r \in Runs, Holds(r, b),
         articles'[r] = articles[r], maxId'[r] = maxId[r]
  PROVE  Holds(r, b)'
  <1> DEFINE m == maxId[r]
  <1>1. /\ newest[b] \in Int /\ newest'[b] \in Int /\ maxId[r] \in Cursor
        /\ \A a \in articles[r] : a \in Int
    BY BoundsAssumption DEF TypeInv, TypeOK, SharedTypeOK, LocalTypeOK, Cursor, Ids
  <1>2. newest[b] <= newest'[b] /\ \A p \in Page(b)' : p <= newest[b] => p \in Page(b)
    BY DEF PageGrows
  <1>3. Passes(b, maxId[r])'
    <2>1. PICK n \in Cursor : n = maxId[r]
      BY <1>1
    <2>2. Passes(b, n)'
      BY <2>1, PassesKept DEF Holds
    <2> QED BY <2>1, <2>2 DEF Passes
  <1>4. ASSUME NEW a \in articles[r]
        PROVE  /\ a <= newest'[b]
               /\ \A p \in Page(b)' : FileInit[b] <= p /\ p < a /\ p \notin articles[r] => Told(b, p)'
    <2>1. a \in Int /\ a <= newest[b]
      BY <1>1, <1>4 DEF Holds
    <2>2. ASSUME NEW p \in Page(b)', FileInit[b] <= p, p < a, p \notin articles[r]
          PROVE  Told(b, p)'
      <3>1. p \in Ids /\ p \in Int
        BY BoundsAssumption DEF Page, Ids
      <3>2. p \in Page(b)
        BY <1>1, <1>2, <2>1, <2>2, <3>1
      <3>3. Told(b, p)
        BY <2>2, <3>2, <1>4 DEF Holds
      <3> QED BY <3>1, <3>3 DEF ToldKept
    <2> QED BY <1>1, <1>2, <2>1, <2>2
  <1> QED BY <1>3, <1>4 DEF Holds

\* A list right above the cursor the run continues from.
LEMMA HoldsFresh ==
  ASSUME TypeInv, NEW r \in Runs, NEW b \in Boards, Passes(b, lastSeen[r][b]),
         UNCHANGED <<newest, sent, gaveUp>>,
         articles'[r] = ToProcess(r, b), maxId'[r] = lastSeen[r][b]
  PROVE  Holds(r, b)'
  <1>1. lastSeen[r][b] \in Int /\ lastSeen[r][b] # 0
    BY BoundsAssumption DEF TypeInv, TypeOK, LocalTypeOK, Cursor, Passes
  <1>2. ToProcess(r, b) = Fresh(r, b)
    BY <1>1 DEF ToProcess
  <1>3. \A p \in Page(b) : p \in Int /\ p <= newest[b] /\ (p \notin Fresh(r, b) => p <= lastSeen[r][b])
    BY <1>1, BoundsAssumption DEF Page, Fresh, Ids
  <1>4. /\ Page(b)' = Page(b) /\ (\A p : Told(b, p)' <=> Told(b, p))
        /\ newest'[b] = newest[b]
    BY DEF Page, Told, Delivered, Parts
  <1>5. Passes(b, lastSeen[r][b]) /\ (\A a \in Fresh(r, b) : a \in Page(b))
    BY DEF Fresh
  <1> QED BY <1>1, <1>2, <1>3, <1>4, <1>5 DEF Holds, Passes

\* An article the run has told about joins what its cursor passes.
LEMMA HoldsNext ==
  ASSUME TypeInv, NEW r \in Runs, NEW b \in Boards, Holds(r, b),
         NEW p \in articles[r], Current(r, p), Told(b, p),
         UNCHANGED <<newest, sent, gaveUp>>,
         articles'[r] = articles[r] \ {p},
         maxId'[r] = IF p > maxId[r] THEN p ELSE maxId[r]
  PROVE  Holds(r, b)'
  <1>1. /\ p \in Int /\ p > 0 /\ maxId[r] \in Int
        /\ \A a \in articles[r] : a \in Int
    BY BoundsAssumption DEF TypeInv, TypeOK, LocalTypeOK, Cursor, Ids
  <1>2. /\ Page(b)' = Page(b) /\ (\A q : Told(b, q)' <=> Told(b, q))
        /\ newest'[b] = newest[b] /\ \A q \in Page(b) : q \in Int
    BY BoundsAssumption DEF Page, Told, Delivered, Parts, Ids
  <1>3. ASSUME NEW q \in Page(b), FileInit[b] <= q, q <= p PROVE Told(b, q)
    <2>1. CASE q = p
      BY <2>1
    <2>2. CASE q # p
      <3>1. q < p
        BY <1>1, <1>2, <1>3, <2>2
      <3>2. q \notin articles[r]
        BY <1>1, <3>1 DEF Current
      <3> QED BY <1>3, <3>1, <3>2 DEF Holds
    <2> QED BY <2>1, <2>2
  <1>4. Passes(b, p) /\ Passes(b, maxId[r])
    BY <1>1, <1>3 DEF Holds, Passes
  <1>5. maxId'[r] \in {p, maxId[r]}
    OBVIOUS
  <1>6. Passes(b, maxId[r])'
    BY <1>2, <1>4, <1>5 DEF Passes
  <1>7. ASSUME NEW a \in articles[r], a # p, NEW q \in Page(b), FileInit[b] <= q, q < a,
               q \notin articles[r] \ {p}
        PROVE  Told(b, q)
    BY <1>7 DEF Holds
  <1>8. \A a \in articles[r] : a <= newest[b]
    BY DEF Holds
  <1> QED BY <1>2, <1>6, <1>7, <1>8 DEF Holds

\* A run that does not move keeps its account.
LEMMA FileRunKept ==
  ASSUME TypeInv, TypeInv', ToldKept, PageGrows, NEW r \in Runs, FileRun(r),
         SameLocals(r), maxId'[r] = maxId[r], gaveUp' = gaveUp
  PROVE  FileRun(r)'
  <1>1. ASSUME NEW b \in Boards, Passes(b, lastSeen[r][b])
        PROVE  Passes(b, lastSeen[r][b])'
    <2>1. PICK m \in Cursor : m = lastSeen[r][b]
      BY DEF TypeInv, TypeOK, LocalTypeOK
    <2>2. lastSeen'[r][b] = m /\ Passes(b, m)'
      BY <1>1, <2>1, PassesKept DEF SameLocals
    <2> QED BY <2>2 DEF Passes
  <1>2. \A b \in Boards : Holds(r, b) => Holds(r, b)'
    BY HoldsKept DEF SameLocals
  <1>3. \A b \in Boards : InLoop(r, b)' <=> InLoop(r, b)
    BY DEF InLoop, SameLocals
  <1>4. \A p : Current(r, p)' <=> Current(r, p)
    BY DEF Current, SameLocals
  <1> QED BY <1>1, <1>2, <1>3, <1>4 DEF FileRun, SameLocals

LEMMA FileRunStep ==
  ASSUME WholeWrites, CursorInv, TypeInv', ToldKept, PageGrows, NEW r \in Runs, Alone(r)
  PROVE  FileRun(r)'
  <1>t. /\ TypeInv /\ SoFar(r) /\ FileRun(r) /\ newest' = newest
        /\ pc \in [Runs -> Labels] /\ articles \in [Runs -> SUBSET Ids]
        /\ mode \in [Runs -> {"none", "db", "file"}]
        /\ lastSeen \in [Runs -> [Boards -> Cursor]] /\ maxId \in [Runs -> Cursor]
        /\ outcome \in [Runs -> {"SUCCESS", "FAIL"}]
    BY NewestStill DEF CursorInv, DeliveryInv, TypeInv, TypeOK, LocalTypeOK, Alone
  <1>b. Photo \in Boards /\ Notice \in Boards /\ Photo # Notice /\ Boards = {Photo, Notice}
    BY DEF Boards, Photo, Notice
  <1>k. ASSUME NEW b \in Boards, mode[r] = "file", pc[r] # "load",
               lastSeen'[r][b] = lastSeen[r][b]
        PROVE  Passes(b, lastSeen[r][b])'
    <2>1. PICK m \in Cursor : m = lastSeen[r][b]
      BY <1>t
    <2>2. Passes(b, m)
      BY <1>k, <2>1, <1>t DEF FileRun
    <2>3. lastSeen'[r][b] = m /\ Passes(b, m)'
      BY <1>k, <2>1, <2>2, <1>t, PassesKept
    <2> QED BY <2>3 DEF Passes
  <1>q. CASE /\ pc'[r] \in {"listPhoto", "listNotice", "finally", "writeFile"}
             /\ pc[r] # "load" /\ mode'[r] = mode[r]
             /\ lastSeen'[r] = lastSeen[r]
             /\ pc'[r] = "writeFile" => mode[r] = "file"
             /\ pc'[r] \in {"listPhoto", "listNotice"} => outcome'[r] = "SUCCESS"
    BY <1>q, <1>k DEF FileRun, InLoop, BeforeNotices
  <1>1. CASE Exit(r)
    BY <1>1, <1>t DEF Exit, Goto, FileRun, InLoop, BeforeNotices
  <1>2. CASE Escape(r) /\ pc[r] \notin {"idle", "load"}
    BY <1>2, <1>q, <1>t DEF Escape, Goto
  <1>3. CASE Connect(r) \/ ConnectFails(r)
    BY <1>3, <1>t DEF Connect, ConnectFails, Goto, FileRun, InLoop, BeforeNotices
  <1>4. CASE OpenFile(r)
    BY <1>4, <1>q, <1>t DEF OpenFile, Goto, local
  <1>5. CASE Load(r)
    <2>1. PICK seen \in [Boards -> Cursor] :
            /\ IF mode[r] = "db" THEN \A b \in Boards : IsMaxRow(b, seen[b]) ELSE seen = file
            /\ lastSeen' = [lastSeen EXCEPT ![r] = seen]
      BY <1>5 DEF Load
    <2>2. /\ mode'[r] = mode[r] /\ pc[r] = "load" /\ pc'[r] = "listPhoto" /\ lastSeen'[r] = seen
          /\ outcome'[r] = outcome[r]
      BY <1>5, <2>1, <1>t DEF Load, Goto
    <2>3. ASSUME mode[r] = "file", NEW b \in Boards PROVE Passes(b, lastSeen[r][b])'
      <3>1. seen = file /\ Passes(b, seen[b])
        BY <2>1, <2>2, <2>3 DEF CursorInv, Alone
      <3>2. Passes(b, seen[b])'
        BY <3>1, <1>t, PassesKept
      <3> QED BY <2>2, <3>2 DEF Passes
    <2> QED BY <2>2, <2>3, <1>t DEF FileRun, InLoop, BeforeNotices
  <1>6. CASE ListPhotos(r)
    <2>1. /\ pc[r] = "listPhoto" /\ mode'[r] = mode[r] /\ lastSeen'[r] = lastSeen[r]
          /\ outcome'[r] = outcome[r] /\ UNCHANGED <<newest, sent, gaveUp>>
          /\ pc'[r] = IF Fresh(r, Photo) = {} THEN "listNotice" ELSE "sendPhoto"
          /\ Fresh(r, Photo) # {} => /\ articles'[r] = ToProcess(r, Photo)
                                     /\ maxId'[r] = lastSeen[r][Photo]
      BY <1>6, <1>t DEF ListPhotos, List, Goto, world
    <2>2. mode[r] = "file" /\ Fresh(r, Photo) # {} => Holds(r, Photo)'
      BY <2>1, <1>t, <1>b, HoldsFresh DEF FileRun
    <2>3. outcome[r] = "SUCCESS"
      BY <2>1, <1>t DEF FileRun, BeforeNotices
    <2> QED BY <2>1, <2>2, <2>3, <1>b, <1>k DEF FileRun, InLoop, BeforeNotices
  <1>7. CASE ListNotices(r)
    <2>1. /\ pc[r] = "listNotice" /\ mode'[r] = mode[r] /\ lastSeen'[r] = lastSeen[r]
          /\ outcome'[r] = outcome[r] /\ UNCHANGED <<newest, sent, gaveUp>>
          /\ pc'[r] = IF Fresh(r, Notice) = {} THEN "finally" ELSE "sendNotice"
          /\ Fresh(r, Notice) # {} => /\ articles'[r] = ToProcess(r, Notice)
                                      /\ maxId'[r] = lastSeen[r][Notice]
      BY <1>7, <1>t DEF ListNotices, List, Goto, world
    <2>2. mode[r] = "file" /\ Fresh(r, Notice) # {} => Holds(r, Notice)'
      BY <2>1, <1>t, <1>b, HoldsFresh DEF FileRun
    <2>3. outcome[r] = "SUCCESS"
      BY <2>1, <1>t DEF FileRun, BeforeNotices
    <2> QED BY <2>1, <2>2, <2>3, <1>b, <1>k DEF FileRun, InLoop, BeforeNotices
  <1>8. CASE SendPhoto(r)
    <2>1. /\ pc[r] = "sendPhoto" /\ pc'[r] = "savePhoto" /\ mode'[r] = mode[r]
          /\ articles'[r] = articles[r] /\ lastSeen'[r] = lastSeen[r]
          /\ maxId'[r] = maxId[r] /\ outcome'[r] = outcome[r]
      BY <1>8, <1>t DEF SendPhoto, Goto, local
    <2>2. mode[r] = "file" => Holds(r, Photo)'
      BY <2>1, <1>t, <1>b, HoldsKept DEF FileRun, InLoop
    <2>3. outcome[r] = "SUCCESS"
      BY <2>1, <1>t DEF FileRun, BeforeNotices
    <2> QED BY <2>1, <2>2, <2>3, <1>b, <1>k DEF FileRun, InLoop, BeforeNotices
  <1>9. CASE SendNotice(r) \/ NoticeAttemptRaises(r)
    <2>1. PICK p \in articles[r] :
            /\ Current(r, p)
            /\ pc[r] = "sendNotice" /\ pc'[r] \in {"sendNotice", "saveNotice"}
            /\ mode'[r] = mode[r] /\ articles'[r] = articles[r] /\ lastSeen'[r] = lastSeen[r]
            /\ maxId'[r] = maxId[r]
            /\ \/ outcome'[r] = outcome[r]
               \/ pc'[r] = "saveNotice" /\ outcome'[r] = "FAIL" /\ p \in gaveUp'
      <3>1. CASE SendNotice(r)
        BY <3>1, <1>t DEF SendNotice, Goto
      <3>2. CASE NoticeAttemptRaises(r)
        BY <3>2, <1>t DEF NoticeAttemptRaises, Goto
      <3> QED BY <1>9, <3>1, <3>2
    <2>2. mode[r] = "file" => Holds(r, Notice)'
      BY <2>1, <1>t, <1>b, HoldsKept DEF FileRun, InLoop
    <2>3. outcome[r] = "SUCCESS"
      BY <2>1, <1>t DEF FileRun, BeforeNotices
    <2>4. \A q \in articles[r] : Current(r, q)' => q = p
      <3>1. \A q \in articles[r] : Current(r, q)' <=> Current(r, q)
        BY <2>1 DEF Current
      <3> QED BY <2>1, <3>1, <1>t, OneCurrent
    <2>5. outcome'[r] = "FAIL" => p \in gaveUp'
      BY <2>1, <2>3
    <2> QED BY <2>1, <2>2, <2>3, <2>4, <2>5, <1>b, <1>k DEF FileRun, InLoop, BeforeNotices
  <1>10. ASSUME NEW p \in articles[r], NEW b \in Boards, NEW loop, NEW after, Current(r, p),
                NextArticle(r, b, p, loop, after), UNCHANGED <<newest, sent, gaveUp>>,
                InLoop(r, b), mode[r] = "file", Told(b, p)
         PROVE  /\ Holds(r, b)'
                /\ \A c \in Boards : Passes(c, lastSeen[r][c])'
    <2>1. /\ articles'[r] = articles[r] \ {p}
          /\ maxId'[r] = IF p > maxId[r] THEN p ELSE maxId[r]
      BY <1>10, <1>t DEF NextArticle
    <2>2. Holds(r, b)'
      BY <1>10, <2>1, <1>t, HoldsNext DEF FileRun
    <2>3. \A c \in Boards : lastSeen'[r][c] = lastSeen[r][c] \/ (c = b /\ lastSeen'[r][c] = maxId'[r])
      BY <1>10, <1>t DEF NextArticle
    <2>4. pc[r] # "load"
      BY <1>10 DEF InLoop
    <2> QED BY <1>10, <2>2, <2>3, <2>4, <1>k DEF Holds, Passes
  <1>11. CASE SavePhoto(r) \/ SavePhotoRaises(r)
    <2>1. PICK p \in articles[r] :
            Current(r, p) /\ NextArticle(r, Photo, p, "sendPhoto", "listNotice")
      BY <1>11 DEF SavePhoto, SavePhotoRaises
    <2>2. /\ pc[r] = "savePhoto" /\ pc'[r] \in {"sendPhoto", "listNotice"}
          /\ mode'[r] = mode[r] /\ outcome'[r] = "SUCCESS"
          /\ UNCHANGED <<newest, sent, gaveUp>>
      BY <1>11, <2>1, <1>t DEF SavePhoto, SavePhotoRaises, NextArticle, Goto, world
    <2>3. Told(Photo, p)
      BY <2>1, <2>2, <1>t DEF SoFar, Told
    <2>4. InLoop(r, Photo)
      BY <2>2 DEF InLoop
    <2>5. mode[r] = "file" => Holds(r, Photo)' /\ \A c \in Boards : Passes(c, lastSeen[r][c])'
      BY <2>1, <2>2, <2>3, <2>4, <1>10, <1>b
    <2> QED BY <2>2, <2>5, <1>b DEF FileRun, InLoop, BeforeNotices
  <1>12. CASE SaveNotice(r)
    <2>1. PICK p \in articles[r] :
            Current(r, p) /\ NextArticle(r, Notice, p, "sendNotice", "finally")
      BY <1>12 DEF SaveNotice
    <2>2. /\ pc[r] = "saveNotice" /\ pc'[r] \in {"sendNotice", "finally"}
          /\ mode'[r] = mode[r] /\ outcome'[r] = "SUCCESS"
          /\ UNCHANGED <<newest, sent, gaveUp>>
      BY <1>12, <2>1, <1>t DEF SaveNotice, NextArticle, Goto, world
    <2>3. Told(Notice, p)
      BY <2>1, <2>2, <1>t DEF SoFar, Told, FileRun
    <2>4. InLoop(r, Notice)
      BY <2>2 DEF InLoop
    <2>5. mode[r] = "file" => Holds(r, Notice)' /\ \A c \in Boards : Passes(c, lastSeen[r][c])'
      BY <2>1, <2>2, <2>3, <2>4, <1>10, <1>b
    <2> QED BY <2>2, <2>5, <1>b DEF FileRun, InLoop, BeforeNotices
  <1>13. CASE SaveNoticeRaises(r)
    <2>1. /\ pc[r] = "saveNotice" /\ mode[r] = "db" /\ mode'[r] = "db" /\ gaveUp' = gaveUp
          /\ \/ pc'[r] = "finally"
             \/ pc'[r] = "saveNotice" /\ articles'[r] = articles[r] /\ outcome'[r] = outcome[r]
      BY <1>13, <1>t DEF SaveNoticeRaises, Goto
    <2>2. articles'[r] = articles[r] => \A p : Current(r, p)' <=> Current(r, p)
      BY DEF Current
    <2> QED BY <2>1, <2>2, <1>t DEF FileRun, BeforeNotices
  <1> QED
    BY <1>1, <1>2, <1>3, <1>4, <1>5, <1>6, <1>7, <1>8, <1>9, <1>11, <1>12, <1>13
    DEF Alone, Progress, Failure, AbortBeforeWork, FinishDb, WriteFile, SaveFileFails, Crash,
        ListRaises, SendPhotoRaises, SendPoisonedPhoto

\* The file is empty while a run writes it, and otherwise holds what some run
\* left, all of it passed by that run's account.
LEMMA FileStep ==
  ASSUME WholeWrites, CursorInv, TypeInv', ToldKept, PageGrows, NEW r \in Runs, Alone(r),
         NEW b \in Boards
  PROVE  IF pc'[r] = "writeFile" THEN file'[b] = 0 ELSE Passes(b, file[b])'
  <1>t. /\ TypeInv /\ FileRun(r) /\ (\A q \in Runs : q = r)
        /\ pc \in [Runs -> Labels] /\ file \in [Boards -> Cursor]
        /\ lastSeen \in [Runs -> [Boards -> Cursor]]
    BY DEF CursorInv, DeliveryInv, TypeInv, TypeOK, SharedTypeOK, LocalTypeOK, Alone
  <1>1. CASE WriteFile(r)
    <2>1. /\ pc[r] = "writeFile" /\ file'[b] = lastSeen[r][b]
          /\ UNCHANGED <<newest, sent, gaveUp>> /\ pc'[r] = "idle"
      BY <1>1, <1>t DEF WriteFile, Exit, Goto, world
    <2>2. Passes(b, lastSeen[r][b])
      BY <2>1, <1>t DEF FileRun
    <2> QED BY <2>1, <2>2 DEF Passes, Page, Told, Delivered, Parts
  <1>2. CASE OpenFile(r)
    BY <1>2, <1>t DEF OpenFile, Goto, NoCursor
  <1>3. CASE ~WriteFile(r) /\ ~OpenFile(r)
    <2>1. file' = file /\ pc[r] # "writeFile"
      <3>1. ASSUME Progress(r) PROVE file' = file /\ pc[r] # "writeFile"
        BY <1>3, <3>1
        DEF Progress, Connect, Load, ListPhotos, ListNotices, List, SendPhoto, SendPoisonedPhoto,
            SavePhoto, SendNotice, SaveNotice, FinishDb, store
      <3>2. ASSUME Failure(r) PROVE file' = file /\ pc[r] # "writeFile"
        BY <3>2
        DEF WholeWrites, Fault, Failure, ConnectFails, AbortBeforeWork, ListRaises, SendPhotoRaises,
            SavePhotoRaises, NoticeAttemptRaises, SaveNoticeRaises, SaveFileFails, Crash, store
      <3> QED BY <3>1, <3>2 DEF Alone
    <2>2. Passes(b, file[b]) /\ pc'[r] # "writeFile"
      <3>1. Passes(b, file[b])
        BY <2>1, <1>t DEF CursorInv
      <3>2. pc'[r] # "writeFile"
        BY <1>3, <2>1, <1>t
        DEF Alone, Progress, Connect, Load, ListPhotos, ListNotices, List, SendPhoto,
            SendPoisonedPhoto, Escape, SavePhoto, NextArticle, SendNotice, SaveNotice,
            FinishDb, Exit, Failure, ConnectFails, AbortBeforeWork, ListRaises,
            SendPhotoRaises, SavePhotoRaises, NoticeAttemptRaises, SaveNoticeRaises,
            SaveFileFails, Crash, Goto
      <3> QED BY <3>1, <3>2
    <2>3. PICK m \in Cursor : m = file[b]
      BY <1>t
    <2>4. Passes(b, m)' /\ file'[b] = m
      BY <2>1, <2>2, <2>3, <1>t, PassesKept
    <2> QED BY <2>2, <2>4 DEF Passes
  <1> QED BY <1>1, <1>2, <1>3

LEMMA CursorInit == ASSUME WholeWrites PROVE Init => CursorInv
  <1> SUFFICES ASSUME Init PROVE CursorInv
    OBVIOUS
  <1>1. DeliveryInv
    BY DeliveryInit
  <1>2. ASSUME NEW b \in Boards PROVE Passes(b, file[b])
    <2>1. /\ FileInit[b] \in Int /\ Baseline[b] \in Int /\ FileInit[b] <= Baseline[b]
          /\ 0 < FileInit[b] /\ file[b] = FileInit[b] /\ newest[b] = Baseline[b]
      BY BoundsAssumption, ConfigAssumption DEF WholeWrites, Init, Cursor
    <2>2. ASSUME NEW p \in Page(b), p <= FileInit[b] PROVE Delivered(b, p)
      <3>1. p \in Ids /\ p <= Baseline[b]
        BY <2>1, <2>2, BoundsAssumption DEF Page, Ids
      <3>2. \A k \in 1..Parts(b, p) : <<b, p, k>> \in Messages
        BY <3>1, PartsType, BoundsAssumption DEF Messages
      <3>3. \A k \in 1..Parts(b, p) : sent[<<b, p, k>>] = 1
        BY <3>1, <3>2 DEF Init
      <3> QED BY <3>3 DEF Delivered
    <2> QED BY <2>1, <2>2 DEF Passes, Told
  <1>3. \A r \in Runs : FileRun(r)
    BY DEF Init, FileRun
  <1>4. \A r \in Runs : pc[r] # "writeFile"
    BY DEF Init
  <1> QED BY <1>1, <1>2, <1>3, <1>4 DEF CursorInv

LEMMA CursorStep == ASSUME SingleRun, WholeWrites PROVE CursorInv /\ [Next]_vars => CursorInv'
  <1> SUFFICES ASSUME CursorInv, [Next]_vars PROVE CursorInv'
    OBVIOUS
  <1>1. DeliveryInv' /\ TypeInv /\ TypeInv' /\ ToldKept /\ PageGrows
    BY DeliveryStep, ToldStep, PageStep DEF CursorInv, DeliveryInv
  <1>2. CASE Quiet
    <2>1. \A r \in Runs : FileRun(r)'
      BY <1>1, <1>2, FileRunKept DEF CursorInv, Quiet
    <2>2. ASSUME NEW b \in Boards, ~\E r \in Runs : pc'[r] = "writeFile"
          PROVE  Passes(b, file[b])'
      <3>1. PICK m \in Cursor : m = file[b]
        BY <1>1 DEF TypeInv, TypeOK, SharedTypeOK
      <3>2. Passes(b, m) /\ file'[b] = m
        BY <1>2, <2>2, <3>1 DEF CursorInv, Quiet, SameLocals
      <3> QED BY <1>1, <3>1, <3>2, PassesKept DEF Passes
    <2>3. ASSUME NEW b \in Boards, \E r \in Runs : pc'[r] = "writeFile"
          PROVE  file'[b] = 0
      BY <1>2, <2>3 DEF CursorInv, Quiet, SameLocals
    <2> QED BY <1>1, <2>1, <2>2, <2>3 DEF CursorInv
  <1>3. ASSUME NEW r \in Runs, Alone(r) PROVE CursorInv'
    <2>1. FileRun(r)'
      BY <1>1, <1>3, FileRunStep
    <2>2. \A b \in Boards :
            IF pc'[r] = "writeFile" THEN file'[b] = 0 ELSE Passes(b, file[b])'
      BY <1>1, <1>3, FileStep
    <2> QED BY <1>1, <1>3, <2>1, <2>2 DEF CursorInv, Alone
  <1> QED BY <1>2, <1>3, AloneOrQuiet

\* One run at a time, the file seeded and never left half written: whether a
\* run had its database or not, the cursor in the file passes no post on the
\* page that was neither announced nor given up on.
THEOREM FileCorrect == ASSUME SingleRun, WholeWrites PROVE Spec => []FileCursorCovers
  <1>1. Spec => []CursorInv
    BY CursorInit, CursorStep, PTL DEF Spec
  <1>2. CursorInv => FileCursorCovers
    <2> SUFFICES ASSUME CursorInv, NEW b \in Boards, NEW p \in Page(b),
                        FileInit[b] <= p, p <= file[b]
                 PROVE  Told(b, p)
      BY DEF FileCursorCovers, Told
    <2>1. p \in Int /\ p > 0
      BY BoundsAssumption DEF Page, Ids
    <2>2. file[b] # 0
      BY <2>1
    <2> QED BY <2>2 DEF CursorInv, Passes
  <1> QED BY <1>1, <1>2, PTL
=============================================================================
