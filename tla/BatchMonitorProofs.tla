-------------------------- MODULE BatchMonitorProofs --------------------------
(***************************************************************************)
(* What holds of BatchMonitor for every number of overlapping runs, every  *)
(* page size, retry bound and fault budget.                                *)
(***************************************************************************)
EXTENDS BatchMonitor, TLAPS

\* Before a run reaches its notices, and at each notice it turns to, it is at
\* the first part; it never counts past the last one.
BeforeNotices == {"idle", "load", "listPhoto", "sendPhoto", "savePhoto", "listNotice"}
PartOK ==
  \A r \in Runs :
    /\ pc[r] \in BeforeNotices => part[r] = 1
    /\ pc[r] = "sendNotice" =>
         \A p \in articles[r] : Current(r, p) => part[r] <= Parts(Notice, p)

TypeInv == TypeOK /\ PartOK

LEMMA PartsType == \A b \in Boards, p \in Ids : Parts(b, p) \in 1..MaxParts
  BY BoundsAssumption, ConfigAssumption DEF Parts

LEMMA CursorFacts == 0 \in Cursor /\ Ids \subseteq Cursor
  BY BoundsAssumption DEF Cursor, Ids

\* A run that ends, and one that moves on to its next article, keep their
\* locals in range.
LEMMA ExitType ==
  ASSUME TypeInv, NEW r \in Runs, Exit(r), newest' = newest, 
         posts' = posts, file' \in [Boards -> Cursor], sent' = sent, gaveUp' = gaveUp,
         faults' \in 0..MaxFaults
  PROVE  TypeInv'
  <1>0. NoCursor \in [Boards -> Cursor]
    BY CursorFacts DEF NoCursor
  <1>1. TypeOK'
    BY <1>0, CursorFacts, BoundsAssumption DEF TypeInv, TypeOK, SharedTypeOK, LocalTypeOK, Exit, Goto, Labels
  <1>2. PartOK'
    BY DEF TypeInv, TypeOK, SharedTypeOK, LocalTypeOK, PartOK, Exit, Goto, BeforeNotices, Current, Parts, Labels
  <1> QED BY <1>1, <1>2 DEF TypeInv

LEMMA NextArticleType ==
  ASSUME TypeInv, NEW r \in Runs, NEW b \in Boards, NEW p \in articles[r],
         NEW loop \in {"sendPhoto", "sendNotice"},
         NEW after \in {"listNotice", "finally"},
         pc[r] # "idle",
         NextArticle(r, b, p, loop, after),
         newest' = newest, file' = file, sent' = sent, gaveUp' = gaveUp,
         posts' \in [Boards -> [Ids -> {"none", "SUCCESS", "FAIL"}]],
         faults' \in 0..MaxFaults
  PROVE  TypeInv'
  <1>1. p \in Ids /\ maxId'[r] \in Cursor
    BY CursorFacts DEF TypeInv, TypeOK, SharedTypeOK, LocalTypeOK, NextArticle
  <1>2. TypeOK'
    <2>1. SharedTypeOK'
      BY DEF TypeInv, TypeOK, SharedTypeOK, LocalTypeOK
    <2>2. lastSeen[r] \in [Boards -> Cursor]
      BY DEF TypeInv, TypeOK, SharedTypeOK, LocalTypeOK
    <2>3. [lastSeen[r] EXCEPT ![b] = maxId'[r]] \in [Boards -> Cursor]
      BY <1>1, <2>2
    <2>4. lastSeen' \in [Runs -> [Boards -> Cursor]]
      BY <2>3 DEF TypeInv, TypeOK, SharedTypeOK, LocalTypeOK, NextArticle
    <2>5. maxId' \in [Runs -> Cursor]
      BY <1>1 DEF TypeInv, TypeOK, SharedTypeOK, LocalTypeOK, NextArticle
    <2>6. 1 \in 1..MaxAttempts /\ 1 \in 1..MaxParts /\ 1 \in 1..MaxSaveTries
      BY BoundsAssumption
    <2>t. LocalTypeOK
      BY DEF TypeInv, TypeOK
    <2>a. pc' \in [Runs -> Labels]
      BY <2>t DEF LocalTypeOK, NextArticle, Goto, Labels
    <2>b. /\ attempt' \in [Runs -> 1..MaxAttempts] /\ part' \in [Runs -> 1..MaxParts]
          /\ saveTry' \in [Runs -> 1..MaxSaveTries] /\ outcome' \in [Runs -> {"SUCCESS", "FAIL"}]
      BY <2>t, <2>6 DEF LocalTypeOK, NextArticle
    <2>c. articles' \in [Runs -> SUBSET Ids] /\ mode' \in [Runs -> {"none", "db", "file"}]
      BY <2>t DEF LocalTypeOK, NextArticle
    <2>7. LocalTypeOK'
      BY <2>4, <2>5, <2>a, <2>b, <2>c DEF LocalTypeOK
    <2> QED BY <2>1, <2>7 DEF TypeOK
  <1>3. PartOK'
    BY PartsType, BoundsAssumption, ConfigAssumption
    DEF TypeInv, TypeOK, SharedTypeOK, LocalTypeOK, PartOK, NextArticle, Goto, BeforeNotices, Current, Labels,
        Boards, Parts
  <1> QED BY <1>2, <1>3 DEF TypeInv

LEMMA TypeInit == Init => TypeInv
  <1> SUFFICES ASSUME Init PROVE TypeInv
    OBVIOUS
  <1>1. TypeOK
    <2>1. NoCursor \in [Boards -> Cursor]
      BY CursorFacts DEF NoCursor
    <2>2. sent \in [Messages -> 0..SentCap]
      BY BoundsAssumption DEF Init
    <2>3. 0 \in 0..MaxFaults
      BY BoundsAssumption
    <2> QED
      BY <2>1, <2>2, <2>3, CursorFacts, BoundsAssumption, ConfigAssumption
      DEF Init, TypeOK, SharedTypeOK, LocalTypeOK, Labels
  <1>2. PartOK
    BY DEF Init, PartOK, BeforeNotices
  <1> QED BY <1>1, <1>2 DEF TypeInv

LEMMA FaultType == ASSUME TypeInv, NEW kind, Fault(kind) PROVE faults' \in 0..MaxFaults
  BY BoundsAssumption DEF TypeInv, TypeOK, SharedTypeOK, LocalTypeOK, Fault

LEMMA DeliverType ==
  ASSUME TypeInv, NEW b \in Boards, NEW p \in Ids, NEW k \in 1..MaxParts,
         MayDeliver(b, p, k)
  PROVE  sent' \in [Messages -> 0..SentCap]
  <1>1. <<b, p, k>> \in Messages
    BY DEF Messages
  <1>2. sent \in [Messages -> 0..SentCap]
    BY DEF TypeInv, TypeOK, SharedTypeOK, LocalTypeOK
  <1>3. CASE Deliver(b, p, k)
    BY <1>1, <1>2, <1>3, BoundsAssumption DEF Deliver
  <1> QED BY <1>2, <1>3 DEF MayDeliver

LEMMA UpsertType ==
  ASSUME TypeInv, NEW b \in Boards, NEW p \in Ids, NEW status \in {"SUCCESS", "FAIL"},
         Upsert(b, p, status) \/ UNCHANGED posts
  PROVE  posts' \in [Boards -> [Ids -> {"none", "SUCCESS", "FAIL"}]]
  <1> DEFINE Row == {"none", "SUCCESS", "FAIL"}
  <1>1. posts \in [Boards -> [Ids -> Row]]
    BY DEF TypeInv, TypeOK, SharedTypeOK, LocalTypeOK
  <1>2. [posts[b] EXCEPT ![p] = status] \in [Ids -> Row]
    BY <1>1
  <1> QED BY <1>1, <1>2 DEF Upsert

LEMMA TypeStep == TypeInv /\ [Next]_vars => TypeInv'
  <1> SUFFICES ASSUME TypeInv, [Next]_vars PROVE TypeInv'
    OBVIOUS
  <1>t. TypeOK /\ PartOK BY DEF TypeInv
  <1>b. Photo \in Boards /\ Notice \in Boards BY DEF Boards
  <1>1. ASSUME NEW b \in Boards, Publish(b) PROVE TypeInv'
    <2>1. newest' \in [Boards -> Cursor]
      BY <1>1, <1>t, BoundsAssumption DEF Publish, TypeOK, SharedTypeOK, LocalTypeOK, Cursor
    <2> QED BY <1>1, <1>t, <2>1
        DEF Publish, TypeInv, TypeOK, SharedTypeOK, LocalTypeOK, PartOK, store, local, Current, Messages
  <1>2. ASSUME NEW r \in Runs, Connect(r) \/ ConnectFails(r) PROVE TypeInv'
    <2>1. faults' \in 0..MaxFaults
      BY <1>2, <1>t, FaultType DEF Connect, ConnectFails, world, TypeOK, SharedTypeOK, LocalTypeOK
    <2>2. TypeOK'
      BY <1>2, <1>t, <2>1
      DEF Connect, ConnectFails, world, store, TypeOK, SharedTypeOK, LocalTypeOK, Goto, Labels
    <2>3. PartOK'
      BY <1>2, <1>t
      DEF Connect, ConnectFails, world, store, TypeOK, SharedTypeOK, LocalTypeOK, PartOK, Goto, Labels,
          BeforeNotices, Current
    <2> QED BY <2>2, <2>3 DEF TypeInv
  <1>3. ASSUME NEW r \in Runs, Load(r) PROVE TypeInv'
    <2>1. lastSeen' \in [Runs -> [Boards -> Cursor]]
      BY <1>3, <1>t DEF Load, TypeOK, SharedTypeOK, LocalTypeOK
    <2>2. TypeOK'
      BY <1>3, <1>t, <2>1 DEF Load, world, store, TypeOK, SharedTypeOK, LocalTypeOK, Goto, Labels
    <2>3. PartOK'
      BY <1>3, <1>t
      DEF Load, world, store, TypeOK, SharedTypeOK, LocalTypeOK, PartOK, Goto, Labels, BeforeNotices, Current
    <2> QED BY <2>2, <2>3 DEF TypeInv
  <1>4. ASSUME NEW r \in Runs,
               AbortBeforeWork(r) \/ FinishDb(r) \/ WriteFile(r) \/ SaveFileFails(r) \/ Crash(r)
        PROVE  TypeInv'
    <2>1. faults' \in 0..MaxFaults
      BY <1>4, <1>t, FaultType
      DEF AbortBeforeWork, FinishDb, WriteFile, SaveFileFails, Crash, world, TypeOK, SharedTypeOK, LocalTypeOK
    <2>2. file' \in [Boards -> Cursor]
      BY <1>4, <1>t
      DEF AbortBeforeWork, FinishDb, WriteFile, SaveFileFails, Crash, store, TypeOK, SharedTypeOK, LocalTypeOK
    <2>3. Exit(r) /\ UNCHANGED <<newest, posts, sent, gaveUp>>
      BY <1>4 DEF AbortBeforeWork, FinishDb, WriteFile, SaveFileFails, Crash, world, store
    <2> QED BY <2>1, <2>2, <2>3, ExitType
  <1>5. ASSUME NEW r \in Runs, ListPhotos(r) \/ ListNotices(r) PROVE TypeInv'
    <2>0. PICK b \in Boards, here \in {"listPhoto", "listNotice"},
               loop \in {"sendPhoto", "sendNotice"}, none \in {"listNotice", "finally"} :
               List(r, b, here, loop, none)
      BY <1>5, <1>b DEF ListPhotos, ListNotices
    <2>1. ToProcess(r, b) \subseteq Ids
      BY DEF ToProcess, NewestOnly, Fresh, Page
    <2>2. lastSeen[r][b] \in Cursor
      BY <1>t DEF TypeOK, SharedTypeOK, LocalTypeOK
    <2>3. TypeOK'
      <3>1. SharedTypeOK'
        BY <2>0, <1>t DEF List, world, store, TypeOK, SharedTypeOK, LocalTypeOK
      <3>2. articles' \in [Runs -> SUBSET Ids] /\ maxId' \in [Runs -> Cursor]
        <4>1. CASE Fresh(r, b) = {}
          BY <2>0, <4>1, <1>t DEF List, TypeOK, SharedTypeOK, LocalTypeOK
        <4>2. CASE Fresh(r, b) # {}
          <5>1. articles' = [articles EXCEPT ![r] = ToProcess(r, b)]
            BY <2>0, <4>2 DEF List
          <5>2. maxId' = [maxId EXCEPT ![r] = lastSeen[r][b]]
            BY <2>0, <4>2 DEF List
          <5> QED BY <5>1, <5>2, <2>1, <2>2, <1>t DEF TypeOK, SharedTypeOK, LocalTypeOK
        <4> QED BY <4>1, <4>2
      <3>3. LocalTypeOK'
        BY <2>0, <3>2, <1>t DEF List, TypeOK, SharedTypeOK, LocalTypeOK, Goto, Labels
      <3> QED BY <3>1, <3>3 DEF TypeOK
    <2>4. part[r] = 1 /\ pc'[r] \in {"sendPhoto", "sendNotice", "listNotice", "finally"}
      BY <2>0, <1>t DEF List, PartOK, BeforeNotices, Goto, TypeOK, SharedTypeOK, LocalTypeOK
    <2>5. PartOK'
      BY <2>0, <2>1, <2>4, <1>t, <1>b, PartsType, BoundsAssumption
      DEF List, TypeOK, SharedTypeOK, LocalTypeOK, PartOK, Goto, Labels, BeforeNotices, Current, Parts
    <2> QED BY <2>3, <2>5 DEF TypeInv
  <1>6. ASSUME NEW r \in Runs,
               ListRaises(r) \/ SendPhotoRaises(r) \/ SendPoisonedPhoto(r) PROVE TypeInv'
    <2>1. faults' \in 0..MaxFaults
      BY <1>6, <1>t, FaultType DEF ListRaises, SendPhotoRaises, SendPoisonedPhoto, world, TypeOK, SharedTypeOK, LocalTypeOK
    <2>2. sent' \in [Messages -> 0..SentCap]
      BY <1>6, <1>t, <1>b, DeliverType, BoundsAssumption
      DEF ListRaises, SendPhotoRaises, SendPoisonedPhoto, TypeOK, SharedTypeOK, LocalTypeOK
    <2>3. /\ Escape(r) /\ pc[r] # "idle"
          /\ UNCHANGED <<newest, posts, file, gaveUp>>
      BY <1>6 DEF ListRaises, SendPhotoRaises, SendPoisonedPhoto, world, store
    <2>4. TypeOK'
      BY <2>1, <2>2, <2>3, <1>t DEF Escape, TypeOK, SharedTypeOK, LocalTypeOK, Goto, Labels
    <2>5. PartOK'
      BY <2>3, <1>t DEF Escape, TypeOK, SharedTypeOK, LocalTypeOK, PartOK, Goto, BeforeNotices, Current, Labels
    <2> QED BY <2>4, <2>5 DEF TypeInv
  <1>7. ASSUME NEW r \in Runs, SendPhoto(r) PROVE TypeInv'
    <2>1. sent' \in [Messages -> 0..SentCap]
      BY <1>7, <1>t, <1>b, DeliverType, BoundsAssumption DEF SendPhoto, MayDeliver, TypeOK, SharedTypeOK, LocalTypeOK
    <2>2. TypeOK'
      BY <1>7, <2>1, <1>t DEF SendPhoto, world, store, local, TypeOK, SharedTypeOK, LocalTypeOK, Goto, Labels
    <2>3. PartOK'
      BY <1>7, <1>t DEF SendPhoto, local, TypeOK, SharedTypeOK, LocalTypeOK, PartOK, Goto, BeforeNotices, Current, Labels
    <2> QED BY <2>2, <2>3 DEF TypeInv
  <1>8. ASSUME NEW r \in Runs, SavePhoto(r) \/ SavePhotoRaises(r) \/ SaveNotice(r)
        PROVE  TypeInv'
    <2>1. faults' \in 0..MaxFaults
      BY <1>8, <1>t, FaultType
      DEF SavePhoto, SavePhotoRaises, SaveNotice, UpsertRaises, world, TypeOK, SharedTypeOK, LocalTypeOK
    <2>2. PICK p \in articles[r], b \in Boards, loop \in {"sendPhoto", "sendNotice"},
               after \in {"listNotice", "finally"}, status \in {"SUCCESS", "FAIL"} :
            /\ Upsert(b, p, status) \/ UNCHANGED posts
            /\ NextArticle(r, b, p, loop, after)
      BY <1>8, <1>t, <1>b
      DEF SavePhoto, SavePhotoRaises, SaveNotice, UpsertRaises, Record, TypeOK, SharedTypeOK, LocalTypeOK
    <2>3. posts' \in [Boards -> [Ids -> {"none", "SUCCESS", "FAIL"}]]
      BY <2>2, <1>t, UpsertType DEF TypeOK, SharedTypeOK, LocalTypeOK
    <2>4. pc[r] # "idle" /\ UNCHANGED <<newest, file, sent, gaveUp>>
      BY <1>8 DEF SavePhoto, SavePhotoRaises, SaveNotice, world
    <2> QED BY <2>1, <2>2, <2>3, <2>4, NextArticleType
  <1>9. ASSUME NEW r \in Runs, SendNotice(r) PROVE TypeInv'
    <2>1. PICK p \in articles[r] :
            /\ Current(r, p)
            /\ Deliver(Notice, p, part[r])
            /\ IF LastPart(r, Notice, p)
                 THEN Goto(r, "saveNotice") /\ UNCHANGED part
                 ELSE part' = [part EXCEPT ![r] = @ + 1] /\ UNCHANGED pc
      BY <1>9 DEF SendNotice
    <2>2. sent' \in [Messages -> 0..SentCap]
      BY <2>1, <1>t, <1>b, DeliverType DEF MayDeliver, TypeOK, SharedTypeOK, LocalTypeOK
    <2>3. part[r] <= Parts(Notice, p) /\ Parts(Notice, p) \in 1..MaxParts /\ p \in Ids
      BY <2>1, <1>9, <1>t, <1>b, PartsType DEF PartOK, SendNotice, TypeOK, SharedTypeOK, LocalTypeOK
    <2>4. part' \in [Runs -> 1..MaxParts]
      <3>1. part[r] \in Nat /\ part \in [Runs -> 1..MaxParts]
        BY <1>t DEF TypeOK, SharedTypeOK, LocalTypeOK
      <3>2. ~LastPart(r, Notice, p) => part[r] + 1 \in 1..MaxParts
        BY <3>1, <2>3, BoundsAssumption DEF LastPart
      <3> QED BY <2>1, <3>1, <3>2
    <2>5. TypeOK'
      BY <1>9, <2>1, <2>2, <2>4, <1>t DEF SendNotice, world, store, TypeOK, SharedTypeOK, LocalTypeOK, Goto, Labels
    <2>6. \A q \in articles[r] : Current(r, q) => q = p
      BY <2>1, <1>t DEF Current, TypeOK, SharedTypeOK, LocalTypeOK, Ids
    <2>7. ~LastPart(r, Notice, p) => part[r] + 1 <= Parts(Notice, p)
      <3>1. part[r] \in Nat /\ Parts(Notice, p) \in Nat
        BY <1>t, <2>3 DEF TypeOK, SharedTypeOK, LocalTypeOK
      <3> QED BY <2>3, <3>1 DEF LastPart
    <2>a. /\ pc[r] = "sendNotice" /\ pc'[r] \in {"sendNotice", "saveNotice"}
          /\ pc'[r] = "sendNotice" => ~LastPart(r, Notice, p)
          /\ articles' = articles /\ part' = [part EXCEPT ![r] = IF LastPart(r, Notice, p) THEN @ ELSE @ + 1]
          /\ \A q \in Runs \ {r} : pc'[q] = pc[q]
      BY <1>9, <2>1, <1>t DEF SendNotice, Goto, TypeOK, LocalTypeOK
    <2>b. /\ \A q \in Runs \ {r} : part'[q] = part[q]
          /\ ~LastPart(r, Notice, p) => part'[r] = part[r] + 1
      BY <2>a, <1>t DEF TypeOK, LocalTypeOK
    <2>8. PartOK'
      BY <2>a, <2>b, <2>6, <2>7, <1>t DEF PartOK, BeforeNotices, Current, Parts
    <2> QED BY <2>5, <2>8 DEF TypeInv
  <1>10. ASSUME NEW r \in Runs, NoticeAttemptRaises(r) PROVE TypeInv'
    <2>1. PICK p \in articles[r] :
            /\ Current(r, p)
            /\ MayDeliver(Notice, p, part[r])
            /\ part' = [part EXCEPT ![r] = 1]
            /\ IF MayRetry(r)
                 THEN /\ attempt' = [attempt EXCEPT ![r] = @ + 1]
                      /\ UNCHANGED <<gaveUp, pc, outcome>>
                 ELSE /\ gaveUp' = gaveUp \cup {p}
                      /\ Goto(r, "saveNotice")
                      /\ outcome' = [outcome EXCEPT ![r] = "FAIL"]
                      /\ UNCHANGED attempt
      BY <1>10 DEF NoticeAttemptRaises
    <2>2. sent' \in [Messages -> 0..SentCap]
      BY <2>1, <1>t, <1>b, DeliverType DEF TypeOK, SharedTypeOK, LocalTypeOK
    <2>3. faults' \in 0..MaxFaults
      BY <1>10, <1>t, FaultType DEF NoticeAttemptRaises, TypeInv
    <2>4. attempt' \in [Runs -> 1..MaxAttempts]
      BY <2>1, <1>t, BoundsAssumption DEF MayRetry, TypeOK, SharedTypeOK, LocalTypeOK
    <2>5. TypeOK'
      <3>1. SharedTypeOK'
        BY <1>10, <2>1, <2>2, <2>3, <1>t DEF NoticeAttemptRaises, store, TypeOK, SharedTypeOK, LocalTypeOK
      <3>2. 1 \in 1..MaxParts
        BY BoundsAssumption
      <3>t. LocalTypeOK
        BY <1>t DEF TypeOK
      <3>a. pc' \in [Runs -> Labels]
        BY <2>1, <3>t DEF LocalTypeOK, Goto, Labels
      <3>b. part' \in [Runs -> 1..MaxParts] /\ outcome' \in [Runs -> {"SUCCESS", "FAIL"}]
        BY <2>1, <3>2, <3>t DEF LocalTypeOK
      <3>c. UNCHANGED <<mode, lastSeen, articles, maxId, saveTry>>
        BY <1>10 DEF NoticeAttemptRaises
      <3>3. LocalTypeOK'
        BY <2>4, <3>a, <3>b, <3>c, <3>t DEF LocalTypeOK
      <3> QED BY <3>1, <3>3 DEF TypeOK
    <2>6. PartOK'
      BY <1>10, <2>1, <1>t, <1>b, PartsType, BoundsAssumption
      DEF NoticeAttemptRaises, TypeOK, SharedTypeOK, LocalTypeOK, PartOK, Goto, BeforeNotices, Current, Labels, Parts
    <2> QED BY <2>5, <2>6 DEF TypeInv
  <1>11. ASSUME NEW r \in Runs, SaveNoticeRaises(r) PROVE TypeInv'
    <2>1. PICK p \in articles[r] : Current(r, p) /\ UpsertRaises(Notice, p, outcome[r])
      BY <1>11 DEF SaveNoticeRaises
    <2>2. posts' \in [Boards -> [Ids -> {"none", "SUCCESS", "FAIL"}]]
      <3>1. p \in Ids /\ outcome[r] \in {"SUCCESS", "FAIL"}
        BY <1>t DEF TypeOK, SharedTypeOK, LocalTypeOK
      <3> QED BY <2>1, <3>1, <1>b, UpsertType DEF UpsertRaises
    <2>3. faults' \in 0..MaxFaults
      BY <2>1, FaultType DEF UpsertRaises
    <2>4. saveTry' \in [Runs -> 1..MaxSaveTries]
      <3>1. saveTry \in [Runs -> 1..MaxSaveTries]
        BY <1>t DEF TypeOK, SharedTypeOK, LocalTypeOK
      <3>2. saveTry[r] < MaxSaveTries => saveTry[r] + 1 \in 1..MaxSaveTries
        BY <3>1, BoundsAssumption
      <3> QED BY <1>11, <3>1, <3>2 DEF SaveNoticeRaises
    <2>5. TypeOK'
      <3>1. SharedTypeOK'
        BY <1>11, <2>2, <2>3, <1>t DEF SaveNoticeRaises, TypeOK, SharedTypeOK, LocalTypeOK
      <3>2. maxId[r] \in Cursor /\ lastSeen[r] \in [Boards -> Cursor]
        BY <1>t DEF TypeOK, SharedTypeOK, LocalTypeOK
      <3>3. [lastSeen[r] EXCEPT ![Notice] = maxId[r]] \in [Boards -> Cursor]
        BY <3>2
      <3>4. lastSeen' \in [Runs -> [Boards -> Cursor]]
        BY <1>11, <3>3, <1>t DEF SaveNoticeRaises, TypeOK, SharedTypeOK, LocalTypeOK
      <3>5. LocalTypeOK'
        BY <1>11, <2>4, <3>4, <1>t DEF SaveNoticeRaises, TypeOK, SharedTypeOK, LocalTypeOK, Goto, Labels
      <3> QED BY <3>1, <3>5 DEF TypeOK
    <2>6. PartOK'
      BY <1>11, <1>t
      DEF SaveNoticeRaises, TypeOK, SharedTypeOK, LocalTypeOK, PartOK, Goto, BeforeNotices, Current, Labels
    <2> QED BY <2>5, <2>6 DEF TypeInv
  <1>12. ASSUME NEW r \in Runs, OpenFile(r) PROVE TypeInv'
    <2>1. file' \in [Boards -> Cursor]
      BY <1>12, CursorFacts DEF OpenFile, NoCursor
    <2>2. TypeOK'
      BY <1>12, <2>1, <1>t DEF OpenFile, world, local, TypeOK, SharedTypeOK, LocalTypeOK, Goto, Labels
    <2>3. PartOK'
      BY <1>12, <1>t DEF OpenFile, local, TypeOK, SharedTypeOK, LocalTypeOK, PartOK, Goto, BeforeNotices, Current, Labels
    <2> QED BY <2>2, <2>3 DEF TypeInv
  <1>13. CASE UNCHANGED vars
    BY <1>13, <1>t DEF vars, TypeInv, TypeOK, SharedTypeOK, LocalTypeOK, PartOK, Current
  <1> QED
    BY <1>1, <1>2, <1>3, <1>4, <1>5, <1>6, <1>7, <1>8, <1>9, <1>10, <1>11, <1>12, <1>13
    DEF Next, Progress, Failure

\* Every variable of the batch stays in its range: attempts and save tries
\* never exceed their bounds, parts never run past the announcement, and a
\* process that ended holds no mode.
THEOREM TypeCorrect == Spec => []TypeOK
  <1>1. Spec => []TypeInv
    BY TypeInit, TypeStep, PTL DEF Spec
  <1>2. TypeInv => TypeOK
    BY DEF TypeInv
  <1> QED BY <1>1, <1>2, PTL

-----------------------------------------------------------------------------
(* A SUCCESS row means the announcement was delivered *)

\* What a run has delivered of the article it is at: nothing is claimed while
\* it is still sending a photo, the parts before the current one of a notice,
\* everything once it is about to record SUCCESS.
SoFar(r) ==
  \A p \in articles[r] : Current(r, p) =>
    /\ pc[r] = "savePhoto" => Delivered(Photo, p)
    /\ pc[r] = "sendNotice" =>
         \A k \in 1..MaxParts : k < part[r] => sent[<<Notice, p, k>>] > 0
    /\ pc[r] = "saveNotice" /\ outcome[r] = "SUCCESS" => Delivered(Notice, p)

DeliveryInv == TypeInv /\ (\A r \in Runs : SoFar(r)) /\ SuccessMeansDelivered

SentKept == \A m \in Messages : sent[m] > 0 => sent'[m] > 0

LEMMA DeliverKeeps ==
  ASSUME TypeInv, NEW b \in Boards, NEW p \in Ids, NEW k \in 1..MaxParts,
         MayDeliver(b, p, k)
  PROVE  SentKept
  <1>1. sent \in [Messages -> 0..SentCap]
    BY DEF TypeInv, TypeOK, SharedTypeOK
  <1> QED BY <1>1, BoundsAssumption DEF SentKept, MayDeliver, Deliver

LEMMA DeliverCounts ==
  ASSUME TypeInv, NEW b \in Boards, NEW p \in Ids, NEW k \in 1..MaxParts,
         Deliver(b, p, k)
  PROVE  sent'[<<b, p, k>>] > 0
  <1>1. sent \in [Messages -> 0..SentCap] /\ <<b, p, k>> \in Messages
    BY DEF TypeInv, TypeOK, SharedTypeOK, Messages
  <1> QED BY <1>1, BoundsAssumption DEF Deliver

LEMMA SentStep == ASSUME TypeInv, [Next]_vars PROVE SentKept
  <1>t. articles \in [Runs -> SUBSET Ids] /\ part \in [Runs -> 1..MaxParts]
    BY DEF TypeInv, TypeOK, LocalTypeOK
  <1>b. Photo \in Boards /\ Notice \in Boards /\ 1 \in 1..MaxParts
    BY BoundsAssumption DEF Boards
  <1>1. CASE UNCHANGED sent
    BY <1>1 DEF SentKept
  <1>2. CASE \E b \in Boards, p \in Ids, k \in 1..MaxParts : MayDeliver(b, p, k)
    BY <1>2, DeliverKeeps
  <1>3. UNCHANGED sent \/ \E b \in Boards, p \in Ids, k \in 1..MaxParts : MayDeliver(b, p, k)
    <2>1. CASE \E r \in Runs : SendPhoto(r) \/ SendPhotoRaises(r)
      BY <2>1, <1>t, <1>b DEF SendPhoto, SendPhotoRaises, MayDeliver
    <2>2. CASE \E r \in Runs : SendNotice(r) \/ NoticeAttemptRaises(r)
      BY <2>2, <1>t, <1>b DEF SendNotice, NoticeAttemptRaises, MayDeliver
    <2>3. CASE UNCHANGED vars
      BY <2>3 DEF vars
    <2>4. ASSUME NEW b \in Boards, Publish(b) PROVE UNCHANGED sent
      BY <2>4 DEF Publish
    <2>5. ASSUME NEW r \in Runs,
                 \/ Connect(r) \/ ConnectFails(r) \/ Load(r) \/ AbortBeforeWork(r)
                 \/ ListPhotos(r) \/ ListNotices(r) \/ ListRaises(r)
                 \/ SendPoisonedPhoto(r)
                 \/ SavePhoto(r) \/ SavePhotoRaises(r) \/ SaveNotice(r) \/ SaveNoticeRaises(r)
                 \/ FinishDb(r) \/ OpenFile(r) \/ WriteFile(r) \/ SaveFileFails(r) \/ Crash(r)
          PROVE  UNCHANGED sent
      BY <2>5 DEF Connect, ConnectFails, Load, AbortBeforeWork, ListPhotos, ListNotices,
                  List, ListRaises, SendPoisonedPhoto, SavePhoto, SavePhotoRaises,
                  SaveNotice, SaveNoticeRaises, FinishDb, OpenFile, WriteFile,
                  SaveFileFails, Crash
    <2> QED BY <2>1, <2>2, <2>3, <2>4, <2>5 DEF Next, Progress, Failure
  <1> QED BY <1>1, <1>2, <1>3

LEMMA DeliveredKept ==
  ASSUME SentKept, NEW b \in Boards, NEW p \in Ids, Delivered(b, p)
  PROVE  Delivered(b, p)'
  <1>1. \A k \in 1..Parts(b, p) : <<b, p, k>> \in Messages
    BY PartsType, BoundsAssumption DEF Messages
  <1> QED BY <1>1 DEF Delivered, SentKept, Parts

\* A run that does not move keeps what it has delivered so far.
SameLocals(r) == /\ pc'[r] = pc[r] /\ mode'[r] = mode[r]
                 /\ articles'[r] = articles[r] /\ lastSeen'[r] = lastSeen[r]
                 /\ part'[r] = part[r] /\ outcome'[r] = outcome[r]

LEMMA SoFarKept ==
  ASSUME TypeInv, SentKept, NEW r \in Runs, SoFar(r), SameLocals(r)
  PROVE  SoFar(r)'
  <1>1. articles[r] \subseteq Ids
    BY DEF TypeInv, TypeOK, LocalTypeOK
  <1>2. \A p \in Ids, k \in 1..MaxParts : <<Notice, p, k>> \in Messages
    BY DEF Messages, Boards
  <1>3. Photo \in Boards /\ Notice \in Boards
    BY DEF Boards
  <1>4. SUFFICES ASSUME NEW p \in articles[r], Current(r, p)
                 PROVE  /\ pc[r] = "savePhoto" => Delivered(Photo, p)'
                        /\ pc[r] = "sendNotice" =>
                             \A k \in 1..MaxParts : k < part[r] => sent'[<<Notice, p, k>>] > 0
                        /\ pc[r] = "saveNotice" /\ outcome[r] = "SUCCESS"
                             => Delivered(Notice, p)'
    BY DEF SoFar, SameLocals, Current
  <1>5. p \in Ids
    BY <1>1
  <1> QED BY <1>2, <1>3, <1>4, <1>5, DeliveredKept DEF SoFar, SentKept

\* A step is one run's, a publication, or a stutter: the other runs stay put.
LEMMA OneMoves ==
  ASSUME TypeInv, [Next]_vars
  PROVE  \/ \A q \in Runs : SameLocals(q)
         \/ \E r \in Runs : (Progress(r) \/ Failure(r)) /\ \A q \in Runs \ {r} : SameLocals(q)
  <1>1. ASSUME NEW b \in Boards, Publish(b) PROVE \A q \in Runs : SameLocals(q)
    BY <1>1 DEF Publish, local, SameLocals
  <1>2. CASE UNCHANGED vars
    BY <1>2 DEF vars, SameLocals
  <1>3. ASSUME NEW r \in Runs, Progress(r) \/ Failure(r), NEW q \in Runs \ {r}
        PROVE  SameLocals(q)
    <2>t. /\ pc \in [Runs -> Labels] /\ articles \in [Runs -> SUBSET Ids]
          /\ mode \in [Runs -> {"none", "db", "file"}]
          /\ lastSeen \in [Runs -> [Boards -> Cursor]]
          /\ part \in [Runs -> 1..MaxParts] /\ outcome \in [Runs -> {"SUCCESS", "FAIL"}]
      BY DEF TypeInv, TypeOK, LocalTypeOK
    <2>1. CASE Exit(r)
      BY <2>1, <2>t DEF Exit, Goto, SameLocals
    <2>2. CASE Escape(r)
      BY <2>2, <2>t DEF Escape, Goto, SameLocals
    <2>3. CASE \E b, p, loop, after : NextArticle(r, b, p, loop, after)
      BY <2>3, <2>t DEF NextArticle, Goto, SameLocals
    <2>4. CASE \E b, here, loop, none : List(r, b, here, loop, none)
      BY <2>4, <2>t DEF List, Goto, SameLocals
    <2>5. CASE Connect(r) \/ ConnectFails(r) \/ Load(r) \/ SendPhoto(r) \/ OpenFile(r)
      BY <2>5, <2>t
      DEF Connect, ConnectFails, Load, SendPhoto, OpenFile, local, Goto, SameLocals
    <2>6. CASE SendNotice(r) \/ NoticeAttemptRaises(r)
      BY <2>6, <2>t DEF SendNotice, NoticeAttemptRaises, Goto, SameLocals
    <2>7. CASE SaveNoticeRaises(r)
      BY <2>7, <2>t DEF SaveNoticeRaises, Goto, SameLocals
    <2>8. \/ Exit(r) \/ Escape(r)
          \/ \E b, p, loop, after : NextArticle(r, b, p, loop, after)
          \/ \E b, here, loop, none : List(r, b, here, loop, none)
          \/ Connect(r) \/ ConnectFails(r) \/ Load(r) \/ SendPhoto(r) \/ OpenFile(r)
          \/ SendNotice(r) \/ NoticeAttemptRaises(r) \/ SaveNoticeRaises(r)
      BY <1>3 DEF Progress, Failure, AbortBeforeWork, FinishDb, WriteFile, SaveFileFails,
                  Crash, ListRaises, SendPhotoRaises, SendPoisonedPhoto, SavePhoto,
                  SavePhotoRaises, SaveNotice, ListPhotos, ListNotices
    <2> QED BY <2>1, <2>2, <2>3, <2>4, <2>5, <2>6, <2>7, <2>8
  <1> QED BY <1>1, <1>2, <1>3 DEF Next

LEMMA OneCurrent ==
  ASSUME TypeInv, NEW r \in Runs, NEW p \in articles[r], NEW q \in articles[r],
         Current(r, p), Current(r, q)
  PROVE  p = q
  <1>1. p \in Ids /\ q \in Ids
    BY DEF TypeInv, TypeOK, LocalTypeOK
  <1> QED BY <1>1 DEF Current, Ids

\* The run that moves has delivered what its new position claims.
LEMMA SoFarStep ==
  ASSUME DeliveryInv, SentKept, TypeInv', NEW r \in Runs, Progress(r) \/ Failure(r)
  PROVE  SoFar(r)'
  <1>t. /\ TypeInv /\ SoFar(r)
        /\ pc \in [Runs -> Labels] /\ articles \in [Runs -> SUBSET Ids]
        /\ part \in [Runs -> 1..MaxParts] /\ outcome \in [Runs -> {"SUCCESS", "FAIL"}]
    BY DEF DeliveryInv, TypeInv, TypeOK, LocalTypeOK
  <1>b. Photo \in Boards /\ Notice \in Boards /\ 1 \in 1..MaxParts
    BY BoundsAssumption DEF Boards
  <1>q. CASE pc'[r] \notin {"savePhoto", "sendNotice", "saveNotice"}
    BY <1>q DEF SoFar
  <1>f. CASE part'[r] = 1 /\ pc'[r] = "sendNotice"
    BY <1>f DEF SoFar
  <1>1. CASE Exit(r)
    BY <1>1, <1>q, <1>t DEF Exit, Goto
  <1>2. CASE Escape(r)
    BY <1>2, <1>q, <1>t DEF Escape, Goto
  <1>3. CASE SavePhoto(r) \/ SavePhotoRaises(r)
    BY <1>3, <1>q, <1>t DEF SavePhoto, SavePhotoRaises, NextArticle, Goto
  <1>4. CASE SaveNotice(r)
    BY <1>4, <1>q, <1>f, <1>t DEF SaveNotice, NextArticle, Goto
  <1>5. CASE ListPhotos(r)
    BY <1>5, <1>q, <1>t DEF ListPhotos, List, Goto
  <1>6. CASE ListNotices(r)
    <2>1. part'[r] = 1
      BY <1>6, <1>t DEF ListNotices, List, TypeInv, PartOK, BeforeNotices
    <2>2. pc'[r] \in {"sendNotice", "finally"}
      BY <1>6, <1>t DEF ListNotices, List, Goto
    <2> QED BY <2>1, <2>2, <1>q, <1>f
  <1>7. CASE Connect(r) \/ ConnectFails(r) \/ Load(r) \/ OpenFile(r)
    BY <1>7, <1>q, <1>t DEF Connect, ConnectFails, Load, OpenFile, Goto
  <1>8. CASE SendPhoto(r)
    <2>1. PICK p \in articles[r] \ Poison : Current(r, p) /\ Deliver(Photo, p, 1)
      BY <1>8 DEF SendPhoto
    <2>2. p \in Ids /\ sent'[<<Photo, p, 1>>] > 0
      BY <2>1, <1>t, <1>b, DeliverCounts
    <2>3. Delivered(Photo, p)'
      BY <2>2 DEF Delivered, Parts
    <2>4. pc'[r] = "savePhoto" /\ articles'[r] = articles[r]
      BY <1>8, <1>t DEF SendPhoto, Goto, local
    <2>5. \A q \in articles[r] : Current(r, q) => q = p
      BY <2>1, <1>t, OneCurrent
    <2> QED BY <2>3, <2>4, <2>5 DEF SoFar, Current
  <1>9. CASE SendNotice(r)
    <2>1. PICK p \in articles[r] :
            /\ Current(r, p)
            /\ Deliver(Notice, p, part[r])
            /\ IF LastPart(r, Notice, p)
                 THEN Goto(r, "saveNotice") /\ UNCHANGED part
                 ELSE part' = [part EXCEPT ![r] = @ + 1] /\ UNCHANGED pc
      BY <1>9 DEF SendNotice
    <2>2. p \in Ids /\ sent'[<<Notice, p, part[r]>>] > 0
      BY <2>1, <1>t, <1>b, DeliverCounts
    <2>3. \A k \in 1..MaxParts : k <= part[r] => sent'[<<Notice, p, k>>] > 0
      <3>1. SUFFICES ASSUME NEW k \in 1..MaxParts, k <= part[r]
                     PROVE  sent'[<<Notice, p, k>>] > 0
        OBVIOUS
      <3>2. CASE k = part[r]
        BY <3>2, <2>2
      <3>3. CASE k # part[r]
        <4>1. k < part[r]
          BY <3>1, <3>3, <1>t
        <4>2. sent[<<Notice, p, k>>] > 0
          BY <4>1, <2>1, <1>9, <1>t DEF SoFar, SendNotice
        <4>3. <<Notice, p, k>> \in Messages
          BY <2>2, <1>b DEF Messages
        <4> QED BY <4>2, <4>3 DEF SentKept
      <3> QED BY <3>2, <3>3
    <2>4. articles'[r] = articles[r] /\ pc[r] = "sendNotice"
      BY <1>9 DEF SendNotice
    <2>5. \A q \in articles[r] : Current(r, q) => q = p
      BY <2>1, <1>t, OneCurrent
    <2>6. CASE LastPart(r, Notice, p)
      <3>1. Delivered(Notice, p)'
        <4>1. Parts(Notice, p) \in 1..MaxParts /\ part[r] = Parts(Notice, p)
          BY <2>2, <2>6, <1>b, PartsType DEF LastPart
        <4>2. \A k \in 1..Parts(Notice, p) : k \in 1..MaxParts /\ k <= part[r]
          BY <4>1, BoundsAssumption
        <4> QED BY <4>2, <2>3 DEF Delivered, Parts
      <3>2. pc'[r] = "saveNotice"
        BY <2>1, <2>6, <1>t DEF Goto
      <3> QED BY <3>1, <3>2, <2>4, <2>5 DEF SoFar, Current
    <2>7. CASE ~LastPart(r, Notice, p)
      <3>1. part'[r] = part[r] + 1 /\ pc'[r] = "sendNotice"
        BY <2>1, <2>4, <2>7, <1>t
      <3>2. \A k \in 1..MaxParts : k < part'[r] => k <= part[r]
        BY <3>1, <1>t, BoundsAssumption
      <3> QED BY <3>1, <3>2, <2>3, <2>4, <2>5 DEF SoFar, Current
    <2> QED BY <2>6, <2>7
  <1>10. CASE NoticeAttemptRaises(r)
    <2>1. part'[r] = 1 /\ pc[r] = "sendNotice" /\
          ((UNCHANGED pc) \/ (Goto(r, "saveNotice") /\ outcome' = [outcome EXCEPT ![r] = "FAIL"]))
      BY <1>10, <1>t, <1>b DEF NoticeAttemptRaises
    <2>2. CASE UNCHANGED pc
      BY <2>1, <2>2, <1>f
    <2>3. CASE Goto(r, "saveNotice") /\ outcome' = [outcome EXCEPT ![r] = "FAIL"]
      <3>1. pc'[r] = "saveNotice" /\ outcome'[r] = "FAIL"
        BY <2>3, <1>t DEF Goto
      <3> QED BY <3>1 DEF SoFar
    <2> QED BY <2>1, <2>2, <2>3
  <1>11. CASE SaveNoticeRaises(r)
    <2>1. SameLocals(r) \/ pc'[r] = "finally"
      BY <1>11, <1>t DEF SaveNoticeRaises, SameLocals, Goto
    <2> QED BY <2>1, <1>q, <1>t, SoFarKept
  <1> QED
    BY <1>1, <1>2, <1>3, <1>4, <1>5, <1>6, <1>7, <1>8, <1>9, <1>10, <1>11
    DEF Progress, Failure, AbortBeforeWork, FinishDb, WriteFile, SaveFileFails, Crash,
        ListRaises, SendPhotoRaises, SendPoisonedPhoto

\* The rows a step writes: at most the one of the article some run with a
\* connection is saving, as SUCCESS only when it was delivered.
Saving(r, b) == /\ mode[r] = "db"
                /\ \/ b = Photo /\ pc[r] = "savePhoto"
                   \/ b = Notice /\ pc[r] = "saveNotice"
RowWritten(b, p) ==
  \E r \in Runs : /\ Saving(r, b) /\ p \in articles[r] /\ Current(r, p)
                  /\ posts'[b][p] \in {"SUCCESS", "FAIL"}
                  /\ posts'[b][p] = "SUCCESS" => Delivered(b, p)
                  /\ b = Notice => posts'[b][p] = outcome[r]

LEMMA UpsertRow ==
  ASSUME TypeInv, NEW b \in Boards, NEW p \in Ids, NEW status \in {"SUCCESS", "FAIL"},
         Upsert(b, p, status), NEW c \in Boards, NEW q \in Ids
  PROVE  posts'[c][q] = IF c = b /\ q = p THEN status ELSE posts[c][q]
  <1>1. posts \in [Boards -> [Ids -> {"none", "SUCCESS", "FAIL"}]]
    BY DEF TypeInv, TypeOK, SharedTypeOK
  <1> QED BY <1>1 DEF Upsert

LEMMA RowStep ==
  ASSUME DeliveryInv, [Next]_vars, NEW c \in Boards, NEW q \in Ids
  PROVE  posts'[c][q] = posts[c][q] \/ RowWritten(c, q)
  <1>t. /\ TypeInv /\ (\A r \in Runs : SoFar(r))
        /\ articles \in [Runs -> SUBSET Ids] /\ outcome \in [Runs -> {"SUCCESS", "FAIL"}]
    BY DEF DeliveryInv, TypeInv, TypeOK, LocalTypeOK
  <1>b. Photo \in Boards /\ Notice \in Boards /\ Photo # Notice
    BY DEF Boards, Photo, Notice
  <1>1. CASE UNCHANGED posts
    BY <1>1
  <1>2. ASSUME NEW r \in Runs, SavePhoto(r) \/ SavePhotoRaises(r), ~UNCHANGED posts
        PROVE  posts'[c][q] = posts[c][q] \/ RowWritten(c, q)
    <2>1. PICK p \in articles[r] :
            Current(r, p) /\ Upsert(Photo, p, "SUCCESS") /\ mode[r] = "db" /\ pc[r] = "savePhoto"
      BY <1>2 DEF SavePhoto, SavePhotoRaises, UpsertRaises, Record
    <2>2. p \in Ids /\ Delivered(Photo, p)
      BY <2>1, <1>t DEF SoFar
    <2>3. posts'[c][q] = IF c = Photo /\ q = p THEN "SUCCESS" ELSE posts[c][q]
      BY <2>1, <2>2, <1>b, <1>t, UpsertRow
    <2> QED BY <2>1, <2>2, <2>3, <1>b DEF RowWritten, Saving
  <1>3. ASSUME NEW r \in Runs, SaveNotice(r) \/ SaveNoticeRaises(r), ~UNCHANGED posts
        PROVE  posts'[c][q] = posts[c][q] \/ RowWritten(c, q)
    <2>1. PICK p \in articles[r] :
            /\ Current(r, p) /\ Upsert(Notice, p, outcome[r])
            /\ mode[r] = "db" /\ pc[r] = "saveNotice"
      BY <1>3 DEF SaveNotice, SaveNoticeRaises, UpsertRaises, Record
    <2>2. p \in Ids /\ (outcome[r] = "SUCCESS" => Delivered(Notice, p))
      BY <2>1, <1>t DEF SoFar
    <2>3. posts'[c][q] = IF c = Notice /\ q = p THEN outcome[r] ELSE posts[c][q]
      BY <2>1, <2>2, <1>b, <1>t, UpsertRow
    <2> QED BY <2>1, <2>2, <2>3, <1>t DEF RowWritten, Saving
  <1>4. UNCHANGED posts \/ \E r \in Runs : \/ SavePhoto(r) \/ SavePhotoRaises(r)
                                           \/ SaveNotice(r) \/ SaveNoticeRaises(r)
    <2>1. CASE UNCHANGED vars
      BY <2>1 DEF vars
    <2>2. ASSUME NEW b \in Boards, Publish(b) PROVE UNCHANGED posts
      BY <2>2 DEF Publish, store
    <2>3. ASSUME NEW r \in Runs,
                 \/ Connect(r) \/ ConnectFails(r) \/ Load(r) \/ AbortBeforeWork(r)
                 \/ ListPhotos(r) \/ ListNotices(r) \/ ListRaises(r)
                 \/ SendPoisonedPhoto(r) \/ SendPhoto(r) \/ SendPhotoRaises(r)
                 \/ SendNotice(r) \/ NoticeAttemptRaises(r)
                 \/ FinishDb(r) \/ OpenFile(r) \/ WriteFile(r) \/ SaveFileFails(r) \/ Crash(r)
          PROVE  UNCHANGED posts
      BY <2>3 DEF Connect, ConnectFails, Load, AbortBeforeWork, ListPhotos, ListNotices,
                  List, ListRaises, SendPoisonedPhoto, SendPhoto, SendPhotoRaises,
                  SendNotice, NoticeAttemptRaises, FinishDb, OpenFile, WriteFile,
                  SaveFileFails, Crash, store
    <2> QED BY <2>1, <2>2, <2>3 DEF Next, Progress, Failure
  <1> QED BY <1>1, <1>2, <1>3, <1>4

LEMMA DeliveryInit == Init => DeliveryInv
  <1> SUFFICES ASSUME Init PROVE DeliveryInv
    OBVIOUS
  <1>1. TypeInv
    BY TypeInit
  <1>2. ASSUME NEW b \in Boards, NEW p \in Ids, posts[b][p] = "SUCCESS"
        PROVE  Delivered(b, p)
    <2>1. p = Baseline[b]
      BY <1>2 DEF Init
    <2>2. \A k \in 1..Parts(b, p) : <<b, p, k>> \in Messages
      BY PartsType, BoundsAssumption DEF Messages
    <2>3. \A k \in 1..Parts(b, p) : sent[<<b, p, k>>] = 1
      BY <2>1, <2>2, ConfigAssumption DEF Init, Cursor
    <2> QED BY <2>3 DEF Delivered
  <1>3. \A r \in Runs : SoFar(r)
    BY DEF Init, SoFar
  <1> QED BY <1>1, <1>2, <1>3 DEF DeliveryInv, SuccessMeansDelivered

LEMMA DeliveryStep == DeliveryInv /\ [Next]_vars => DeliveryInv'
  <1> SUFFICES ASSUME DeliveryInv, [Next]_vars PROVE DeliveryInv'
    OBVIOUS
  <1>1. TypeInv /\ TypeInv' /\ SentKept
    BY TypeStep, SentStep DEF DeliveryInv
  <1>2. ASSUME NEW r \in Runs PROVE SoFar(r)'
    <2>1. SoFar(r)
      BY DEF DeliveryInv
    <2> QED BY <1>1, <2>1, OneMoves, SoFarKept, SoFarStep
  <1>3. ASSUME NEW b \in Boards, NEW p \in Ids, posts'[b][p] = "SUCCESS"
        PROVE  Delivered(b, p)'
    <2>1. Delivered(b, p)
      BY <1>3, RowStep DEF DeliveryInv, SuccessMeansDelivered, RowWritten
    <2> QED BY <2>1, <1>1, DeliveredKept
  <1> QED BY <1>1, <1>2, <1>3 DEF DeliveryInv, SuccessMeansDelivered

\* However many runs overlap, fail, crash and retry, a row of the posts table
\* says SUCCESS only for an announcement all of whose parts reached KakaoTalk.
THEOREM SuccessCorrect == Spec => []SuccessMeansDelivered
  <1>1. Spec => []DeliveryInv
    BY DeliveryInit, DeliveryStep, PTL DEF Spec
  <1>2. DeliveryInv => SuccessMeansDelivered
    BY DEF DeliveryInv
  <1> QED BY <1>1, <1>2, PTL

-----------------------------------------------------------------------------
(* Nothing between two recorded posts is skipped *)

\* The history was seeded (db/migrate_last_seen.py), so that no run with a
\* connection is a first run.
Seeded == DbAvailable /\ \A b \in Boards : Baseline[b] > 0

\* Every post on the page up to m is accounted for.
Covered(b, m) ==
  /\ Baseline[b] <= m /\ m <= newest[b]
  /\ \A p \in Page(b) : Baseline[b] <= p /\ p <= m => Handled(b, p)

\* The articles a run still holds are all that is missing below any of them.
Queued(r, b) ==
  \A a \in articles[r] :
    /\ Baseline[b] <= a /\ a <= newest[b]
    /\ \A p \in Page(b) : Baseline[b] <= p /\ p < a /\ p \notin articles[r] => Handled(b, p)

\* Where a run with a connection stands: the cursor it loaded covers what it
\* will not look at, its list the rest.
Frontier(r) ==
  mode[r] = "db" =>
    /\ pc[r] = "listPhoto" => Covered(Photo, lastSeen[r][Photo])
    /\ pc[r] \in {"listPhoto", "sendPhoto", "savePhoto", "listNotice"} =>
         Covered(Notice, lastSeen[r][Notice])
    /\ pc[r] \in {"sendPhoto", "savePhoto"} => Queued(r, Photo)
    /\ pc[r] \in {"sendNotice", "saveNotice"} => Queued(r, Notice)

SkipInv ==
  /\ DeliveryInv
  /\ \A b \in Boards : Baseline[b] \in Recorded(b)
  /\ \A b \in Boards : \A hi \in Recorded(b) : Covered(b, hi)
  /\ \A r \in Runs : Frontier(r)

\* What a step leaves in place.
HandledKept == \A b \in Boards, p \in Ids : Handled(b, p) => Handled(b, p)'
PageGrows == \A b \in Boards :
               /\ newest[b] <= newest'[b]
               /\ \A p \in Page(b)' : p <= newest[b] => p \in Page(b)

LEMMA HandledStep == ASSUME DeliveryInv, [Next]_vars PROVE HandledKept
  <1>1. SentKept
    BY SentStep DEF DeliveryInv
  <1> SUFFICES ASSUME NEW b \in Boards, NEW p \in Ids, Handled(b, p)
               PROVE  Handled(b, p)'
    BY DEF HandledKept
  <1>2. CASE Delivered(b, p)
    BY <1>1, <1>2, DeliveredKept DEF Handled
  <1>3. CASE posts[b][p] = "FAIL"
    <2>1. posts'[b][p] = "FAIL" \/ Delivered(b, p)
      BY <1>3, RowStep DEF RowWritten
    <2> QED BY <1>1, <2>1, DeliveredKept DEF Handled
  <1> QED BY <1>2, <1>3 DEF Handled

LEMMA PageStep == ASSUME TypeInv, [Next]_vars PROVE PageGrows
  <1>1. newest \in [Boards -> Cursor] /\ Cursor \subseteq Int /\ PageSize \in Int
    BY BoundsAssumption DEF TypeInv, TypeOK, SharedTypeOK, Cursor
  <1>2. ASSUME NEW b \in Boards, Publish(b) PROVE PageGrows
    <2>1. SUFFICES ASSUME NEW c \in Boards
                   PROVE  /\ newest[c] <= newest'[c]
                          /\ \A p \in Page(c)' : p <= newest[c] => p \in Page(c)
      BY DEF PageGrows
    <2>2. newest[c] \in Int /\ (newest'[c] = newest[c] \/ newest'[c] = newest[c] + 1)
      BY <1>1, <1>2 DEF Publish
    <2>3. \A p \in Ids : p \in Int
      BY BoundsAssumption DEF Ids
    <2> QED BY <1>1, <2>2, <2>3 DEF Page
  <1>3. UNCHANGED newest \/ \E b \in Boards : Publish(b)
    <2>1. CASE UNCHANGED vars
      BY <2>1 DEF vars
    <2>2. ASSUME NEW r \in Runs, Progress(r) PROVE UNCHANGED newest
      BY <2>2 DEF Progress, Connect, Load, ListPhotos, ListNotices, List, SendPhoto,
                  SendPoisonedPhoto, SavePhoto, SendNotice, SaveNotice, FinishDb,
                  OpenFile, WriteFile, world
    <2>3. ASSUME NEW r \in Runs, Failure(r) PROVE UNCHANGED newest
      BY <2>3 DEF Failure, ConnectFails, AbortBeforeWork, ListRaises, SendPhotoRaises,
                  SavePhotoRaises, NoticeAttemptRaises, SaveNoticeRaises,
                  SaveFileFails, Crash
    <2> QED BY <2>1, <2>2, <2>3 DEF Next
  <1>4. CASE UNCHANGED newest
    <2>1. \A c \in Boards : newest[c] \in Int
      BY <1>1
    <2> QED BY <1>4, <2>1 DEF PageGrows, Page
  <1> QED BY <1>2, <1>3, <1>4

LEMMA CoveredKept ==
  ASSUME TypeInv, TypeInv', HandledKept, PageGrows, NEW b \in Boards, NEW m \in Cursor, Covered(b, m)
  PROVE  Covered(b, m)'
  <1>1. /\ newest[b] \in Int /\ newest'[b] \in Int /\ Baseline[b] \in Int
        /\ Cursor \subseteq Int
    BY BoundsAssumption, ConfigAssumption DEF TypeInv, TypeOK, SharedTypeOK, Cursor
  <1>2. newest[b] <= newest'[b] /\ \A p \in Page(b)' : p <= newest[b] => p \in Page(b)
    BY DEF PageGrows
  <1>3. Baseline[b] <= m /\ m <= newest'[b]
    BY <1>1, <1>2 DEF Covered
  <1>4. ASSUME NEW p \in Page(b)', Baseline[b] <= p, p <= m
        PROVE  Handled(b, p)'
    <2>1. p \in Ids /\ p \in Int
      BY BoundsAssumption DEF Page, Ids
    <2>2. p <= newest[b]
      BY <1>1, <1>4, <2>1 DEF Covered
    <2>3. Handled(b, p)
      BY <1>2, <1>4, <2>2 DEF Covered
    <2> QED BY <2>1, <2>3 DEF HandledKept
  <1> QED BY <1>3, <1>4 DEF Covered

\* A list the run keeps, or shortens by an article that is now handled.
LEMMA QueuedKept ==
  ASSUME TypeInv, TypeInv', HandledKept, PageGrows, NEW b \in Boards, NEW r \in Runs, Queued(r, b),
         articles'[r] \subseteq articles[r],
         \A p \in articles[r] \ articles'[r] : Handled(b, p)'
  PROVE  Queued(r, b)'
  <1>1. /\ newest[b] \in Int /\ newest'[b] \in Int /\ Baseline[b] \in Int
        /\ articles[r] \subseteq Ids /\ Ids \subseteq Int
    BY BoundsAssumption, ConfigAssumption
    DEF TypeInv, TypeOK, SharedTypeOK, LocalTypeOK, Cursor, Ids
  <1>2. newest[b] <= newest'[b] /\ \A p \in Page(b)' : p <= newest[b] => p \in Page(b)
    BY DEF PageGrows
  <1> SUFFICES ASSUME NEW a \in articles'[r]
               PROVE  /\ Baseline[b] <= a /\ a <= newest'[b]
                      /\ \A p \in Page(b)' : Baseline[b] <= p /\ p < a /\ p \notin articles'[r]
                           => Handled(b, p)'
    BY DEF Queued
  <1>3. Baseline[b] <= a /\ a <= newest[b] /\ a \in Int
    BY <1>1 DEF Queued
  <1>4. ASSUME NEW p \in Page(b)', Baseline[b] <= p, p < a, p \notin articles'[r]
        PROVE  Handled(b, p)'
    <2>1. p \in Ids /\ p \in Int
      BY BoundsAssumption DEF Page, Ids
    <2>2. p \in Page(b)
      BY <1>1, <1>2, <1>3, <1>4, <2>1
    <2>3. CASE p \in articles[r]
      BY <2>3, <1>4
    <2>4. CASE p \notin articles[r]
      BY <2>1, <2>2, <2>4, <1>4 DEF Queued, HandledKept
    <2> QED BY <2>3, <2>4
  <1> QED BY <1>1, <1>2, <1>3, <1>4

\* SELECT MAX returns the newest recorded post.
LEMMA MaxRowRecorded ==
  ASSUME NEW b \in Boards, NEW p \in Recorded(b), NEW m, IsMaxRow(b, m)
  PROVE  m \in Recorded(b)
  BY DEF IsMaxRow

\* A run that does not move keeps its frontier.
LEMMA FrontierKept ==
  ASSUME TypeInv, TypeInv', HandledKept, PageGrows, NEW r \in Runs, Frontier(r), SameLocals(r)
  PROVE  Frontier(r)'
  <1>b. Photo \in Boards /\ Notice \in Boards
    BY DEF Boards
  <1>1. \A b \in Boards : lastSeen[r][b] \in Cursor
    BY DEF TypeInv, TypeOK, LocalTypeOK
  <1>2. \A b \in Boards : Covered(b, lastSeen[r][b]) => Covered(b, lastSeen[r][b])'
    <2>1. ASSUME NEW b \in Boards, Covered(b, lastSeen[r][b])
          PROVE  Covered(b, lastSeen[r][b])'
      <3> DEFINE m == lastSeen[r][b]
      <3>1. m \in Cursor /\ lastSeen'[r][b] = m
        BY <1>1 DEF SameLocals
      <3> QED BY <2>1, <3>1, CoveredKept DEF Covered
    <2> QED BY <2>1
  <1>3. \A b \in Boards : Queued(r, b) => Queued(r, b)'
    BY QueuedKept DEF SameLocals
  <1> QED BY <1>b, <1>2, <1>3 DEF Frontier, SameLocals

\* The run that moves: a fresh list starts right above the loaded cursor, and
\* an article leaves the list only when it is handled.
LEMMA FrontierStep ==
  ASSUME Seeded, SkipInv, TypeInv', HandledKept, PageGrows,
         NEW r \in Runs, Progress(r) \/ Failure(r)
  PROVE  Frontier(r)'
  <1>t. /\ TypeInv /\ DeliveryInv /\ SoFar(r) /\ Frontier(r)
        /\ pc \in [Runs -> Labels] /\ articles \in [Runs -> SUBSET Ids]
        /\ mode \in [Runs -> {"none", "db", "file"}]
        /\ lastSeen \in [Runs -> [Boards -> Cursor]]
        /\ newest \in [Boards -> Cursor]
        /\ outcome \in [Runs -> {"SUCCESS", "FAIL"}]
    BY DEF SkipInv, DeliveryInv, TypeInv, TypeOK, SharedTypeOK, LocalTypeOK
  <1>b. Photo \in Boards /\ Notice \in Boards /\ Photo # Notice
    BY DEF Boards, Photo, Notice
  <1>q. CASE pc'[r] \in {"idle", "load", "finally", "writeFile"}
    BY <1>q DEF Frontier
  <1>k. \A b \in Boards : Covered(b, lastSeen[r][b]) /\ lastSeen'[r][b] = lastSeen[r][b]
                            => Covered(b, lastSeen[r][b])'
    <2>1. ASSUME NEW b \in Boards, Covered(b, lastSeen[r][b]), lastSeen'[r][b] = lastSeen[r][b]
          PROVE  Covered(b, lastSeen[r][b])'
      <3> DEFINE m == lastSeen[r][b]
      <3>1. m \in Cursor
        BY <1>t
      <3> QED BY <2>1, <3>1, <1>t, CoveredKept DEF Covered
    <2> QED BY <2>1
  <1>1. CASE Exit(r)
    BY <1>1, <1>q, <1>t DEF Exit, Goto
  <1>2. CASE Escape(r)
    BY <1>2, <1>q, <1>t DEF Escape, Goto
  <1>3. CASE Connect(r) \/ ConnectFails(r) \/ OpenFile(r)
    BY <1>3, <1>q, <1>t DEF Connect, ConnectFails, OpenFile, Goto
  <1>4. CASE SameLocals(r)
    BY <1>4, <1>t, FrontierKept
  <1>5. CASE Load(r)
    <2>1. PICK seen \in [Boards -> Cursor] :
            /\ IF mode[r] = "db" THEN \A b \in Boards : IsMaxRow(b, seen[b]) ELSE seen = file
            /\ lastSeen' = [lastSeen EXCEPT ![r] = seen]
      BY <1>5 DEF Load
    <2>2. /\ mode'[r] = mode[r] /\ pc'[r] = "listPhoto" /\ lastSeen'[r] = seen
          /\ newest' = newest /\ posts' = posts /\ sent' = sent
      BY <1>5, <2>1, <1>t DEF Load, Goto, world, store
    <2>3. ASSUME mode[r] = "db", NEW b \in Boards PROVE Covered(b, lastSeen[r][b])'
      <3>1. Baseline[b] \in Recorded(b) /\ IsMaxRow(b, seen[b])
        BY <2>1, <2>3 DEF SkipInv
      <3>2. Covered(b, seen[b])
        BY <3>1, MaxRowRecorded DEF SkipInv
      <3> QED BY <2>2, <3>2 DEF Covered, Page, Handled, Delivered, Parts
    <2> QED BY <2>2, <2>3, <1>b DEF Frontier
  <1>6. ASSUME NEW b \in Boards, NEW here, NEW loop, NEW none, List(r, b, here, loop, none),
               Covered(b, lastSeen[r][b]), Fresh(r, b) # {}
        PROVE  Queued(r, b)'
    <2>1. lastSeen[r][b] # 0 /\ Baseline[b] \in Int /\ lastSeen[r][b] \in Int
      BY <1>6, <1>t, BoundsAssumption, ConfigAssumption DEF Covered, Seeded, Cursor
    <2>2. /\ articles'[r] = Fresh(r, b)
          /\ newest' = newest /\ posts' = posts /\ sent' = sent
      BY <1>6, <2>1, <1>t DEF List, ToProcess, world, store
    <2>3. ASSUME NEW a \in Fresh(r, b)
          PROVE  /\ Baseline[b] <= a /\ a <= newest[b]
                 /\ \A p \in Page(b) : Baseline[b] <= p /\ p < a /\ p \notin Fresh(r, b)
                      => Handled(b, p)
      <3>1. a \in Int /\ a > lastSeen[r][b] /\ a <= newest[b] /\ Baseline[b] <= lastSeen[r][b]
        BY <1>6, BoundsAssumption DEF Fresh, Page, Ids, Covered
      <3>2. \A p \in Page(b) : p \in Int /\ (p \notin Fresh(r, b) => p <= lastSeen[r][b])
        BY <2>1, BoundsAssumption DEF Fresh, Page, Ids
      <3> QED BY <1>6, <2>1, <3>1, <3>2 DEF Covered
    <2> QED BY <2>2, <2>3 DEF Queued, Page, Handled, Delivered, Parts
  <1>7. CASE ListPhotos(r)
    <2>1. /\ List(r, Photo, "listPhoto", "sendPhoto", "listNotice")
          /\ pc[r] = "listPhoto" /\ mode'[r] = mode[r] /\ lastSeen'[r] = lastSeen[r]
          /\ pc'[r] = IF Fresh(r, Photo) = {} THEN "listNotice" ELSE "sendPhoto"
      BY <1>7, <1>t DEF ListPhotos, List, Goto
    <2>2. mode[r] = "db" => Covered(Notice, lastSeen[r][Notice])'
      BY <2>1, <1>t, <1>b, <1>k DEF Frontier
    <2>3. mode[r] = "db" /\ Fresh(r, Photo) # {} => Queued(r, Photo)'
      BY <2>1, <1>6, <1>t, <1>b DEF Frontier
    <2> QED BY <2>1, <2>2, <2>3 DEF Frontier
  <1>8. CASE ListNotices(r)
    <2>1. /\ List(r, Notice, "listNotice", "sendNotice", "finally")
          /\ pc[r] = "listNotice" /\ mode'[r] = mode[r]
          /\ pc'[r] = IF Fresh(r, Notice) = {} THEN "finally" ELSE "sendNotice"
      BY <1>8, <1>t DEF ListNotices, List, Goto
    <2>2. mode[r] = "db" /\ Fresh(r, Notice) # {} => Queued(r, Notice)'
      BY <2>1, <1>6, <1>t, <1>b DEF Frontier
    <2> QED BY <2>1, <2>2 DEF Frontier
  <1>9. CASE SendPhoto(r)
    <2>1. /\ pc[r] = "sendPhoto" /\ pc'[r] = "savePhoto" /\ mode'[r] = mode[r]
          /\ articles'[r] = articles[r] /\ lastSeen'[r] = lastSeen[r]
      BY <1>9, <1>t DEF SendPhoto, Goto, local
    <2>2. mode[r] = "db" => Covered(Notice, lastSeen[r][Notice])'
      BY <2>1, <1>t, <1>b, <1>k DEF Frontier
    <2>3. mode[r] = "db" => Queued(r, Photo)'
      BY <2>1, <1>t, <1>b, QueuedKept DEF Frontier
    <2> QED BY <2>1, <2>2, <2>3 DEF Frontier
  <1>10. CASE SendNotice(r) \/ NoticeAttemptRaises(r)
    <2>1. /\ pc[r] = "sendNotice" /\ pc'[r] \in {"sendNotice", "saveNotice"}
          /\ mode'[r] = mode[r] /\ articles'[r] = articles[r]
      BY <1>10, <1>t DEF SendNotice, NoticeAttemptRaises, Goto
    <2>2. mode[r] = "db" => Queued(r, Notice)'
      BY <2>1, <1>t, <1>b, QueuedKept DEF Frontier
    <2> QED BY <2>1, <2>2 DEF Frontier
  <1>11. CASE SavePhoto(r) \/ SavePhotoRaises(r)
    <2>1. PICK p \in articles[r] :
            Current(r, p) /\ NextArticle(r, Photo, p, "sendPhoto", "listNotice")
      BY <1>11 DEF SavePhoto, SavePhotoRaises
    <2>2. /\ pc[r] = "savePhoto" /\ pc'[r] \in {"sendPhoto", "listNotice"}
          /\ mode'[r] = mode[r] /\ articles'[r] = articles[r] \ {p}
      BY <1>11, <2>1, <1>t DEF SavePhoto, SavePhotoRaises, NextArticle, Goto
    <2>3. lastSeen'[r][Notice] = lastSeen[r][Notice]
      BY <2>1, <1>t, <1>b DEF NextArticle
    <2>4. mode[r] = "db" => Covered(Notice, lastSeen[r][Notice])'
      BY <2>2, <2>3, <1>t, <1>b, <1>k DEF Frontier
    <2>5. Handled(Photo, p)'
      <3>1. p \in Ids /\ Delivered(Photo, p)
        BY <2>1, <2>2, <1>t DEF SoFar
      <3> QED BY <3>1, <1>b DEF HandledKept, Handled
    <2>6. mode[r] = "db" => Queued(r, Photo)'
      BY <2>2, <2>5, <1>t, <1>b, QueuedKept DEF Frontier
    <2> QED BY <2>2, <2>4, <2>6 DEF Frontier
  <1>12. CASE SaveNotice(r)
    <2>1. PICK p \in articles[r] :
            /\ Current(r, p) /\ Record(r, Notice, p, outcome[r])
            /\ NextArticle(r, Notice, p, "sendNotice", "finally")
      BY <1>12 DEF SaveNotice
    <2>2. /\ pc[r] = "saveNotice" /\ pc'[r] \in {"sendNotice", "finally"}
          /\ mode'[r] = mode[r] /\ articles'[r] = articles[r] \ {p}
      BY <1>12, <2>1, <1>t DEF SaveNotice, NextArticle, Goto
    <2>3. p \in Ids
      BY <1>t
    <2>4. ASSUME mode[r] = "db" PROVE Handled(Notice, p)'
      <3>1. CASE outcome[r] = "SUCCESS"
        BY <3>1, <2>1, <2>2, <2>3, <1>t, <1>b DEF SoFar, HandledKept, Handled
      <3>2. CASE outcome[r] = "FAIL"
        BY <3>2, <2>1, <2>3, <2>4, <1>t, <1>b, UpsertRow DEF Record, Handled
      <3> QED BY <3>1, <3>2, <1>t
    <2>5. mode[r] = "db" => Queued(r, Notice)'
      BY <2>2, <2>4, <1>t, <1>b, QueuedKept DEF Frontier
    <2> QED BY <2>2, <2>5 DEF Frontier
  <1>13. CASE SaveNoticeRaises(r)
    BY <1>13, <1>4, <1>q, <1>t DEF SaveNoticeRaises, SameLocals, Goto
  <1> QED
    BY <1>1, <1>2, <1>3, <1>5, <1>7, <1>8, <1>9, <1>10, <1>11, <1>12, <1>13
    DEF Progress, Failure, AbortBeforeWork, FinishDb, WriteFile, SaveFileFails, Crash,
        ListRaises, SendPhotoRaises, SendPoisonedPhoto

\* A row a step adds covers everything below it, for its run took the lowest
\* article it had left.
LEMMA RecordedStep ==
  ASSUME SkipInv, TypeInv', HandledKept, PageGrows, [Next]_vars,
         NEW b \in Boards, NEW hi \in Recorded(b)'
  PROVE  Covered(b, hi)'
  <1>t. TypeInv /\ DeliveryInv
    BY DEF SkipInv, DeliveryInv
  <1>1. hi \in Ids /\ hi \in Cursor /\ posts'[b][hi] # "none"
    BY CursorFacts DEF Recorded
  <1>2. CASE hi \in Recorded(b)
    BY <1>1, <1>2, <1>t, CoveredKept DEF SkipInv
  <1>3. CASE hi \notin Recorded(b)
    <2>1. RowWritten(b, hi)
      BY <1>1, <1>3, <1>t, RowStep DEF Recorded
    <2>2. PICK r \in Runs : /\ Saving(r, b) /\ hi \in articles[r] /\ Current(r, hi)
                            /\ posts'[b][hi] \in {"SUCCESS", "FAIL"}
                            /\ posts'[b][hi] = "SUCCESS" => Delivered(b, hi)
      BY <2>1 DEF RowWritten
    <2>3. Queued(r, b)
      BY <2>2 DEF SkipInv, Frontier, Saving
    <2>4. Handled(b, hi)'
      <3>1. CASE posts'[b][hi] = "FAIL"
        BY <3>1 DEF Handled
      <3>2. CASE posts'[b][hi] = "SUCCESS"
        BY <3>2, <2>2, <1>1 DEF HandledKept, Handled
      <3> QED BY <2>2, <3>1, <3>2
    <2>5. ASSUME NEW p \in Page(b), Baseline[b] <= p, p <= hi, p # hi PROVE Handled(b, p)
      <3>1. p \in Int /\ hi \in Int /\ p < hi
        BY <1>1, <2>5, BoundsAssumption DEF Page, Ids
      <3>2. p \notin articles[r]
        BY <2>2, <3>1 DEF Current
      <3> QED BY <2>2, <2>3, <2>5, <3>1, <3>2 DEF Queued
    <2>6. Baseline[b] <= hi /\ hi <= newest[b]
      BY <2>2, <2>3 DEF Queued
    <2>7. /\ newest[b] \in Int /\ newest'[b] \in Int /\ newest[b] <= newest'[b] /\ hi \in Int
          /\ \A p \in Page(b)' : p <= newest[b] => p \in Page(b)
      BY <1>1, <1>t, BoundsAssumption DEF TypeInv, TypeOK, SharedTypeOK, PageGrows, Cursor
    <2>8. ASSUME NEW p \in Page(b)', Baseline[b] <= p, p <= hi PROVE Handled(b, p)'
      <3>1. p \in Ids /\ p \in Int
        BY BoundsAssumption DEF Page, Ids
      <3>2. p \in Page(b)
        BY <2>6, <2>7, <2>8, <3>1
      <3> QED BY <2>4, <2>5, <2>8, <3>1, <3>2 DEF HandledKept
    <2> QED BY <2>6, <2>7, <2>8 DEF Covered
  <1> QED BY <1>2, <1>3

LEMMA SkipInit == ASSUME Seeded PROVE Init => SkipInv
  <1> SUFFICES ASSUME Init PROVE SkipInv
    OBVIOUS
  <1>1. DeliveryInv
    BY DeliveryInit
  <1>2. ASSUME NEW b \in Boards
        PROVE  /\ Baseline[b] \in Ids /\ Recorded(b) = {Baseline[b]}
               /\ newest[b] = Baseline[b] /\ Baseline[b] \in Int
    BY BoundsAssumption, ConfigAssumption DEF Init, Recorded, Seeded, Cursor, Ids
  <1>3. ASSUME NEW b \in Boards PROVE Covered(b, Baseline[b])
    <2>1. Delivered(b, Baseline[b])
      BY <1>1, <1>2 DEF DeliveryInv, SuccessMeansDelivered, Init, Seeded
    <2>2. \A p \in Page(b) : Baseline[b] <= p /\ p <= Baseline[b] => p = Baseline[b]
      BY <1>2, BoundsAssumption DEF Page, Ids
    <2> QED BY <1>2, <2>1, <2>2 DEF Covered, Handled
  <1>4. \A r \in Runs : Frontier(r)
    BY DEF Init, Frontier
  <1> QED BY <1>1, <1>2, <1>3, <1>4 DEF SkipInv

LEMMA SkipStep == ASSUME Seeded PROVE SkipInv /\ [Next]_vars => SkipInv'
  <1> SUFFICES ASSUME SkipInv, [Next]_vars PROVE SkipInv'
    OBVIOUS
  <1>1. /\ DeliveryInv /\ DeliveryInv' /\ TypeInv /\ TypeInv'
        /\ HandledKept /\ PageGrows
    BY DeliveryStep, HandledStep, PageStep DEF SkipInv, DeliveryInv
  <1>2. ASSUME NEW r \in Runs PROVE Frontier(r)'
    <2>1. Frontier(r)
      BY DEF SkipInv
    <2> QED BY <1>1, <2>1, OneMoves, FrontierKept, FrontierStep
  <1>3. ASSUME NEW b \in Boards PROVE Baseline[b] \in Recorded(b)'
    <2>1. Baseline[b] \in Ids /\ posts[b][Baseline[b]] # "none"
      BY DEF SkipInv, Recorded
    <2>2. posts'[b][Baseline[b]] # "none"
      BY <1>1, <2>1, RowStep DEF RowWritten
    <2> QED BY <2>1, <2>2 DEF Recorded
  <1>4. \A b \in Boards : \A hi \in Recorded(b)' : Covered(b, hi)'
    BY <1>1, RecordedStep
  <1> QED BY <1>1, <1>2, <1>3, <1>4 DEF SkipInv

\* With a seeded history, no post still on its board's page is passed over by
\* MAX(post_id): whatever runs overlap, fall back to the file, fail, crash or
\* answer ambiguously, it was announced or the history says it failed.
THEOREM SkipCorrect == ASSUME Seeded PROVE Spec => []NothingSkipped
  <1>1. Spec => []SkipInv
    BY SkipInit, SkipStep, PTL DEF Spec
  <1>2. SkipInv => NothingSkipped
    <2> SUFFICES ASSUME SkipInv, NEW b \in Boards, NEW p \in Page(b),
                        NEW lo \in Recorded(b), NEW hi \in Recorded(b), lo <= p, p <= hi
                 PROVE  Handled(b, p)
      BY DEF NothingSkipped
    <2>1. Covered(b, lo) /\ Covered(b, hi)
      BY DEF SkipInv
    <2>2. p \in Int /\ lo \in Int /\ Baseline[b] \in Int
      BY BoundsAssumption, ConfigAssumption DEF Page, Recorded, Ids, Cursor
    <2> QED BY <2>1, <2>2 DEF Covered
  <1> QED BY <1>1, <1>2, PTL
===============================================================================
