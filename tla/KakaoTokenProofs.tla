--------------------------- MODULE KakaoTokenProofs ---------------------------
(***************************************************************************)
(* What holds of KakaoToken for every number of processes of each kind,    *)
(* every number of tokens and days, and every budget of failures.          *)
(***************************************************************************)
EXTENDS KakaoToken, TLAPS

LEMMA RangeFacts ==
  /\ MaxRefresh \in Nat \ {0} /\ MaxAccess \in Nat \ {0} /\ MaxDay \in Nat \ {0}
  /\ Lifetime \in Nat /\ FirstExpiry \in Nat /\ MaxFaults \in Nat /\ AlertCap \in Nat \ {0}
  /\ NoToken \in Tokens /\ 0 \in Expiries /\ FirstExpiry \in Expiries
  /\ \A d \in Days : d + Lifetime \in Expiries
  <1>1. /\ MaxRefresh \in Nat \ {0} /\ MaxAccess \in Nat \ {0} /\ MaxDay \in Nat \ {0}
        /\ Lifetime \in Nat /\ FirstExpiry \in Nat /\ MaxFaults \in Nat /\ AlertCap \in Nat \ {0}
    BY BoundsAssumption
  <1>2. 0 \in Expiries /\ FirstExpiry \in Expiries /\ \A d \in Days : d + Lifetime \in Expiries
    BY <1>1 DEF Expiries, Days
  <1> QED BY <1>1, <1>2 DEF NoToken, Tokens

\* Every value of Procs' slots that the pieces of the actions leave.
LEMMA FaultType == ASSUME TypeOK, NEW kind, Fault(kind) PROVE faults' \in 0..MaxFaults
  BY RangeFacts DEF TypeOK, Fault

LEMMA OnDiskType == ASSUME TypeOK, NEW p \in Procs PROVE OnDisk(p) \in Tokens
  BY DEF TypeOK, OnDisk

LEMMA EndType ==
  ASSUME TypeOK, NEW p \in Procs, End(p)
  PROVE  /\ pc' \in [Procs -> Labels] /\ why' \in [Procs -> {"alert", "work", "cron"}]
         /\ mem' \in [Procs -> Tokens] /\ stamp' \in [Procs -> 0..MaxDay]
  <1>1. 0 \in 0..MaxDay BY RangeFacts
  <1> QED BY <1>1, RangeFacts DEF TypeOK, End, Goto, Labels

LEMMA RaiseType ==
  ASSUME TypeOK, NEW p \in Procs, Raise(p)
  PROVE  /\ pc' \in [Procs -> Labels] /\ why' \in [Procs -> {"alert", "work", "cron"}]
         /\ mem' \in [Procs -> Tokens] /\ stamp' \in [Procs -> 0..MaxDay]
  <1>1. 0 \in 0..MaxDay BY RangeFacts
  <1>2. CASE End(p) BY <1>2, EndType
  <1>3. CASE ~End(p) BY <1>1, <1>3 DEF TypeOK, Raise, Goto, Labels
  <1> QED BY <1>2, <1>3

LEMMA ReleaseType ==
  ASSUME TypeOK, NEW p \in Procs, Release(p)
  PROVE  locked' \subseteq Procs /\ disk' \in [Procs -> Tokens]
  BY RangeFacts DEF TypeOK, Release

LEMMA CountType ==
  ASSUME TypeOK, CountAlert PROVE alerts' \in [Days -> 0..AlertCap]
  BY RangeFacts DEF TypeOK, CountAlert

LEMMA SentType ==
  ASSUME TypeOK, NEW p \in Procs, Sent(p)
  PROVE  pc' \in [Procs -> Labels] /\ alerts' \in [Days -> 0..AlertCap]
  BY CountType DEF TypeOK, Sent, Goto, Labels

LEMMA RotatedMay == ASSUME NEW rotated \in {FALSE, MayRotate}, rotated PROVE MayRotate
  BY Zenon

\* A rotation happens only while Kakao has refresh tokens left to issue.
LEMMA AnswerType ==
  ASSUME TypeOK, NEW rotated \in {FALSE, MayRotate}, Answer(rotated)
  PROVE  /\ kakao' \in [refresh : RefreshTokens, access : AccessTokens, live : AccessTokens]
         /\ dies' \in [RefreshTokens -> Expiries]
         /\ NextAccess \in AccessTokens /\ NextAccess >= kakao.access
         /\ rotated => kakao.refresh + 1 \in RefreshTokens
  <1>1. NextAccess \in AccessTokens /\ NextAccess >= kakao.access
    BY RangeFacts DEF TypeOK, NextAccess, AccessTokens
  <1>2. ASSUME rotated PROVE kakao.refresh + 1 \in RefreshTokens
    <2>1. MayRotate BY <1>2, RotatedMay
    <2> QED BY <2>1, RangeFacts DEF TypeOK, MayRotate, RefreshTokens
  <1>3. kakao' \in [refresh : RefreshTokens, access : AccessTokens, live : AccessTokens]
    BY <1>1, <1>2 DEF TypeOK, Answer
  <1>4. dies' \in [RefreshTokens -> Expiries]
    BY RangeFacts DEF TypeOK, Answer
  <1> QED BY <1>1, <1>2, <1>3, <1>4

LEMMA MergeType ==
  ASSUME TypeOK, NEW t \in Tokens, NEW rotated \in {FALSE, MayRotate}, NEW timed \in BOOLEAN
  PROVE  Merge(t, rotated, timed) \in Tokens
  <1>1. NextAccess \in 0..MaxAccess
    BY RangeFacts DEF TypeOK, NextAccess, AccessTokens
  <1>2. ASSUME rotated PROVE kakao.refresh + 1 \in 0..MaxRefresh
    <2>1. MayRotate BY <1>2, RotatedMay
    <2> QED BY <2>1, RangeFacts DEF TypeOK, MayRotate, RefreshTokens
  <1>3. day + Lifetime \in Expiries
    BY RangeFacts DEF TypeOK
  <1> QED BY <1>1, <1>2, <1>3 DEF Merge, Tokens

LEMMA TypeInit == Init => TypeOK
  <1> SUFFICES ASSUME Init PROVE TypeOK
    OBVIOUS
  <1>1. file \in Tokens
    BY RangeFacts DEF Init, Tokens
  <1>2. dies \in [RefreshTokens -> Expiries]
    BY RangeFacts DEF Init
  <1>3. 1 \in Days /\ 1 \in RefreshTokens /\ 1 \in AccessTokens
        /\ 0 \in 0..MaxDay /\ 0 \in 0..AlertCap /\ 0 \in 0..MaxFaults
    BY RangeFacts DEF Days, RefreshTokens, AccessTokens
  <1> QED BY <1>1, <1>2, <1>3, RangeFacts DEF Init, TypeOK, Labels

LEMMA TypeStep == TypeOK /\ [Next]_vars => TypeOK'
  <1> SUFFICES ASSUME TypeOK, [Next]_vars PROVE TypeOK'
    OBVIOUS
  <1>a. ASSUME NEW p \in Procs, Load(p) PROVE TypeOK'
    BY <1>a DEF Load, TypeOK, outside, history, Goto, Labels
  <1>b. ASSUME NEW p \in Procs, CheckAlert(p) PROVE TypeOK'
    BY <1>b DEF CheckAlert, TypeOK, outside, history, Goto, Labels
  <1>c. ASSUME NEW p \in Procs, Work(p) PROVE TypeOK'
    <2>1. CASE End(p)
      BY <1>c, <2>1, EndType DEF Work, TypeOK, outside, history
    <2> QED BY <1>c, <2>1 DEF Work, TypeOK, outside, history, Goto, Labels
  <1>d. ASSUME NEW p \in Procs, Post(p) PROVE TypeOK'
    <2>1. CASE Sent(p)
      BY <1>d, <2>1, SentType DEF Post, TypeOK, outside
    <2> QED BY <1>d, <2>1 DEF Post, TypeOK, outside, Goto, Labels
  <1>e. ASSUME NEW p \in Procs, PostAgain(p) PROVE TypeOK'
    <2>1. CASE Accepts(p)
      BY <1>e, <2>1, SentType DEF PostAgain, TypeOK, outside
    <2>2. CASE ~Accepts(p)
      BY <1>e, <2>2, RaiseType DEF PostAgain, TypeOK, outside
    <2> QED BY <2>1, <2>2
  <1>f. ASSUME NEW p \in Procs, AcquireToRefresh(p) PROVE TypeOK'
    BY <1>f, OnDiskType DEF AcquireToRefresh, TypeOK, outside, history, Goto, Labels
  <1>g. ASSUME NEW p \in Procs, Ask(p) PROVE TypeOK'
    <2>1. PICK rotated \in {FALSE, MayRotate} :
            /\ Answer(rotated)
            /\ \/ /\ disk' = [disk EXCEPT ![p] = Merge(@, rotated, TRUE)]
                  /\ UNCHANGED faults
               \/ /\ rotated /\ Fault("noExpiry")
                  /\ disk' = [disk EXCEPT ![p] = Merge(@, rotated, FALSE)]
      BY <1>g DEF Ask
    <2>2. disk' \in [Procs -> Tokens]
      <3>1. \A timed \in BOOLEAN : Merge(disk[p], rotated, timed) \in Tokens
        BY MergeType DEF TypeOK
      <3> QED BY <2>1, <3>1 DEF TypeOK
    <2>3. faults' \in 0..MaxFaults
      BY <2>1, FaultType DEF TypeOK
    <2> QED BY <1>g, <2>1, <2>2, <2>3, AnswerType DEF Ask, TypeOK, history, Goto, Labels
  <1>h. ASSUME NEW p \in Procs, AskRefused(p) PROVE TypeOK'
    BY <1>h, ReleaseType, RaiseType DEF AskRefused, TypeOK, outside, history
  <1>i. ASSUME NEW p \in Procs, AskRaises(p) PROVE TypeOK'
    <2>1. /\ kakao' \in [refresh : RefreshTokens, access : AccessTokens, live : AccessTokens]
          /\ dies' \in [RefreshTokens -> Expiries]
          /\ strayed' \in BOOLEAN
      BY <1>i, AnswerType DEF AskRaises, TypeOK
    <2> QED BY <1>i, <2>1, FaultType, ReleaseType, RaiseType DEF AskRaises, TypeOK
  <1>j. ASSUME NEW p \in Procs, Write(p) PROVE TypeOK'
    <2>1. CASE why[p] = "cron"
      BY <1>j, <2>1, ReleaseType, EndType DEF Write, TypeOK, outside, history
    <2>2. CASE why[p] # "cron"
      BY <1>j, <2>2, ReleaseType DEF Write, TypeOK, outside, history, Goto, Labels
    <2> QED BY <2>1, <2>2
  <1>k. ASSUME NEW p \in Procs, MarkAlertSent(p) PROVE TypeOK'
    <2>1. day \in 0..MaxDay BY RangeFacts DEF TypeOK, Days
    <2> QED BY <1>k, <2>1 DEF MarkAlertSent, TypeOK, outside, history, Goto, Labels
  <1>l. ASSUME NEW p \in Procs, AcquireToMark(p) PROVE TypeOK'
    <2>1. [OnDisk(p) EXCEPT !.alert = stamp[p]] \in Tokens
      BY OnDiskType DEF TypeOK, Tokens
    <2> QED BY <1>l, <2>1 DEF AcquireToMark, TypeOK, outside, history, Goto, Labels
  <1>m. ASSUME NEW p \in Procs, Commit(p) PROVE TypeOK'
    <2>1. 0 \in 0..MaxDay BY RangeFacts
    <2> QED BY <1>m, <2>1, ReleaseType DEF Commit, TypeOK, outside, history, Goto, Labels
  <1>n. ASSUME NEW p \in Procs, PostRaises(p) PROVE TypeOK'
    <2>1. alerts' \in [Days -> 0..AlertCap]
      BY <1>n, CountType DEF PostRaises, TypeOK
    <2> QED BY <1>n, <2>1, FaultType, RaiseType DEF PostRaises, TypeOK, outside
  <1>o. ASSUME NEW p \in Procs, WriteRaises(p) PROVE TypeOK'
    BY <1>o, FaultType, ReleaseType, RaiseType DEF WriteRaises, TypeOK, outside
  <1>p. ASSUME NEW p \in Procs, Crash(p) PROVE TypeOK'
    BY <1>p, FaultType, ReleaseType, EndType DEF Crash, TypeOK, outside
  <1>q. ASSUME NextDay PROVE TypeOK'
    BY <1>q, RangeFacts DEF NextDay, TypeOK, history, Days
  <1>r. ASSUME AccessExpires PROVE TypeOK'
    BY <1>r, RangeFacts DEF AccessExpires, TypeOK, history, AccessTokens
  <1>s. ASSUME Remove PROVE TypeOK'
    BY <1>s, FaultType, RangeFacts DEF Remove, TypeOK, outside
  <1>t. ASSUME Setup PROVE TypeOK'
    <2>1. MayRotate /\ Answer(TRUE) /\ Fault("setup")
      BY <1>t DEF Setup
    <2>a. TRUE \in {FALSE, MayRotate}
      BY <2>1, Zenon
    <2> QED BY <1>t, <2>1, <2>a, AnswerType, FaultType DEF Setup, TypeOK
  <1>u. ASSUME UNCHANGED vars PROVE TypeOK'
    BY <1>u DEF vars, TypeOK
  <1> QED
    BY <1>a, <1>b, <1>c, <1>d, <1>e, <1>f, <1>g, <1>h, <1>i, <1>j, <1>k, <1>l, <1>m, <1>n,
       <1>o, <1>p, <1>q, <1>r, <1>s, <1>t, <1>u
    DEF Next, Progress, Failure, World, LoadRaises

\* Every variable stays in its range, for every number of processes, tokens
\* and failures.
THEOREM TypeCorrect == Spec => []TypeOK
  BY TypeInit, TypeStep, PTL DEF Spec

-----------------------------------------------------------------------------
(* The file and the lock *)

Holding == {"ask", "write", "commit"}

\* One process at a time holds the lock, from its read to its write.
LockInv ==
  /\ \A p, q \in locked : p = q
  /\ \A p \in Procs : p \in locked <=> pc[p] \in Holding

\* No copy has an access token Kakao has not issued yet.
AccessInv ==
  /\ file.access <= kakao.access
  /\ \A p \in Procs : mem[p].access <= kakao.access /\ disk[p].access <= kakao.access

NotOlder(t) == file # NoToken => t.access >= file.access /\ t.refresh >= file.refresh

\* What the holder of the lock is about to write, and what it read.
CopyInv ==
  \A p \in Procs :
    /\ pc[p] = "ask" => file \in {NoToken, disk[p]}
    /\ pc[p] = "write" => NotOlder(disk[p]) /\ (strayed \/ disk[p].refresh = kakao.refresh)
    /\ pc[p] = "commit" => NotOlder(disk[p]) /\ (strayed \/ disk[p].refresh = file.refresh)

FileInv == TypeOK /\ LockInv /\ AccessInv /\ CopyInv /\ FileIsCurrent /\ PresentsCurrent

\* p moves; the other processes stay where they are.
Only(p) == \A q \in Procs \ {p} : pc'[q] = pc[q]
MemIssued == \A p \in Procs : mem'[p].access <= kakao'.access

LEMMA TokenFields ==
  ASSUME TypeOK
  PROVE  /\ file.access \in Nat /\ file.refresh \in Nat
         /\ kakao.access \in Nat \ {0} /\ kakao.refresh \in Nat \ {0}
         /\ \A p \in Procs : /\ mem[p].access \in Nat /\ mem[p].refresh \in Nat
                             /\ disk[p].access \in Nat /\ disk[p].refresh \in Nat
  <1>1. \A t \in Tokens : t.access \in Nat /\ t.refresh \in Nat
    BY RangeFacts DEF Tokens
  <1>2. kakao.access \in Nat \ {0} /\ kakao.refresh \in Nat \ {0}
    BY RangeFacts DEF TypeOK, AccessTokens, RefreshTokens
  <1> QED BY <1>1, <1>2 DEF TypeOK

\* While nobody is between the answer and the write, the file is current or a
\* token was lost; and a missing file is a lost token.
LEMMA FreeFile ==
  ASSUME FileInv, \A q \in Procs : pc[q] # "write"
  PROVE  /\ strayed \/ file.refresh = kakao.refresh
         /\ file = NoToken => strayed
  BY TokenFields DEF FileInv, FileIsCurrent, NoToken

\* The holder is alone.
LEMMA Alone ==
  ASSUME FileInv, NEW p \in Procs, pc[p] \in Holding, NEW q \in Procs, pc[q] \in Holding
  PROVE  p = q
  BY DEF FileInv, LockInv

\* A step that leaves the file, the lock and what was read alone.
LEMMA QuietStep ==
  ASSUME FileInv, TypeOK', NEW p \in Procs, Only(p),
         (pc'[p] \in Holding) <=> (pc[p] \in Holding), pc[p] \in Holding => pc'[p] = pc[p],
         UNCHANGED <<file, locked, disk, strayed>>,
         kakao'.refresh = kakao.refresh, kakao'.access = kakao.access, MemIssued
  PROVE  FileInv'
  <1>1. \A q \in Procs : (pc'[q] \in Holding <=> pc[q] \in Holding)
                         /\ (pc[q] \in Holding => pc'[q] = pc[q])
    BY DEF Only
  <1>2. LockInv' BY <1>1 DEF FileInv, LockInv
  <1>3. AccessInv' BY DEF FileInv, AccessInv, MemIssued
  <1>4. CopyInv' BY <1>1 DEF FileInv, CopyInv, NotOlder, Holding
  <1>5. FileIsCurrent' BY <1>1 DEF FileInv, FileIsCurrent, Holding
  <1>6. PresentsCurrent' BY <1>1 DEF FileInv, PresentsCurrent, Holding
  <1> QED BY <1>2, <1>3, <1>4, <1>5, <1>6 DEF FileInv

\* A step by which p lets go of the lock, or dies without it, leaving the file.
LEMMA DropStep ==
  ASSUME FileInv, TypeOK', NEW p \in Procs, Only(p), Release(p), pc'[p] \notin Holding,
         file' = file, kakao'.access >= kakao.access, MemIssued,
         strayed => strayed', strayed' \/ kakao'.refresh = kakao.refresh,
         pc[p] = "write" => strayed' \/ disk[p].refresh = file.refresh
  PROVE  FileInv'
  <1> USE DEF Holding
  <1>1. \A q \in Procs : q # p => pc'[q] = pc[q] /\ disk'[q] = disk[q]
    BY DEF FileInv, TypeOK, Only, Release
  <1>2. LockInv' BY <1>1 DEF FileInv, LockInv, Release
  <1>3. AccessInv'
    <2>1. file'.access <= kakao'.access
      BY TokenFields DEF FileInv, AccessInv, TypeOK, AccessTokens
    <2>2. ASSUME NEW q \in Procs PROVE disk'[q].access <= kakao'.access
      <3>1. kakao'.access \in Nat
        BY DEF TypeOK, AccessTokens
      <3>2. CASE q = p
        BY <3>1, <3>2 DEF FileInv, TypeOK, Release, NoToken
      <3>3. CASE q # p
        BY <1>1, <3>1, <3>3, TokenFields DEF FileInv, AccessInv
      <3> QED BY <3>2, <3>3
    <2> QED BY <2>1, <2>2 DEF AccessInv, MemIssued
  <1>4. CopyInv'
    BY <1>1 DEF FileInv, CopyInv, NotOlder
  <1>5. FileIsCurrent'
    BY <1>1, Alone DEF FileInv, FileIsCurrent, CopyInv
  <1>6. PresentsCurrent'
    BY <1>1 DEF FileInv, PresentsCurrent
  <1> QED BY <1>2, <1>3, <1>4, <1>5, <1>6 DEF FileInv

\* The holder replaces the file and lets go of the lock.
LEMMA PutStep ==
  ASSUME FileInv, TypeOK', NEW p \in Procs, pc[p] \in {"write", "commit"},
         Only(p), Release(p), pc'[p] \notin Holding,
         file' = disk[p], UNCHANGED <<kakao, strayed>>, MemIssued
  PROVE  FileInv'
  <1> USE DEF Holding
  <1>1. \A q \in Procs : q # p => pc'[q] = pc[q] /\ disk'[q] = disk[q] /\ pc'[q] \notin Holding
    BY Alone DEF FileInv, TypeOK, Only, Release
  <1>2. LockInv' BY <1>1 DEF FileInv, LockInv, Release
  <1>3. AccessInv'
    <2>1. kakao'.access \in Nat
      BY DEF TypeOK, AccessTokens
    <2>2. ASSUME NEW q \in Procs PROVE disk'[q].access <= kakao'.access
      <3>1. CASE q = p
        BY <2>1, <3>1 DEF FileInv, TypeOK, Release, NoToken
      <3>2. CASE q # p
        BY <1>1, <3>2 DEF FileInv, AccessInv
      <3> QED BY <3>1, <3>2
    <2> QED BY <2>2 DEF FileInv, AccessInv, MemIssued
  <1>4. CopyInv' BY <1>1 DEF CopyInv
  <1>5. FileIsCurrent'
    <2>1. strayed \/ disk[p].refresh = kakao.refresh
      <3>1. CASE pc[p] = "write" BY <3>1 DEF FileInv, CopyInv
      <3>2. CASE pc[p] = "commit"
        <4>1. strayed \/ file.refresh = kakao.refresh
          BY <3>2, Alone, FreeFile
        <4> QED BY <3>2, <4>1 DEF FileInv, CopyInv
      <3> QED BY <3>1, <3>2
    <2> QED BY <2>1 DEF FileIsCurrent
  <1>6. PresentsCurrent' BY <1>1 DEF PresentsCurrent
  <1> QED BY <1>2, <1>3, <1>4, <1>5, <1>6 DEF FileInv

\* p takes the lock and reads; a missing file is read from p's memory.
LEMMA TakeStep ==
  ASSUME FileInv, TypeOK', NEW p \in Procs, pc[p] \notin Holding, Free, Only(p),
         pc'[p] \in {"ask", "commit"}, locked' = locked \cup {p},
         UNCHANGED <<file, kakao, strayed, mem>>,
         \A q \in Procs \ {p} : disk'[q] = disk[q],
         disk'[p].access = OnDisk(p).access, disk'[p].refresh = OnDisk(p).refresh,
         pc'[p] = "ask" => disk'[p] = OnDisk(p)
  PROVE  FileInv'
  <1> USE DEF Holding
  <1>1. /\ \A q \in Procs : pc[q] \notin Holding
        /\ \A q \in Procs : q # p => pc'[q] = pc[q]
        /\ \A q \in Procs : q # p => pc'[q] \notin Holding
    BY DEF FileInv, LockInv, Free, Only
  <1>2. LockInv' BY <1>1 DEF FileInv, LockInv, Free
  <1>3. AccessInv' BY DEF FileInv, AccessInv, OnDisk
  <1>4. /\ strayed \/ file.refresh = kakao.refresh
        /\ file = NoToken => strayed
    BY <1>1, FreeFile
  <1>5. CopyInv'
    BY <1>1, <1>4, TokenFields DEF FileInv, CopyInv, NotOlder, OnDisk
  <1>6. FileIsCurrent' BY <1>4 DEF FileIsCurrent
  <1>7. PresentsCurrent' BY <1>1, <1>4 DEF PresentsCurrent, OnDisk
  <1> QED BY <1>2, <1>3, <1>5, <1>6, <1>7 DEF FileInv

LEMMA AskStep == ASSUME FileInv, TypeOK', NEW p \in Procs, Ask(p) PROVE FileInv'
  <1> USE DEF Holding
  <1>1. PICK rotated \in {FALSE, MayRotate} :
          /\ Answer(rotated)
          /\ \/ disk' = [disk EXCEPT ![p] = Merge(@, rotated, TRUE)]
             \/ disk' = [disk EXCEPT ![p] = Merge(@, rotated, FALSE)]
    BY DEF Ask
  <1>2. /\ pc[p] = "ask" /\ pc'[p] = "write" /\ Honours(p)
        /\ UNCHANGED <<file, locked, strayed, mem>>
        /\ \A q \in Procs : q # p => pc'[q] = pc[q] /\ disk'[q] = disk[q] /\ pc[q] \notin Holding
    <2>1. /\ pc[p] = "ask" /\ Honours(p) /\ pc' = [pc EXCEPT ![p] = "write"]
          /\ UNCHANGED <<file, locked, strayed, mem>>
      BY DEF Ask, Goto, history
    <2>2. pc'[p] = "write" /\ \A q \in Procs : q # p => pc'[q] = pc[q] /\ disk'[q] = disk[q]
      BY <1>1, <2>1 DEF FileInv, TypeOK
    <2>3. \A q \in Procs : q # p => pc[q] \notin Holding
      BY <2>1, Alone
    <2> QED BY <2>1, <2>2, <2>3
  <1>3. NextAccess >= kakao.access /\ NextAccess \in Nat
    <2>1. NextAccess >= kakao.access /\ NextAccess \in AccessTokens
      BY <1>1, AnswerType DEF FileInv
    <2> QED BY <2>1, RangeFacts DEF AccessTokens
  <1>4. /\ kakao'.access = NextAccess /\ kakao'.access >= kakao.access
        /\ kakao'.refresh = IF rotated THEN kakao.refresh + 1 ELSE kakao.refresh
    BY <1>1, <1>3 DEF Answer, FileInv, TypeOK
  <1>5. disk'[p].access = kakao'.access /\ disk'[p].refresh = kakao'.refresh
    <2>1. disk[p] \in Tokens /\ disk[p].refresh = kakao.refresh
      BY <1>2 DEF FileInv, TypeOK, Honours
    <2>2. \E timed \in BOOLEAN : disk'[p] = Merge(disk[p], rotated, timed)
      BY <1>1 DEF FileInv, TypeOK
    <2>3. \A timed \in BOOLEAN :
            LET t == Merge(disk[p], rotated, timed)
            IN  /\ t.access = NextAccess
                /\ t.refresh = IF rotated THEN kakao.refresh + 1 ELSE kakao.refresh
      BY <2>1 DEF Tokens, Merge
    <2> QED BY <2>2, <2>3, <1>4
  <1>6. LockInv' BY <1>2 DEF FileInv, LockInv
  <1>7. AccessInv'
    BY <1>2, <1>3, <1>4, <1>5, TokenFields DEF FileInv, AccessInv
  <1>8. CopyInv'
    <2>1. NotOlder(disk[p])' 
      BY <1>2, <1>3, <1>4, <1>5, TokenFields DEF FileInv, AccessInv, CopyInv, NotOlder, Honours
    <2> QED BY <1>2, <1>5, <2>1 DEF CopyInv
  <1>9. FileIsCurrent' BY <1>2, <1>5 DEF FileIsCurrent
  <1>10. PresentsCurrent' BY <1>2 DEF PresentsCurrent
  <1> QED BY <1>6, <1>7, <1>8, <1>9, <1>10 DEF FileInv

\* A step outside the processes: all it may do is lose the file, or have Kakao
\* issue tokens that no process sees.
LEMMA WorldStep ==
  ASSUME FileInv, TypeOK', UNCHANGED <<locked, pc, mem, disk>>, file' \in {file, NoToken},
         kakao'.access >= kakao.access, strayed => strayed',
         strayed' \/ (kakao'.refresh = kakao.refresh /\ file' = file)
  PROVE  FileInv'
  <1>1. LockInv' BY DEF FileInv, LockInv
  <1>2. AccessInv'
    BY TokenFields DEF FileInv, AccessInv, NoToken, TypeOK, AccessTokens
  <1>3. CopyInv' BY DEF FileInv, CopyInv, NotOlder
  <1>4. FileIsCurrent' BY DEF FileInv, FileIsCurrent
  <1>5. PresentsCurrent' BY DEF FileInv, PresentsCurrent
  <1> QED BY <1>1, <1>2, <1>3, <1>4, <1>5 DEF FileInv

LEMMA FileInit == Init => FileInv
  <1> SUFFICES ASSUME Init PROVE FileInv
    OBVIOUS
  <1>1. TypeOK BY TypeInit
  <1>2. LockInv /\ AccessInv /\ CopyInv /\ FileIsCurrent /\ PresentsCurrent
    BY <1>1, TokenFields DEF Init, LockInv, AccessInv, CopyInv, NotOlder, FileIsCurrent,
       PresentsCurrent, Holding, NoToken
  <1> QED BY <1>1, <1>2 DEF FileInv

\* p ends or goes on after an exception: it holds nothing, and its copy is the
\* old one or none.
LEMMA EndFacts ==
  ASSUME FileInv, NEW p \in Procs, End(p) \/ Raise(p)
  PROVE  /\ Only(p) /\ pc'[p] \in {"idle", "work"}
         /\ \A q \in Procs : mem'[q] \in {mem[q], NoToken}
  <1>1. CASE End(p)
    BY <1>1 DEF FileInv, TypeOK, End, Goto, Only
  <1>2. CASE Raise(p) /\ ~End(p)
    BY <1>2 DEF FileInv, TypeOK, Raise, Goto, Only
  <1> QED BY <1>1, <1>2

\* Copies that are old or gone are issued, whatever Kakao has issued since.
LEMMA OldCopies ==
  ASSUME FileInv, TypeOK', kakao'.access >= kakao.access,
         \A q \in Procs : mem'[q] \in {mem[q], NoToken, file, disk[q]}
  PROVE  MemIssued
  <1>1. kakao'.access \in Nat /\ kakao'.access >= 0
    BY RangeFacts DEF TypeOK, AccessTokens
  <1>2. ASSUME NEW q \in Procs PROVE mem'[q].access <= kakao'.access
    BY <1>1, TokenFields DEF FileInv, AccessInv, NoToken
  <1> QED BY <1>2 DEF MemIssued

LEMMA StrayedMore ==
  ASSUME NEW lost, strayed' = (strayed \/ lost)
  PROVE  (strayed => strayed') /\ (lost => strayed')
  BY Zenon

LEMMA FileStep == FileInv /\ [Next]_vars => FileInv'
  <1> SUFFICES ASSUME FileInv, [Next]_vars PROVE FileInv'
    OBVIOUS
  <1> USE DEF Holding
  <1>0. TypeOK /\ TypeOK' /\ kakao.access >= kakao.access
    BY TypeStep, TokenFields DEF FileInv
  <1>a. ASSUME NEW p \in Procs,
               Load(p) \/ CheckAlert(p) \/ Work(p) \/ Post(p) \/ PostAgain(p)
               \/ MarkAlertSent(p) \/ PostRaises(p)
        PROVE  FileInv'
    <2>1. UNCHANGED <<file, locked, disk, strayed, kakao>>
      BY <1>a DEF Load, CheckAlert, Work, Post, PostAgain, MarkAlertSent, PostRaises,
         outside, history
    <2>2. Only(p) /\ pc[p] \notin Holding /\ pc'[p] \notin Holding
      BY <1>a, <1>0, EndFacts DEF Load, CheckAlert, Work, Post, PostAgain, MarkAlertSent,
         PostRaises, Sent, Goto, Only, TypeOK
    <2>3. \A q \in Procs : mem'[q] \in {mem[q], NoToken, file}
      BY <1>a, <1>0, EndFacts DEF Load, CheckAlert, Work, Post, PostAgain, MarkAlertSent,
         PostRaises, TypeOK
    <2> QED BY <1>0, <2>1, <2>2, <2>3, OldCopies, QuietStep
  <1>b. ASSUME NEW p \in Procs, AcquireToRefresh(p) \/ AcquireToMark(p) PROVE FileInv'
    <2>1. /\ UNCHANGED <<file, kakao, strayed, mem>> /\ locked' = locked \cup {p} /\ Free
          /\ pc[p] \notin Holding /\ pc'[p] \in {"ask", "commit"} /\ Only(p)
      BY <1>b, <1>0 DEF AcquireToRefresh, AcquireToMark, outside, history, Goto, Only, TypeOK
    <2>2. OnDisk(p) \in Tokens /\ stamp[p] \in 0..MaxDay
      BY <1>0, OnDiskType DEF TypeOK
    <2>3. /\ \A q \in Procs \ {p} : disk'[q] = disk[q]
          /\ disk'[p].access = OnDisk(p).access /\ disk'[p].refresh = OnDisk(p).refresh
          /\ pc'[p] = "ask" => disk'[p] = OnDisk(p)
      BY <1>b, <1>0, <2>2 DEF AcquireToRefresh, AcquireToMark, Goto, TypeOK, Tokens
    <2> QED BY <1>0, <2>1, <2>3, TakeStep
  <1>c. ASSUME NEW p \in Procs, Ask(p) PROVE FileInv'
    BY <1>0, <1>c, AskStep
  <1>d. ASSUME NEW p \in Procs, AskRefused(p) \/ WriteRaises(p) \/ Crash(p) PROVE FileInv'
    <2>3. UNCHANGED <<file, kakao>> /\ Release(p) /\ (End(p) \/ Raise(p))
      BY <1>d DEF AskRefused, WriteRaises, Crash, outside
    <2>4. strayed => strayed'
      BY <1>d, StrayedMore, Zenon DEF AskRefused, WriteRaises, Crash, history
    <2>5. pc[p] = "write" => strayed' \/ disk[p].refresh = file.refresh
      <3>1. CASE AskRefused(p) BY <3>1 DEF AskRefused
      <3>2. CASE WriteRaises(p) BY <3>2, StrayedMore, Zenon DEF WriteRaises
      <3>3. CASE Crash(p) BY <3>3, StrayedMore, Zenon DEF Crash
      <3> QED BY <1>d, <3>1, <3>2, <3>3
    <2>1. /\ UNCHANGED <<file, kakao>> /\ Release(p) /\ (strayed => strayed')
          /\ (End(p) \/ Raise(p)) /\ kakao'.refresh = kakao.refresh
          /\ pc[p] = "write" => strayed' \/ disk[p].refresh = file.refresh
      BY <2>3, <2>4, <2>5
    <2>2. Only(p) /\ pc'[p] \notin Holding /\ MemIssued
      BY <1>0, <2>1, EndFacts, OldCopies
    <2> QED BY <1>0, <2>1, <2>2, DropStep
  <1>e. ASSUME NEW p \in Procs, AskRaises(p) PROVE FileInv'
    <2>1. file' = file /\ Release(p) /\ Raise(p) /\ pc[p] = "ask"
      BY <1>e DEF AskRaises
    <2>4. strayed => strayed'
      BY <1>e, StrayedMore, Zenon DEF AskRaises
    <2>2. kakao'.access >= kakao.access /\ (strayed' \/ kakao'.refresh = kakao.refresh)
      <3>1. CASE UNCHANGED <<kakao, dies, strayed>>
        BY <1>0, <3>1
      <3>2. CASE \E rotated \in {FALSE, MayRotate} :
                   Answer(rotated) /\ strayed' = (strayed \/ rotated)
        <4>1. PICK rotated \in {FALSE, MayRotate} :
                Answer(rotated) /\ strayed' = (strayed \/ rotated)
          BY <3>2
        <4>2. kakao'.access = NextAccess /\ (rotated \/ kakao'.refresh = kakao.refresh)
          BY <1>0, <4>1 DEF Answer, TypeOK
        <4> QED BY <1>0, <4>1, <4>2, AnswerType
      <3> QED BY <1>e, <3>1, <3>2 DEF AskRaises
    <2>3. Only(p) /\ pc'[p] \notin Holding /\ MemIssued
      BY <1>0, <2>1, <2>2, EndFacts, OldCopies
    <2> QED BY <1>0, <2>1, <2>2, <2>3, <2>4, DropStep
  <1>f. ASSUME NEW p \in Procs, Write(p) \/ Commit(p) PROVE FileInv'
    <2>1. /\ pc[p] \in {"write", "commit"} /\ file' = disk[p] /\ Release(p)
          /\ UNCHANGED <<kakao, strayed>>
      BY <1>f DEF Write, Commit, outside, history
    <2>2. Only(p) /\ pc'[p] \notin Holding
      BY <1>f, <1>0, EndFacts DEF Write, Commit, Goto, Only, TypeOK
    <2>3. \A q \in Procs : mem'[q] \in {mem[q], NoToken, disk[q]}
      BY <1>f, <1>0, EndFacts DEF Write, Commit, TypeOK
    <2> QED BY <1>0, <2>1, <2>2, <2>3, OldCopies, PutStep
  <1>g. ASSUME NextDay \/ AccessExpires PROVE FileInv'
    <2>1. /\ UNCHANGED <<file, strayed, locked, pc, mem, disk>>
          /\ kakao'.refresh = kakao.refresh /\ kakao'.access = kakao.access
      BY <1>g, <1>0 DEF NextDay, AccessExpires, history, TypeOK
    <2> QED BY <1>0, <2>1, WorldStep
  <1>h. ASSUME Remove PROVE FileInv'
    BY <1>h, <1>0, WorldStep DEF Remove, outside
  <1>i. ASSUME Setup PROVE FileInv'
    <2>1. MayRotate /\ Answer(TRUE)
      BY <1>i DEF Setup
    <2>2. TRUE \in {FALSE, MayRotate}
      BY <2>1, Zenon
    <2>3. kakao'.access = NextAccess
      BY <1>0, <2>1 DEF Answer, TypeOK
    <2>4. kakao'.access >= kakao.access
      BY <1>0, <2>1, <2>2, <2>3, AnswerType
    <2> QED BY <1>i, <1>0, <2>4, WorldStep DEF Setup
  <1>j. ASSUME UNCHANGED vars PROVE FileInv'
    <2>1. UNCHANGED <<file, strayed, locked, pc, mem, disk, kakao>>
      BY <1>j DEF vars
    <2> QED BY <1>0, <2>1, WorldStep
  <1> QED
    BY <1>a, <1>b, <1>c, <1>d, <1>e, <1>f, <1>g, <1>h, <1>i, <1>j
    DEF Next, Progress, Failure, World, LoadRaises

\* Two writes under one lock never take the file back to older tokens.
LEMMA UndoneStep ==
  ASSUME FileInv, [Next]_vars, file # NoToken, file' # NoToken
  PROVE  file'.access >= file.access /\ file'.refresh >= file.refresh
  <1>1. ASSUME NEW p \in Procs, Write(p) \/ Commit(p)
        PROVE  file'.access >= file.access /\ file'.refresh >= file.refresh
    BY <1>1 DEF Write, Commit, FileInv, CopyInv, NotOlder
  <1>2. CASE ~\E p \in Procs : Write(p) \/ Commit(p)
    <2>1. file' \in {file, NoToken}
      BY <1>2 DEF Next, Progress, Failure, World, Load, LoadRaises, CheckAlert, Work, Post,
         PostAgain, AcquireToRefresh, Ask, AskRefused, AskRaises, MarkAlertSent, AcquireToMark,
         PostRaises, WriteRaises, Crash, NextDay, AccessExpires, Remove, Setup, outside, vars
    <2> QED BY <2>1, TokenFields DEF FileInv
  <1> QED BY <1>1, <1>2

\* Whatever processes refresh, alert, fail and crash in whatever order, the
\* file holds the refresh token Kakao accepts, unless an answer was lost on its
\* way, the file was deleted or somebody authorized anew.
THEOREM FileCorrect == Spec => []FileIsCurrent
  BY FileInit, FileStep, PTL DEF Spec, FileInv

\* No process presents a refresh token that another one has exchanged.
THEOREM PresentCorrect == Spec => []PresentsCurrent
  BY FileInit, FileStep, PTL DEF Spec, FileInv

\* No write brings back older tokens.
THEOREM UndoneCorrect == Spec => NothingUndone
  <1>1. FileInv /\ [Next]_vars
          => [file # NoToken /\ file' # NoToken
                => file'.access >= file.access /\ file'.refresh >= file.refresh]_vars
    BY UndoneStep
  <1>2. Spec => []FileInv
    BY FileInit, FileStep, PTL DEF Spec
  <1> QED BY <1>1, <1>2, PTL DEF Spec, NothingUndone
-----------------------------------------------------------------------------
(* ExpiryBelongs.  An expiry travels with its refresh token: every copy of *)
(* the file, in memory or read under the lock, has the expiry of its own   *)
(* token or none, and Kakao never changes the last day of a token it has   *)
(* issued.  That needs Kakao to tell the life of every new token.          *)

ExpiryTold == "noExpiry" \notin FaultKinds

Belongs(t) ==
  /\ t.refresh \in 0..kakao.refresh
  /\ t.expiry = 0 \/ (t.refresh # 0 /\ t.expiry = dies[t.refresh])

OwnInv == Belongs(file) /\ \A p \in Procs : Belongs(mem[p]) /\ Belongs(disk[p])

\* The same for a copy there is after the step.
BelongsNext(t) ==
  /\ t.refresh \in 0..kakao'.refresh
  /\ t.expiry = 0 \/ (t.refresh # 0 /\ t.expiry = dies'[t.refresh])

\* A token and its expiry are no news.
Same(t, u) == t.refresh = u.refresh /\ t.expiry = u.expiry
Known(t) == \/ Same(t, NoToken) \/ Same(t, file)
            \/ \E q \in Procs : Same(t, mem[q]) \/ Same(t, disk[q])

KakaoGrows == /\ kakao'.refresh >= kakao.refresh
              /\ \A t \in 1..kakao.refresh : dies'[t] = dies[t]

LEMMA AnswerGrows ==
  ASSUME TypeOK, NEW rotated \in {FALSE, MayRotate}, Answer(rotated)
  PROVE  KakaoGrows
  <1>1. kakao.refresh \in Nat \ {0} BY TokenFields
  <1>2. kakao'.refresh = IF rotated THEN kakao.refresh + 1 ELSE kakao.refresh
    BY DEF Answer, TypeOK
  <1>3. kakao'.refresh >= kakao.refresh BY <1>1, <1>2
  <1>4. \A t \in 1..kakao.refresh : dies'[t] = dies[t]
    BY <1>1 DEF Answer, TypeOK
  <1> QED BY <1>3, <1>4 DEF KakaoGrows

LEMMA KnownBelongs ==
  ASSUME TypeOK, TypeOK', OwnInv, KakaoGrows
  PROVE  \A t : Known(t) => BelongsNext(t)
  <1>1. kakao.refresh \in Nat \ {0} /\ kakao'.refresh \in Nat \ {0}
    BY RangeFacts DEF TypeOK, RefreshTokens
  <1>2. ASSUME NEW t, NEW u, Belongs(u), Same(t, u) PROVE BelongsNext(t)
    <2>1. u.refresh \in 0..kakao.refresh BY <1>2 DEF Belongs
    <2>2. t.refresh \in 0..kakao'.refresh
      BY <1>1, <1>2, <2>1 DEF Same, KakaoGrows
    <2>3. u.refresh # 0 => dies'[u.refresh] = dies[u.refresh]
      BY <1>1, <2>1 DEF KakaoGrows
    <2> QED BY <1>2, <2>2, <2>3 DEF Belongs, BelongsNext, Same
  <1>3. Belongs(NoToken)
    BY <1>1 DEF Belongs, NoToken
  <1> QED BY <1>2, <1>3 DEF Known, OwnInv

LEMMA OwnStep ==
  ASSUME TypeOK, TypeOK', OwnInv, KakaoGrows, BelongsNext(file') \/ Known(file'),
         \A q \in Procs : /\ BelongsNext(mem'[q]) \/ Known(mem'[q])
                          /\ BelongsNext(disk'[q]) \/ Known(disk'[q])
  PROVE  OwnInv'
  <1>1. /\ BelongsNext(file')
        /\ \A q \in Procs : BelongsNext(mem'[q]) /\ BelongsNext(disk'[q])
    BY KnownBelongs
  <1> QED BY <1>1 DEF OwnInv, Belongs, BelongsNext

\* Old copies are known; a date of an alert changes nothing.
LEMMA KnownOnes ==
  /\ Known(file) /\ Known(NoToken)
  /\ \A q \in Procs : Known(mem[q]) /\ Known(disk[q]) /\ Known(OnDisk(q))
  BY DEF Known, Same, OnDisk

LEMMA OwnInit == Init => OwnInv
  <1> SUFFICES ASSUME Init PROVE OwnInv
    OBVIOUS
  <1>1. /\ kakao.refresh = 1 /\ 1 \in RefreshTokens
        /\ \A t \in RefreshTokens : dies[t] = IF t = 1 THEN FirstExpiry ELSE 0
    BY RangeFacts DEF Init, RefreshTokens
  <1>2. Belongs(file) BY <1>1 DEF Init, Belongs
  <1>3. Belongs(NoToken) BY <1>1 DEF Belongs, NoToken
  <1> QED BY <1>2, <1>3 DEF Init, OwnInv

LEMMA AskOwns ==
  ASSUME ExpiryTold, TypeOK, TypeOK', OwnInv, NEW p \in Procs, Ask(p)
  PROVE  OwnInv'
  <1>1. PICK rotated \in {FALSE, MayRotate} :
          /\ Answer(rotated)
          /\ disk' = [disk EXCEPT ![p] = Merge(@, rotated, TRUE)]
    BY DEF Ask, Fault, ExpiryTold
  <1>2. /\ disk[p] \in Tokens /\ disk[p].refresh = kakao.refresh
        /\ kakao.refresh \in Nat \ {0} /\ UNCHANGED <<file, mem>>
    BY TokenFields DEF Ask, Honours, TypeOK
  <1>3. disk'[p] = Merge(disk[p], rotated, TRUE) /\ \A q \in Procs \ {p} : disk'[q] = disk[q]
    BY <1>1 DEF TypeOK
  <1>4. KakaoGrows BY <1>1, AnswerGrows
  <1>5. BelongsNext(disk'[p]) \/ Known(disk'[p])
    <2>1. CASE rotated
      <3>1. disk'[p].refresh = kakao.refresh + 1 /\ disk'[p].expiry = day + Lifetime
        BY <1>2, <1>3, <2>1 DEF Merge, Tokens
      <3>2. kakao.refresh + 1 \in RefreshTokens
        BY <1>1, <2>1, AnswerType
      <3>3. kakao'.refresh = kakao.refresh + 1 /\ dies'[kakao.refresh + 1] = day + Lifetime
        BY <1>1, <2>1, <3>2 DEF Answer, TypeOK
      <3>4. /\ kakao.refresh + 1 \in 0..(kakao.refresh + 1) /\ kakao.refresh + 1 # 0
        BY <1>2
      <3> QED BY <3>1, <3>3, <3>4 DEF BelongsNext
    <2>2. CASE ~rotated
      <3>1. Same(disk'[p], disk[p])
        BY <1>2, <1>3, <2>2 DEF Merge, Tokens, Same
      <3> QED BY <3>1 DEF Known
    <2> QED BY <2>1, <2>2
  <1> QED BY <1>2, <1>3, <1>4, <1>5, KnownOnes, OwnStep

LEMMA OwnKept ==
  ASSUME ExpiryTold, TypeOK, TypeOK', OwnInv, [Next]_vars
  PROVE  OwnInv'
  <1>1. ASSUME NEW p \in Procs, Release(p)
        PROVE  \A q \in Procs : disk'[q] \in {disk[q], NoToken}
    BY <1>1 DEF Release, TypeOK
  <1>2. ASSUME NEW p \in Procs, End(p) \/ Raise(p)
        PROVE  \A q \in Procs : mem'[q] \in {mem[q], NoToken}
    <2>1. CASE End(p) BY <2>1 DEF End, TypeOK
    <2>2. CASE Raise(p) /\ ~End(p) BY <2>2 DEF Raise
    <2> QED BY <1>2, <2>1, <2>2
  <1>3. ASSUME UNCHANGED <<kakao, dies>> PROVE KakaoGrows
    BY <1>3, TokenFields DEF KakaoGrows
  <1>a. ASSUME NEW p \in Procs,
               Load(p) \/ CheckAlert(p) \/ Work(p) \/ Post(p) \/ PostAgain(p)
               \/ MarkAlertSent(p) \/ PostRaises(p)
        PROVE  OwnInv'
    <2>1. UNCHANGED <<file, disk, kakao, dies>>
      BY <1>a DEF Load, CheckAlert, Work, Post, PostAgain, MarkAlertSent, PostRaises,
         outside, history
    <2>2. \A q \in Procs : mem'[q] \in {mem[q], NoToken, file}
      BY <1>a, <1>2 DEF Load, CheckAlert, Work, Post, PostAgain, MarkAlertSent, PostRaises, TypeOK
    <2> QED BY <1>3, <2>1, <2>2, KnownOnes, OwnStep
  <1>b. ASSUME NEW p \in Procs, AcquireToRefresh(p) \/ AcquireToMark(p) PROVE OwnInv'
    <2>1. UNCHANGED <<file, mem, kakao, dies>>
      BY <1>b DEF AcquireToRefresh, AcquireToMark, outside
    <2>2. \A q \in Procs \ {p} : disk'[q] = disk[q]
      BY <1>b DEF AcquireToRefresh, AcquireToMark, TypeOK
    <2>3. Same(disk'[p], OnDisk(p))
      BY <1>b, OnDiskType DEF AcquireToRefresh, AcquireToMark, TypeOK, Tokens, Same
    <2>4. Known(disk'[p])
      BY <2>3 DEF Known, OnDisk, Same
    <2> QED BY <1>3, <2>1, <2>2, <2>4, KnownOnes, OwnStep
  <1>c. ASSUME NEW p \in Procs, Ask(p) PROVE OwnInv'
    BY <1>c, AskOwns
  <1>d. ASSUME NEW p \in Procs, AskRefused(p) \/ WriteRaises(p) \/ Crash(p) PROVE OwnInv'
    <2>1. UNCHANGED <<file, kakao, dies>> /\ Release(p) /\ (End(p) \/ Raise(p))
      BY <1>d DEF AskRefused, WriteRaises, Crash, outside
    <2> QED BY <1>1, <1>2, <1>3, <2>1, KnownOnes, OwnStep
  <1>e. ASSUME NEW p \in Procs, AskRaises(p) PROVE OwnInv'
    <2>1. file' = file /\ Release(p) /\ Raise(p)
      BY <1>e DEF AskRaises
    <2>2. KakaoGrows
      BY <1>e, <1>3, AnswerGrows DEF AskRaises
    <2> QED BY <1>1, <1>2, <2>1, <2>2, KnownOnes, OwnStep
  <1>f. ASSUME NEW p \in Procs, Write(p) \/ Commit(p) PROVE OwnInv'
    <2>1. file' = disk[p] /\ Release(p) /\ UNCHANGED <<kakao, dies>>
      BY <1>f DEF Write, Commit, outside
    <2>2. \A q \in Procs : mem'[q] \in {mem[q], NoToken, disk[q]}
      BY <1>f, <1>2 DEF Write, Commit, TypeOK
    <2> QED BY <1>1, <1>3, <2>1, <2>2, KnownOnes, OwnStep
  <1>g. ASSUME NextDay \/ AccessExpires PROVE OwnInv'
    <2>1. UNCHANGED <<file, mem, disk>> /\ kakao'.refresh = kakao.refresh /\ dies' = dies
      BY <1>g DEF NextDay, AccessExpires, TypeOK
    <2>2. KakaoGrows BY <2>1, TokenFields DEF KakaoGrows
    <2> QED BY <2>1, <2>2, KnownOnes, OwnStep
  <1>h. ASSUME Remove PROVE OwnInv'
    <2>1. UNCHANGED <<kakao, dies, mem, disk>> /\ file' = NoToken
      BY <1>h DEF Remove, outside
    <2> QED BY <1>3, <2>1, KnownOnes, OwnStep
  <1>i. ASSUME Setup PROVE OwnInv'
    <2>1. MayRotate /\ Answer(TRUE) /\ UNCHANGED <<file, mem, disk>>
      BY <1>i DEF Setup
    <2>2. TRUE \in {FALSE, MayRotate}
      BY <2>1, Zenon
    <2>3. KakaoGrows BY <2>1, <2>2, AnswerGrows
    <2> QED BY <2>1, <2>3, KnownOnes, OwnStep
  <1>j. ASSUME UNCHANGED vars PROVE OwnInv'
    <2>1. UNCHANGED <<file, mem, disk, kakao, dies>>
      BY <1>j DEF vars
    <2> QED BY <1>3, <2>1, KnownOnes, OwnStep
  <1> QED
    BY <1>a, <1>b, <1>c, <1>d, <1>e, <1>f, <1>g, <1>h, <1>i, <1>j
    DEF Next, Progress, Failure, World, LoadRaises

\* The expiry in the file, by which the alert is decided, is that of the
\* refresh token beside it, as long as Kakao tells it with every new token.
THEOREM ExpiryCorrect == ExpiryTold => (Spec => []ExpiryBelongs)
  <1> SUFFICES ASSUME ExpiryTold PROVE Spec => []ExpiryBelongs
    OBVIOUS
  <1>1. Init => TypeOK /\ OwnInv
    BY TypeInit, OwnInit
  <1>2. TypeOK /\ OwnInv /\ [Next]_vars => TypeOK' /\ OwnInv'
    BY TypeStep, OwnKept
  <1>3. OwnInv => ExpiryBelongs
    BY DEF OwnInv, Belongs, ExpiryBelongs
  <1> QED BY <1>1, <1>2, <1>3, PTL DEF Spec

-----------------------------------------------------------------------------
(* AlertsPaidByFaults.  With one batch at a time today's alerts are paid   *)
(* for (no more of them than failures), or one more has been delivered and *)
(* its date is in the file or on its way there; and a batch that is about  *)
(* to send an alert found today's paid for.                                *)

SingleBatch == \A p, q \in Batches : p = q

Paid == alerts[day] <= faults
Recording(p) == pc[p] \in {"date", "mark", "commit"}
Today == Paid \/ file.alert = day \/ \E p \in Procs : Recording(p)

Mine(p) ==
  /\ pc[p] \in {"mark", "commit"} /\ stamp[p] # day => Paid
  /\ pc[p] = "check" /\ mem[p].alert # day => Paid
  /\ why[p] = "alert" /\ pc[p] \in {"post", "acquire", "ask", "write", "again"} => Paid
  /\ pc[p] = "commit" => disk[p].alert = stamp[p]
  /\ pc[p] \in {"ask", "write"} => file = NoToken \/ disk[p].alert = file.alert
  /\ why[p] = "alert" \/ pc[p] = "check" \/ Recording(p) => p \in Batches
  /\ pc[p] = "work" => why[p] # "alert"

AlertInv ==
  /\ AlertsPaidByFaults
  /\ \A d \in Days : d > day => alerts[d] = 0
  /\ Today
  /\ \A p \in Procs : Mine(p)

\* p moves; everything the other processes have stays as it is.
Moves(p) == \A q \in Procs \ {p} :
  /\ pc'[q] = pc[q] /\ why'[q] = why[q] /\ mem'[q] = mem[q]
  /\ disk'[q] = disk[q] /\ stamp'[q] = stamp[q]

LEMMA CountFacts ==
  ASSUME TypeOK
  PROVE  /\ day \in Days /\ day \in Nat \ {0} /\ faults \in Nat
         /\ \A d \in Days : d \in Nat /\ alerts[d] \in Nat
         /\ file.alert \in Nat /\ NoToken.alert = 0
  BY RangeFacts DEF TypeOK, Days, Tokens, NoToken

\* A failure pays for whatever was delivered before it.
LEMMA FaultPays ==
  ASSUME TypeOK, AlertInv, NEW kind, Fault(kind), UNCHANGED <<alerts, day>>
  PROVE  Paid' /\ faults' >= faults
  BY CountFacts DEF AlertInv, AlertsPaidByFaults, Fault, Paid

\* What a step of p has to show, when it delivers nothing.
LEMMA QuietAlert ==
  ASSUME FileInv, AlertInv, NEW p \in Procs, Moves(p),
         UNCHANGED <<alerts, day>>, faults' >= faults, faults' \in Nat,
         file' = file \/ \A q \in Procs \ {p} : pc[q] \notin Holding,
         Mine(p)', Today'
  PROVE  AlertInv'
  <1>1. TypeOK BY DEF FileInv
  <1>2. Paid => Paid'
    BY <1>1, CountFacts DEF Paid
  <1>3. AlertsPaidByFaults'
    BY <1>1, CountFacts DEF AlertInv, AlertsPaidByFaults
  <1>4. ASSUME NEW q \in Procs \ {p} PROVE Mine(q)'
    BY <1>2, <1>4 DEF Moves, AlertInv, Mine, Recording, Holding
  <1> QED BY <1>3, <1>4 DEF AlertInv

LEMMA TodayKept ==
  ASSUME TypeOK, AlertInv, NEW p \in Procs, Moves(p),
         UNCHANGED <<alerts, day, file>>, faults' >= faults, faults' \in Nat,
         Recording(p) => Recording(p)' \/ Paid'
  PROVE  Today'
  <1>1. Paid => Paid' BY CountFacts DEF Paid
  <1> QED BY <1>1 DEF AlertInv, Today, Moves, Recording

\* A delivery: the only batch has found today's alerts paid for.
LEMMA Delivered ==
  ASSUME FileInv, SingleBatch, AlertInv, NEW p \in Procs, p \in Batches, Moves(p),
         Paid, CountAlert, UNCHANGED <<day, file>>,
         faults' = faults \/ faults' = faults + 1,
         Recording(p)' \/ faults' = faults + 1,
         pc'[p] \in {"date", "work", "idle"}, pc'[p] = "work" => why'[p] # "alert"
  PROVE  AlertInv'
  <1>1. TypeOK BY DEF FileInv
  <1>2. /\ alerts'[day] <= faults + 1 /\ alerts'[day] \in Nat
        /\ \A d \in Days \ {day} : alerts'[d] = alerts[d]
    BY <1>1, CountFacts, RangeFacts DEF CountAlert, Paid, TypeOK
  <1>3. AlertsPaidByFaults'
    BY <1>1, <1>2, CountFacts DEF AlertInv, AlertsPaidByFaults
  <1>4. \A d \in Days : d > day => alerts'[d] = 0
    BY <1>1, <1>2, CountFacts DEF AlertInv
  <1>5. Today'
    BY <1>1, <1>2, CountFacts DEF Today, Paid
  <1>6. ASSUME NEW q \in Procs \ {p} PROVE Mine(q)'
    <2>1. q \notin Batches BY <1>6 DEF SingleBatch
    <2> QED BY <1>6, <2>1 DEF Moves, AlertInv, Mine, Recording
  <1>7. Mine(p)'
    BY DEF Mine, Recording
  <1> QED BY <1>3, <1>4, <1>5, <1>6, <1>7 DEF AlertInv

LEMMA AlertInit == Init => AlertInv
  <1> SUFFICES ASSUME Init PROVE AlertInv
    OBVIOUS
  <1>1. TypeOK BY TypeInit
  <1>2. \A d \in Days : alerts[d] = 0
    BY DEF Init
  <1>3. AlertsPaidByFaults /\ Today
    BY <1>1, <1>2, CountFacts DEF AlertsPaidByFaults, Today, Paid
  <1>4. \A p \in Procs : Mine(p)
    BY KindsAssumption DEF Init, Mine, Recording
  <1> QED BY <1>2, <1>3, <1>4 DEF AlertInv

LEMMA MovesAlone ==
  ASSUME TypeOK, NEW p \in Procs, Progress(p) \/ PostRaises(p) \/ AskRaises(p)
         \/ WriteRaises(p) \/ Crash(p)
  PROVE  Moves(p)
  <1>1. ASSUME End(p) \/ Raise(p)
        PROVE  \A q \in Procs \ {p} : /\ pc'[q] = pc[q] /\ why'[q] = why[q]
                                      /\ mem'[q] = mem[q] /\ stamp'[q] = stamp[q]
    <2>1. CASE End(p) BY <2>1 DEF End, Goto, TypeOK
    <2>2. CASE Raise(p) /\ ~End(p) BY <2>2 DEF Raise, Goto, TypeOK
    <2> QED BY <1>1, <2>1, <2>2
  <1>2. ASSUME Release(p) PROVE \A q \in Procs \ {p} : disk'[q] = disk[q]
    BY <1>2 DEF Release, TypeOK
  <1>3. CASE Load(p) \/ CheckAlert(p) \/ MarkAlertSent(p) \/ AcquireToRefresh(p) \/ AcquireToMark(p)
    BY <1>3 DEF Load, CheckAlert, MarkAlertSent, AcquireToRefresh, AcquireToMark, Goto,
       Moves, TypeOK
  <1>4. CASE Work(p)
    BY <1>1, <1>4 DEF Work, Goto, Moves, TypeOK
  <1>5. CASE Post(p) \/ PostAgain(p) \/ PostRaises(p)
    BY <1>1, <1>5 DEF Post, PostAgain, PostRaises, Sent, Goto, Moves, TypeOK
  <1>6. CASE Ask(p)
    BY <1>6 DEF Ask, Goto, Moves, TypeOK
  <1>7. CASE AskRefused(p) \/ AskRaises(p) \/ WriteRaises(p) \/ Crash(p)
    BY <1>1, <1>2, <1>7 DEF AskRefused, AskRaises, WriteRaises, Crash, Moves
  <1>8. CASE Write(p) \/ Commit(p)
    BY <1>1, <1>2, <1>8 DEF Write, Commit, Goto, Moves, TypeOK
  <1> QED BY <1>3, <1>4, <1>5, <1>6, <1>7, <1>8 DEF Progress

\* A process that ends or goes on after an exception, alert or not.
LEMMA EndMine ==
  ASSUME TypeOK, NEW p \in Procs, End(p) \/ Raise(p)
  PROVE  pc'[p] \in {"idle", "work"} /\ why'[p] # "alert"
  <1>1. CASE End(p) BY <1>1 DEF End, Goto, TypeOK
  <1>2. CASE Raise(p) /\ ~End(p) BY <1>2 DEF Raise, Goto, TypeOK
  <1> QED BY <1>1, <1>2

LEMMA AlertStep ==
  ASSUME SingleBatch, FileInv, AlertInv, [Next]_vars
  PROVE  AlertInv'
  <1>0. /\ TypeOK /\ TypeOK' /\ faults \in Nat /\ faults >= faults
        /\ Today /\ \A p \in Procs : Mine(p)
    BY TypeStep, CountFacts DEF FileInv, AlertInv
  <1> USE DEF Holding
  <1>a. ASSUME NEW p \in Procs, Load(p) \/ CheckAlert(p) \/ Work(p) PROVE AlertInv'
    <2>1. UNCHANGED <<alerts, day, file, faults>> /\ ~Recording(p) /\ Moves(p)
      BY <1>0, <1>a, MovesAlone DEF Load, CheckAlert, Work, Recording, outside, history, Progress
    <2>2. Today' BY <1>0, <2>1, TodayKept
    <2>3. Mine(p)'
      <3>1. CASE Load(p)
        <4>1. Recording(p) => p \in Batches
          BY <1>0 DEF Mine
        <4>2. pc[p] = "idle" /\ \A q \in Procs \ {p} : Recording(q) => p \notin Batches
          BY <1>0, <3>1 DEF Load, Mine, SingleBatch
        <4>3. CASE p \in Batches
          <5>1. Paid \/ file.alert = day
            BY <1>0, <2>1, <4>2, <4>3 DEF Today
          <5>2. mem'[p] = file /\ pc'[p] = "check"
            BY <1>0, <3>1, <4>3, KindsAssumption DEF Load, Goto, TypeOK
          <5>3. Paid \/ mem'[p].alert = day' => Paid' \/ mem'[p].alert = day'
            BY <2>1 DEF Paid
          <5> QED BY <2>1, <4>3, <5>1, <5>2, <5>3 DEF Mine, Recording
        <4>4. CASE p \notin Batches
          <5>1. why'[p] # "alert"
            BY <1>0, <3>1, <4>4 DEF Load, Mine, TypeOK
          <5>2. pc'[p] \in {"acquire", "work"}
            BY <1>0, <3>1, <4>4 DEF Load, Goto, TypeOK
          <5> QED BY <5>1, <5>2 DEF Mine, Recording
        <4> QED BY <4>3, <4>4
      <3>2. CASE CheckAlert(p)
        <4>1. p \in Batches /\ (mem[p].alert # day => Paid')
          BY <1>0, <2>1, <3>2 DEF CheckAlert, Mine, Paid
        <4>2. \/ pc'[p] = "post" /\ mem[p].alert # day
              \/ pc'[p] = "work" /\ why'[p] = "work"
          BY <1>0, <3>2 DEF CheckAlert, ShouldAlert, Goto, TypeOK
        <4> QED BY <4>1, <4>2 DEF Mine, Recording
      <3>3. CASE Work(p)
        <4>1. CASE End(p)
          BY <1>0, <4>1, EndMine DEF Mine, Recording
        <4>2. CASE Goto(p, "post") /\ UNCHANGED <<why, mem, stamp>>
          <5>1. pc[p] = "work" /\ pc'[p] = "post" /\ why'[p] = why[p]
            BY <1>0, <3>3, <4>2 DEF Work, Goto, TypeOK
          <5> QED BY <1>0, <5>1 DEF Mine, Recording
        <4> QED BY <3>3, <4>1, <4>2 DEF Work
      <3> QED BY <1>a, <3>1, <3>2, <3>3
    <2> QED BY <1>0, <2>1, <2>2, <2>3, QuietAlert
  <1>b. ASSUME NEW p \in Procs, Post(p) \/ PostAgain(p) PROVE AlertInv'
    <2>1. /\ UNCHANGED <<day, file, faults>> /\ ~Recording(p) /\ Moves(p)
          /\ pc[p] \in {"post", "again"}
      BY <1>0, <1>b, MovesAlone DEF Post, PostAgain, Recording, outside, Progress
    <2>2. \/ Sent(p) /\ UNCHANGED why
          \/ Goto(p, "acquire") /\ UNCHANGED <<alerts, why>>
          \/ Raise(p) /\ UNCHANGED alerts
      BY <1>b DEF Post, PostAgain
    <2>3. CASE Sent(p) /\ why[p] = "alert"
      <3>1. /\ CountAlert /\ pc'[p] = "date" /\ Paid /\ p \in Batches
        BY <1>0, <2>1, <2>3 DEF Sent, Goto, TypeOK, Mine
      <3> QED BY <1>0, <2>1, <3>1, Delivered DEF Recording
    <2>4. ASSUME UNCHANGED alerts,
                 \/ pc'[p] = "acquire" /\ UNCHANGED why
                 \/ pc'[p] = "work" /\ UNCHANGED why /\ why[p] # "alert"
                 \/ pc'[p] \in {"idle", "work"} /\ why'[p] # "alert"
          PROVE  AlertInv'
      <3>1. Today' BY <1>0, <2>1, <2>4, TodayKept
      <3>2. Paid => Paid' BY <2>1, <2>4 DEF Paid
      <3>3. Mine(p)'
        BY <1>0, <2>1, <2>4, <3>2 DEF Mine, Recording
      <3> QED BY <1>0, <2>1, <2>4, <3>1, <3>3, QuietAlert
    <2>5. CASE Sent(p) /\ why[p] # "alert" /\ UNCHANGED why
      BY <1>0, <2>4, <2>5 DEF Sent, Goto, TypeOK
    <2>6. CASE Goto(p, "acquire") /\ UNCHANGED <<alerts, why>>
      BY <1>0, <2>4, <2>6 DEF Goto, TypeOK
    <2>7. CASE Raise(p) /\ UNCHANGED alerts
      BY <1>0, <2>4, <2>7, EndMine
    <2> QED BY <2>2, <2>3, <2>5, <2>6, <2>7
  <1>c. ASSUME NEW p \in Procs, PostRaises(p) PROVE AlertInv'
    <2>1. /\ UNCHANGED <<day, file>> /\ Fault("send") /\ Moves(p) /\ pc[p] \in {"post", "again"}
          /\ pc'[p] \in {"idle", "work"} /\ why'[p] # "alert"
          /\ faults' = faults + 1 /\ faults' \in Nat
      BY <1>0, <1>c, MovesAlone, EndMine DEF PostRaises, outside, Fault
    <2>2. CASE UNCHANGED alerts
      <3>1. Paid' /\ faults' >= faults BY <1>0, <2>1, <2>2, FaultPays
      <3>2. Mine(p)' BY <2>1 DEF Mine, Recording
      <3> QED BY <1>0, <2>1, <2>2, <3>1, <3>2, QuietAlert DEF Today
    <2>3. CASE why[p] = "alert" /\ Accepts(p) /\ CountAlert
      <3>1. Paid /\ p \in Batches BY <1>0, <2>1, <2>3 DEF Mine
      <3> QED BY <1>0, <2>1, <2>3, <3>1, Delivered
    <2> QED BY <1>c, <2>2, <2>3 DEF PostRaises
  <1>d. ASSUME NEW p \in Procs, AskRaises(p) \/ WriteRaises(p) \/ Crash(p) PROVE AlertInv'
    <2>1. /\ UNCHANGED <<day, file, alerts>> /\ Moves(p) /\ \E kind : Fault(kind)
          /\ pc'[p] \in {"idle", "work"} /\ why'[p] # "alert"
      BY <1>0, <1>d, MovesAlone, EndMine DEF AskRaises, WriteRaises, Crash, outside
    <2>2. Paid' /\ faults' >= faults /\ faults' \in Nat
      BY <1>0, <2>1, FaultPays DEF Fault
    <2>3. Mine(p)' BY <2>1 DEF Mine, Recording
    <2> QED BY <1>0, <2>1, <2>2, <2>3, QuietAlert DEF Today
  <1>e. ASSUME NEW p \in Procs, AskRefused(p) PROVE AlertInv'
    <2>1. /\ UNCHANGED <<day, file, alerts, faults>> /\ Moves(p) /\ ~Recording(p)
          /\ pc'[p] \in {"idle", "work"} /\ why'[p] # "alert"
      BY <1>0, <1>e, MovesAlone, EndMine DEF AskRefused, Recording, outside, history, Progress
    <2>2. Today' BY <1>0, <2>1, TodayKept
    <2>3. Mine(p)' BY <2>1 DEF Mine, Recording
    <2> QED BY <1>0, <2>1, <2>2, <2>3, QuietAlert
  <1>f. ASSUME NEW p \in Procs, AcquireToRefresh(p) \/ Ask(p) PROVE AlertInv'
    <2>1. /\ UNCHANGED <<day, file, alerts, why>> /\ Moves(p) /\ ~Recording(p)
          /\ pc[p] \in {"acquire", "ask"} /\ pc'[p] \in {"ask", "write"}
      BY <1>0, <1>f, MovesAlone DEF AcquireToRefresh, Ask, Recording, outside, history, Progress,
         Goto, TypeOK
    <2>2. faults' >= faults /\ faults' \in Nat
      <3>1. faults' = faults \/ faults' = faults + 1
        BY <1>f DEF AcquireToRefresh, Ask, Fault
      <3> QED BY <1>0, <3>1
    <2>3. Today' BY <1>0, <2>1, <2>2, TodayKept
    <2>4. file = NoToken \/ disk'[p].alert = file.alert
      <3>1. CASE AcquireToRefresh(p)
        BY <1>0, <3>1 DEF AcquireToRefresh, OnDisk, TypeOK
      <3>2. CASE Ask(p)
        <4>1. \E rotated \in {FALSE, MayRotate}, timed \in BOOLEAN :
                disk'[p] = Merge(disk[p], rotated, timed)
          <5>1. \E rotated \in {FALSE, MayRotate}, timed \in BOOLEAN :
                  disk' = [disk EXCEPT ![p] = Merge(@, rotated, timed)]
            BY <3>2 DEF Ask
          <5> QED BY <1>0, <5>1 DEF TypeOK
        <4>2. disk[p] \in Tokens BY <1>0 DEF TypeOK
        <4>3. disk'[p].alert = disk[p].alert
          BY <4>1, <4>2 DEF Merge, Tokens
        <4> QED BY <1>0, <3>2, <4>3 DEF Ask, Mine
      <3> QED BY <1>f, <3>1, <3>2
    <2>5. Paid => Paid' BY <1>0, <2>1, <2>2, CountFacts DEF Paid
    <2>6. Mine(p)'
      BY <1>0, <2>1, <2>4, <2>5 DEF Mine, Recording
    <2> QED BY <1>0, <2>1, <2>2, <2>3, <2>6, QuietAlert
  <1>g. ASSUME NEW p \in Procs, Write(p) PROVE AlertInv'
    <2>1. /\ UNCHANGED <<day, alerts, faults>> /\ file' = disk[p] /\ Moves(p)
          /\ pc[p] = "write" /\ \A q \in Procs \ {p} : pc[q] \notin Holding
      BY <1>0, <1>g, MovesAlone, Alone DEF Write, outside, history, Progress
    <2>2. \/ pc'[p] = "again" /\ why'[p] = why[p]
          \/ pc'[p] = "idle" /\ why'[p] # "alert"
      BY <1>0, <1>g, EndMine DEF Write, End, Goto, TypeOK
    <2>3. Paid => Paid' BY <2>1 DEF Paid
    <2>4. Today'
      <3>1. ASSUME file.alert = day PROVE file'.alert = day
        BY <1>0, <2>1, <3>1, CountFacts DEF Mine
      <3>2. \A q \in Procs : Recording(q) => Recording(q)'
        BY <2>1 DEF Recording, Moves
      <3> QED BY <1>0, <2>1, <2>3, <3>1, <3>2 DEF Today
    <2>5. Mine(p)'
      BY <1>0, <2>1, <2>2, <2>3 DEF Mine, Recording
    <2> QED BY <1>0, <2>1, <2>4, <2>5, QuietAlert
  <1>h. ASSUME NEW p \in Procs, MarkAlertSent(p) \/ AcquireToMark(p) PROVE AlertInv'
    <2>1. /\ UNCHANGED <<day, file, alerts, faults, why>> /\ Moves(p)
          /\ Recording(p) /\ Recording(p)'
      BY <1>0, <1>h, MovesAlone DEF MarkAlertSent, AcquireToMark, Recording, outside, history,
         Progress, Goto, TypeOK
    <2>2. Today' BY <1>0, <2>1, TodayKept
    <2>3. Paid => Paid' BY <2>1 DEF Paid
    <2>4. Mine(p)'
      <3>1. CASE MarkAlertSent(p)
        <4>1. pc'[p] = "mark" /\ stamp'[p] = day
          BY <1>0, <3>1 DEF MarkAlertSent, Goto, TypeOK
        <4> QED BY <1>0, <2>1, <4>1 DEF Mine
      <3>2. CASE AcquireToMark(p)
        <4>1. pc[p] = "mark" /\ pc'[p] = "commit" /\ stamp' = stamp
          BY <1>0, <3>2 DEF AcquireToMark, Goto, TypeOK
        <4>2. OnDisk(p) \in Tokens BY <1>0, OnDiskType
        <4>3. disk'[p].alert = stamp[p]
          BY <1>0, <3>2, <4>2 DEF AcquireToMark, TypeOK, Tokens
        <4> QED BY <1>0, <2>1, <2>3, <4>1, <4>3 DEF Mine
      <3> QED BY <1>h, <3>1, <3>2
    <2> QED BY <1>0, <2>1, <2>2, <2>4, QuietAlert
  <1>i. ASSUME NEW p \in Procs, Commit(p) PROVE AlertInv'
    <2>1. /\ UNCHANGED <<day, alerts, faults>> /\ file' = disk[p] /\ Moves(p)
          /\ pc[p] = "commit" /\ pc'[p] = "work" /\ why'[p] = "work"
          /\ \A q \in Procs \ {p} : pc[q] \notin Holding
      BY <1>0, <1>i, MovesAlone, Alone DEF Commit, outside, history, Progress, Goto, TypeOK
    <2>2. disk[p].alert = day \/ Paid'
      BY <1>0, <2>1 DEF Mine, Paid
    <2>3. Mine(p)' BY <2>1 DEF Mine, Recording
    <2> QED BY <1>0, <2>1, <2>2, <2>3, QuietAlert DEF Today
  <1>j. ASSUME NextDay PROVE AlertInv'
    <2>1. day' = day + 1 /\ UNCHANGED <<alerts, file, faults, pc, why, mem, disk, stamp>>
      BY <1>j DEF NextDay, history
    <2>2. Paid'
      BY <1>0, <2>1, CountFacts DEF AlertInv, TypeOK, Paid
    <2>3. \A p \in Procs : Mine(p)'
      BY <1>0, <2>1, <2>2 DEF Mine, Recording
    <2>4. AlertsPaidByFaults' /\ \A d \in Days : d > day' => alerts'[d] = 0
      BY <1>0, <2>1, CountFacts DEF AlertInv, AlertsPaidByFaults
    <2> QED BY <2>2, <2>3, <2>4 DEF AlertInv, Today
  <1>k. ASSUME Remove \/ Setup PROVE AlertInv'
    <2>1. /\ UNCHANGED <<day, alerts, pc, why, mem, disk, stamp>> /\ \E kind : Fault(kind)
          /\ file' \in {file, NoToken}
      BY <1>k DEF Remove, Setup, outside
    <2>2. Paid' /\ faults' >= faults
      BY <1>0, <2>1, FaultPays
    <2>3. \A p \in Procs : Mine(p)'
      BY <1>0, <2>1, <2>2 DEF Mine, Recording
    <2>4. AlertsPaidByFaults' /\ \A d \in Days : d > day' => alerts'[d] = 0
      BY <1>0, <2>1, <2>2, CountFacts DEF AlertInv, AlertsPaidByFaults, TypeOK
    <2> QED BY <2>2, <2>3, <2>4 DEF AlertInv, Today
  <1>l. ASSUME AccessExpires \/ UNCHANGED vars PROVE AlertInv'
    <2>1. UNCHANGED <<day, alerts, file, faults, pc, why, mem, disk, stamp>>
      BY <1>l DEF AccessExpires, vars, history
    <2> QED BY <2>1 DEF AlertInv, AlertsPaidByFaults, Today, Mine, Recording, Paid
  <1> QED
    BY <1>a, <1>b, <1>c, <1>d, <1>e, <1>f, <1>g, <1>h, <1>i, <1>j, <1>k, <1>l
    DEF Next, Progress, Failure, World, LoadRaises

\* One batch at a time, beside any number of refreshes and resends: a second
\* alert on one day is paid for by a failure.
THEOREM AlertsCorrect == SingleBatch => (Spec => []AlertsPaidByFaults)
  <1> SUFFICES ASSUME SingleBatch PROVE Spec => []AlertsPaidByFaults
    OBVIOUS
  <1>1. Init => FileInv /\ AlertInv
    BY FileInit, AlertInit
  <1>2. FileInv /\ AlertInv /\ [Next]_vars => FileInv' /\ AlertInv'
    BY FileStep, AlertStep
  <1>3. AlertInv => AlertsPaidByFaults
    BY DEF AlertInv
  <1> QED BY <1>1, <1>2, <1>3, PTL DEF Spec

===============================================================================
