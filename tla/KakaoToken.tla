------------------------------ MODULE KakaoToken ------------------------------
(***************************************************************************)
(* config/kakao_token.json, shared by three kinds of processes: the batch  *)
(* (batch/src/batch.py), the refresh cron (batch/src/kakao_refresh.py) and *)
(* the API's resend (api/src/main.py).  Each loads the file without a lock *)
(* when it starts and works with that copy; refresh and mark_alert_sent    *)
(* take the lock file, read the file again, merge and replace it           *)
(* (messaging/kakao_auth.py).  A refresh calls Kakao with the lock held,   *)
(* and Kakao may answer with a new refresh token: from then on it refuses  *)
(* the old one, and the answer is the only copy of the new one.            *)
(*                                                                         *)
(* Tokens are numbered in the order Kakao issues them.                     *)
(***************************************************************************)
EXTENDS Integers, FiniteSets

CONSTANTS
  Batches, Crons, Resends, \* slots for processes of each kind, used again and again
  MaxRefresh,    \* bound: refresh tokens Kakao issues; the last one is never rotated
  MaxAccess,     \* bound: access tokens Kakao issues; it repeats the last one
  MaxDay,        \* bound: days the model runs
  Lifetime,      \* days a refresh token lives
  FirstExpiry,   \* last day of the refresh token the model starts with
  AlertBefore,   \* _ALERT_DAYS_BEFORE
  FaultKinds, MaxFaults,   \* the failures that may occur, and how many of them
  AlertCap       \* bound: alerts of one day are counted up to here

Procs == Batches \cup Crons \cup Resends
Days  == 1..MaxDay
RefreshTokens == 1..MaxRefresh
AccessTokens  == 1..MaxAccess
Expiries == (0..FirstExpiry) \cup (0..(MaxDay + Lifetime))   \* a day, 0: unknown

AllFaults == {"send", "answer", "write", "crash", "noExpiry", "remove", "setup"}

ASSUME KindsAssumption ==
  Batches \cap Crons = {} /\ Batches \cap Resends = {} /\ Crons \cap Resends = {}
ASSUME BoundsAssumption ==
  /\ MaxRefresh \in Nat \ {0} /\ MaxAccess \in Nat \ {0} /\ MaxDay \in Nat \ {0}
  /\ Lifetime \in Nat /\ FirstExpiry \in Nat /\ AlertBefore \in Nat
  /\ FaultKinds \subseteq AllFaults /\ MaxFaults \in Nat /\ AlertCap \in Nat \ {0}

VARIABLES
  day,     \* today, in Korean time
  kakao,   \* Kakao: the refresh token it accepts, the access token issued last,
           \* the oldest access token it still accepts
  dies,    \* dies[t]: last day of refresh token t
  file,    \* the token file, NoToken when there is none
  locked,  \* the processes that hold the lock file
  strayed, \* some token Kakao issued last never reached the file (history)
  alerts,  \* alerts[d]: expiry alerts delivered on day d (history)
  faults,
  pc, why, mem, disk, stamp
           \* each process: where it is, what for, KakaoAuth._token_data, the copy
           \* read under the lock, the date it is going to record

outside == <<day, kakao, dies>>
history == <<strayed, alerts>>
vars == <<day, kakao, dies, file, locked, strayed, alerts, faults,
          pc, why, mem, disk, stamp>>

Tokens == [access : 0..MaxAccess, refresh : 0..MaxRefresh, expiry : Expiries,
           alert : 0..MaxDay]
NoToken == [access |-> 0, refresh |-> 0, expiry |-> 0, alert |-> 0]

-----------------------------------------------------------------------------
(* Pieces of the actions *)

Goto(p, label) == pc' = [pc EXCEPT ![p] = label]
Fault(kind) == kind \in FaultKinds /\ faults < MaxFaults /\ faults' = faults + 1
Release(p) == /\ locked' = locked \ {p}
              /\ disk' = [disk EXCEPT ![p] = NoToken]

AlwaysFree == TRUE
Free == locked = {}

\* What a read-modify-write starts from: the file, or without one the memory.
InMemory(p) == mem[p]
OnDisk(p) == IF file = NoToken THEN mem[p] ELSE file

\* check_refresh_token_expiry and should_alert_today, on the copy in memory.
NearExpiry(p) ==
  /\ mem[p].expiry # 0
  /\ mem[p].expiry - day <= AlertBefore
ShouldAlert(p) == NearExpiry(p) /\ mem[p].alert # day

\* Kakao takes the access token a process sends.
Accepts(p) == mem[p].access >= kakao.live

\* Kakao takes the refresh token a process read under the lock.
Honours(p) == disk[p].refresh = kakao.refresh /\ day <= dies[kakao.refresh]

\* Kakao answers with a new access token, and with a new refresh token if it
\* sees fit; a rotated one lives for Lifetime days from today.
NextAccess == IF kakao.access < MaxAccess THEN kakao.access + 1 ELSE MaxAccess
Answer(rotated) ==
  /\ kakao' = [kakao EXCEPT !.access = NextAccess,
                            !.refresh = IF rotated THEN @ + 1 ELSE @]
  /\ dies' = IF rotated
               THEN [dies EXCEPT ![kakao.refresh + 1] = day + Lifetime] ELSE dies
MayRotate == kakao.refresh < MaxRefresh

\* changes of refresh(), merged into what was read; the expiry only when the
\* answer says how long the new token lives.
FromOldExpiry(t, rotated, timed) ==
  [t EXCEPT !.access = NextAccess,
            !.refresh = IF rotated THEN kakao.refresh + 1 ELSE @,
            !.expiry = IF rotated /\ timed THEN @ + Lifetime ELSE @]
UntimedMerge(t, rotated, timed) ==
  [t EXCEPT !.access = NextAccess, !.refresh = IF rotated THEN kakao.refresh + 1 ELSE @]
WithoutAccess(t, rotated, timed) ==
  IF rotated THEN [t EXCEPT !.refresh = kakao.refresh + 1, !.expiry = day + Lifetime]
             ELSE t
Merge(t, rotated, timed) ==
  [t EXCEPT !.access = NextAccess,
            !.refresh = IF rotated THEN kakao.refresh + 1 ELSE @,
            !.expiry = IF rotated /\ timed THEN day + Lifetime ELSE @]

\* The process ends; its locals are gone.
End(p) == /\ Goto(p, "idle")
          /\ why'   = [why EXCEPT ![p] = IF p \in Crons THEN "cron" ELSE "work"]
          /\ mem'   = [mem EXCEPT ![p] = NoToken]
          /\ stamp' = [stamp EXCEPT ![p] = 0]

\* An exception leaves refresh, a send or mark_alert_sent: the alert catches
\* it, the refresh cron exits, a run or a resend goes on or ends at "work".
Raise(p) == IF why[p] = "cron" THEN End(p)
            ELSE /\ Goto(p, "work")
                 /\ why'   = [why EXCEPT ![p] = "work"]
                 /\ stamp' = [stamp EXCEPT ![p] = 0]
                 /\ UNCHANGED mem

CountAlert == alerts' = [alerts EXCEPT ![day] = IF @ < AlertCap THEN @ + 1 ELSE @]

\* A message was delivered: the alert is recorded next.
Sent(p) ==
  IF why[p] = "alert" THEN CountAlert /\ Goto(p, "date")
                      ELSE Goto(p, "work") /\ UNCHANGED alerts

-----------------------------------------------------------------------------
Init ==
  /\ day = 1
  /\ kakao = [refresh |-> 1, access |-> 1, live |-> 1]
  /\ dies = [t \in RefreshTokens |-> IF t = 1 THEN FirstExpiry ELSE 0]
  /\ \E known \in {0, FirstExpiry} :
       file = [access |-> 1, refresh |-> 1, expiry |-> known, alert |-> 0]
  /\ locked = {} /\ strayed = FALSE /\ faults = 0
  /\ alerts = [d \in Days |-> 0]
  /\ pc   = [p \in Procs |-> "idle"]
  /\ why  = [p \in Procs |-> IF p \in Crons THEN "cron" ELSE "work"]
  /\ mem  = [p \in Procs |-> NoToken]
  /\ disk = [p \in Procs |-> NoToken]
  /\ stamp = [p \in Procs |-> 0]

\* A process starts: _load_token, without the lock.
Load(p) ==
  /\ pc[p] = "idle" /\ file # NoToken
  /\ mem' = [mem EXCEPT ![p] = file]
  /\ why' = [why EXCEPT ![p] = IF p \in Batches THEN "alert" ELSE @]
  /\ Goto(p, CASE p \in Batches -> "check" [] p \in Crons -> "acquire"
               [] OTHER -> "work")
  /\ UNCHANGED <<outside, history, file, locked, faults, disk, stamp>>

\* FileNotFoundError in the constructor: the process ends as it began.
LoadRaises(p) == pc[p] = "idle" /\ file = NoToken /\ UNCHANGED vars

\* _check_refresh_token_alert, the first thing a batch does.
CheckAlert(p) ==
  /\ pc[p] = "check"
  /\ IF ShouldAlert(p) THEN Goto(p, "post") /\ UNCHANGED why
                       ELSE Goto(p, "work") /\ why' = [why EXCEPT ![p] = "work"]
  /\ UNCHANGED <<outside, history, file, locked, faults, mem, disk, stamp>>

\* A run or a resend sends one more message, or has no more.
Work(p) ==
  /\ pc[p] = "work"
  /\ \/ Goto(p, "post") /\ UNCHANGED <<why, mem, stamp>>
     \/ End(p)
  /\ UNCHANGED <<outside, history, file, locked, faults, disk>>

\* _send_template: after a 401 one refresh and one more try.
Post(p) ==
  /\ pc[p] = "post"
  /\ IF Accepts(p) THEN Sent(p) ELSE Goto(p, "acquire") /\ UNCHANGED alerts
  /\ UNCHANGED <<outside, strayed, file, locked, faults, why, mem, disk, stamp>>

PostAgain(p) ==
  /\ pc[p] = "again"
  /\ IF Accepts(p) THEN Sent(p) /\ UNCHANGED <<why, mem, stamp>>
                   ELSE Raise(p) /\ UNCHANGED alerts
  /\ UNCHANGED <<outside, strayed, file, locked, faults, disk>>

\* The request fails; Kakao may have delivered the message all the same.
PostRaises(p) ==
  /\ pc[p] \in {"post", "again"}
  /\ Fault("send")
  /\ \/ UNCHANGED alerts
     \/ why[p] = "alert" /\ Accepts(p) /\ CountAlert
  /\ Raise(p)
  /\ UNCHANGED <<outside, strayed, file, locked, disk>>

-----------------------------------------------------------------------------
(* refresh(): lock, read, call Kakao, merge, replace the file, unlock *)

AcquireToRefresh(p) ==
  /\ pc[p] = "acquire" /\ Free
  /\ locked' = locked \cup {p}
  /\ disk' = [disk EXCEPT ![p] = OnDisk(p)]
  /\ Goto(p, "ask")
  /\ UNCHANGED <<outside, history, file, faults, why, mem, stamp>>

Ask(p) ==
  /\ pc[p] = "ask" /\ Honours(p)
  /\ \E rotated \in {FALSE, MayRotate} :
       /\ Answer(rotated)
       /\ \/ /\ disk' = [disk EXCEPT ![p] = Merge(@, rotated, TRUE)]
             /\ UNCHANGED faults
          \/ /\ rotated /\ Fault("noExpiry")
             /\ disk' = [disk EXCEPT ![p] = Merge(@, rotated, FALSE)]
  /\ Goto(p, "write")
  /\ UNCHANGED <<day, history, file, locked, why, mem, stamp>>

RefusedKeepsLock(p) ==
  /\ pc[p] = "ask" /\ ~Honours(p)
  /\ Raise(p)
  /\ UNCHANGED <<outside, history, file, locked, faults, disk>>

\* Kakao answers with an error status: RuntimeError, and the lock is released.
AskRefused(p) ==
  /\ pc[p] = "ask" /\ ~Honours(p)
  /\ Release(p) /\ Raise(p)
  /\ UNCHANGED <<outside, history, file, faults>>

\* No answer within the timeout, though Kakao may have acted on the request.
AskRaises(p) ==
  /\ pc[p] = "ask" /\ Fault("answer")
  /\ \/ UNCHANGED <<kakao, dies, strayed>>
     \/ /\ Honours(p)
        /\ \E rotated \in {FALSE, MayRotate} :
             Answer(rotated) /\ strayed' = (strayed \/ rotated)
  /\ Release(p) /\ Raise(p)
  /\ UNCHANGED <<day, alerts, file>>

\* The answer goes to the file and to memory.
Write(p) ==
  /\ pc[p] = "write"
  /\ file' = disk[p]
  /\ Release(p)
  /\ IF why[p] = "cron" THEN End(p)
     ELSE /\ Goto(p, "again")
          /\ mem' = [mem EXCEPT ![p] = disk[p]]
          /\ UNCHANGED <<why, stamp>>
  /\ UNCHANGED <<outside, history, faults>>

-----------------------------------------------------------------------------
(* mark_alert_sent(): take today's date, lock, read, set it, replace the file *)

MarkAlertSent(p) ==
  /\ pc[p] = "date"
  /\ stamp' = [stamp EXCEPT ![p] = day]
  /\ Goto(p, "mark")
  /\ UNCHANGED <<outside, history, file, locked, faults, why, mem, disk>>

AcquireToMark(p) ==
  /\ pc[p] = "mark" /\ Free
  /\ locked' = locked \cup {p}
  /\ disk' = [disk EXCEPT ![p] = [OnDisk(p) EXCEPT !.alert = stamp[p]]]
  /\ Goto(p, "commit")
  /\ UNCHANGED <<outside, history, file, faults, why, mem, stamp>>

Commit(p) ==
  /\ pc[p] = "commit"
  /\ file' = disk[p]
  /\ mem' = [mem EXCEPT ![p] = disk[p]]
  /\ Release(p)
  /\ Goto(p, "work")
  /\ why' = [why EXCEPT ![p] = "work"]
  /\ stamp' = [stamp EXCEPT ![p] = 0]
  /\ UNCHANGED <<outside, history, faults>>

\* The temporary file cannot be written or renamed: the token file is as it
\* was, and what Kakao answered is lost.
WriteRaises(p) ==
  /\ pc[p] \in {"write", "commit"} /\ Fault("write")
  /\ strayed' = (strayed \/ disk[p].refresh # file.refresh)
  /\ Release(p) /\ Raise(p)
  /\ UNCHANGED <<outside, alerts, file>>

\* The process is killed; the kernel drops its lock.
Crash(p) ==
  /\ pc[p] # "idle" /\ Fault("crash")
  /\ strayed' = (strayed \/ (pc[p] = "write" /\ disk[p].refresh # file.refresh))
  /\ Release(p) /\ End(p)
  /\ UNCHANGED <<outside, alerts, file>>

-----------------------------------------------------------------------------
(* Outside the processes *)

NextDay ==
  /\ day < MaxDay
  /\ day' = day + 1
  /\ UNCHANGED <<kakao, dies, history, file, locked, faults, pc, why, mem,
                 disk, stamp>>

\* Six hours have passed: every access token issued so far is refused.
AccessExpires ==
  /\ kakao.access < MaxAccess
  /\ kakao' = [kakao EXCEPT !.live = kakao.access + 1]
  /\ UNCHANGED <<day, dies, history, file, locked, faults, pc, why, mem,
                 disk, stamp>>

\* The token file is deleted by hand.
Remove ==
  /\ file # NoToken /\ Fault("remove")
  /\ file' = NoToken
  /\ strayed' = TRUE
  /\ UNCHANGED <<outside, alerts, locked, pc, why, mem, disk, stamp>>

\* kakao_setup.py: a new authorization, saved under batch/config, where no
\* process looks for it.
Setup ==
  /\ MayRotate /\ Fault("setup")
  /\ Answer(TRUE)
  /\ strayed' = TRUE
  /\ UNCHANGED <<day, alerts, file, locked, pc, why, mem, disk, stamp>>

Progress(p) == \/ Load(p) \/ CheckAlert(p) \/ Work(p) \/ Post(p) \/ PostAgain(p)
               \/ AcquireToRefresh(p) \/ Ask(p) \/ AskRefused(p) \/ Write(p)
               \/ MarkAlertSent(p) \/ AcquireToMark(p) \/ Commit(p)
Failure(p) == LoadRaises(p) \/ PostRaises(p) \/ AskRaises(p) \/ WriteRaises(p) \/ Crash(p)
World == NextDay \/ AccessExpires \/ Remove \/ Setup

Next == (\E p \in Procs : Progress(p) \/ Failure(p)) \/ World

Spec == Init /\ [][Next]_vars

\* The system keeps its processes running and cron keeps starting them; a
\* process waiting for the lock gets it when it keeps being released.
FairSpec == /\ Spec
            /\ \A p \in Procs : WF_vars(Progress(p))
            /\ \A p \in Procs : SF_vars(AcquireToRefresh(p) \/ AcquireToMark(p))

-----------------------------------------------------------------------------
(* Properties *)

Labels == {"idle", "check", "work", "post", "again", "acquire", "ask", "write",
           "date", "mark", "commit"}

\* Every variable stays in its range; dates and expiries are days the model has.
TypeOK ==
  /\ day \in Days
  /\ kakao \in [refresh : RefreshTokens, access : AccessTokens, live : AccessTokens]
  /\ dies \in [RefreshTokens -> Expiries]
  /\ file \in Tokens
  /\ locked \subseteq Procs /\ strayed \in BOOLEAN
  /\ alerts \in [Days -> 0..AlertCap] /\ faults \in 0..MaxFaults
  /\ pc \in [Procs -> Labels] /\ why \in [Procs -> {"alert", "work", "cron"}]
  /\ mem \in [Procs -> Tokens] /\ disk \in [Procs -> Tokens]
  /\ stamp \in [Procs -> 0..MaxDay]

\* The file holds the refresh token Kakao accepts, or the process that holds
\* the answer is about to write it; only an answer that was lost (crash, time
\* out, failed write), a deleted file or a new authorization breaks that.  No
\* order of refreshes and alert dates does (PRD F-29).
FileIsCurrent ==
  \/ strayed
  \/ file.refresh = kakao.refresh
  \/ \E p \in Procs : pc[p] = "write" /\ disk[p].refresh = kakao.refresh

\* refresh() reads the file again under the lock (kakao_auth.py:148-149), so
\* it never presents a token another process has already exchanged.
PresentsCurrent ==
  \A p \in Procs : pc[p] = "ask" => strayed \/ disk[p].refresh = kakao.refresh

\* Fields another process has written are kept (kakao_auth.py:123): no write
\* takes the file back to older tokens.
NothingUndone ==
  [][file # NoToken /\ file' # NoToken
       => file'.access >= file.access /\ file'.refresh >= file.refresh]_vars

\* The expiry in the file, which decides about the alert, is that of the
\* refresh token in the file, as long as Kakao tells it with every new token.
ExpiryBelongs ==
  file # NoToken => file.expiry \in {0, dies[file.refresh]}

\* One batch at a time, beside refreshes and resends: a second alert on the
\* same day is paid for by a failure (the send was delivered but raised, or its
\* date was not written).
AlertsPaidByFaults == \A d \in Days : alerts[d] <= 1 + faults

\* A process that waits for the lock file gets it, whatever the holder's call
\* to Kakao comes to.
LockServed ==
  \A p \in Procs : pc[p] \in {"acquire", "mark"} ~> pc[p] \notin {"acquire", "mark"}

\* kakao_refresh.py:1-7: an expired access token is replaced by the refresh
\* cron, as long as the refresh token itself is alive and was not lost.
AccessRecovers ==
  (file.access < kakao.live)
    ~> (file.access >= kakao.live \/ strayed \/ day > dies[kakao.refresh])
===============================================================================
