----------------------------- MODULE LoginLockout -----------------------------
(***************************************************************************)
(* Password sign-in and what slows a guesser down: the buckets of          *)
(* shared/rate_limit.py, one per address and one per account, and the lock *)
(* of the account (api/src/auth/login_service.py).                         *)
(*                                                                         *)
(* One account.  An element of Procs is an API process; login() runs to    *)
(* its end on the event loop of its process, so a process serves one       *)
(* request at a time, but two processes serve while a deployment switches. *)
(***************************************************************************)
EXTENDS Integers, FiniteSets

CONSTANTS
  Procs,         \* API processes
  Ips,           \* addresses requests come from
  IpLimit, AccountLimit,
  Window,        \* IP_WINDOW and ACCOUNT_WINDOW, in ticks
  Lock,          \* LOCK_DURATION, in ticks
  Patience,      \* no request takes longer (a read from the database ends after 30 s), in ticks
  MaxTime,       \* bound: the clock stops here
  MaxFaults      \* bound: requests that end in the middle

Account == "account"
NoIp    == "no request"
Keys    == Ips \cup {Account}
Limit(k)  == IF k = Account THEN AccountLimit ELSE IpLimit
Times   == 0..MaxTime
Ends    == 0..(MaxTime + Window + Lock)
FailCap == AccountLimit + Cardinality(Procs) + MaxFaults
             \* bound: failed_login_count is counted up to here

ASSUME LimitAssumption ==
  /\ IpLimit \in Nat /\ AccountLimit \in Nat /\ IpLimit > 1 /\ AccountLimit > 1
  /\ Window \in Nat \ {0} /\ Patience \in Nat
  /\ Patience <= Window /\ Lock \in Nat /\ Lock >= Window + 2 * Patience
  /\ MaxTime \in Nat \ {0} /\ MaxFaults \in Nat
ASSUME NameAssumption == Account \notin Ips /\ NoIp \notin Ips /\ IsFiniteSet(Procs)

VARIABLES
  clock,
  count, window_end,  \* rate_limit_buckets; count 0: no row
  failed, locked,     \* users: failed_login_count, locked_until (0: NULL)
  pc,
  now,                \* `current` of the request being served
  ip,                 \* the address it came from
  seen,               \* user.failed_login_count as find_by_email_hmac read it
  faults,
  passed              \* history: the requests each bucket let through: when their
                      \* window was opened, their number in it, when they began

buckets == <<count, window_end>>
user    == <<failed, locked>>
vars    == <<clock, count, window_end, failed, locked, pc, now, ip, seen,
             faults, passed>>

locals  == <<now, ip, seen>>

Goto(p, label) == pc' = [pc EXCEPT ![p] = label]

\* Request p goes on at label; those of P are answered, and their locals gone.
End(P, p, label) ==
  /\ pc'   = [q \in Procs |-> IF q \in P THEN "idle" ELSE IF q = p THEN label ELSE pc[q]]
  /\ now'  = [q \in Procs |-> IF q \in P THEN 0 ELSE now[q]]
  /\ ip'   = [q \in Procs |-> IF q \in P THEN NoIp ELSE ip[q]]
  /\ seen' = [q \in Procs |-> IF q \in P THEN 0 ELSE seen[q]]
Return(p) == End({p}, p, "idle")

-----------------------------------------------------------------------------
(* check_and_increment, for request p and bucket k *)

Bucket(p) == IF pc[p] \in {"checkIp", "insertIp"} THEN ip[p] ELSE Account
Missing(k) == count[k] = 0
Expired(p, k) == window_end[k] <= now[p]
Exceeded(k) == count[k] > Limit(k)      \* for comparison
Full(k) == count[k] >= Limit(k)
Reaches(k) == count[k] + 1 >= Limit(k)

LetThrough(p, k, opened) ==
  passed' = [passed EXCEPT ![k] =
    @ \cup {[opened |-> opened, rank |-> count'[k], at |-> now[p]]}]

Reset(p, k) ==
  /\ count' = [count EXCEPT ![k] = 1]
  /\ window_end' = [window_end EXCEPT ![k] = now[p] + Window]

IncrementOnly(p, k) ==                  \* for comparison: the window stays
  /\ count' = [count EXCEPT ![k] = @ + 1]
  /\ UNCHANGED window_end
\* The request that reaches the limit is let through and turns the end of the
\* window into the end of the lock.
Increment(p, k) ==
  /\ count' = [count EXCEPT ![k] = @ + 1]
  /\ window_end' = [window_end EXCEPT ![k] = IF Reaches(k) THEN now[p] + Lock ELSE @]

After(p) == IF pc[p] \in {"checkIp", "insertIp"} THEN "find" ELSE "verify"

-----------------------------------------------------------------------------
Init ==
  /\ clock = 1
  /\ count = [k \in Keys |-> 0] /\ window_end = [k \in Keys |-> 0]
  /\ failed = 0 /\ locked = 0
  /\ pc = [p \in Procs |-> "idle"]
  /\ now = [p \in Procs |-> 0] /\ ip = [p \in Procs |-> NoIp]
  /\ seen = [p \in Procs |-> 0]
  /\ faults = 0
  /\ passed = [k \in Keys |-> {}]

\* POST /login arrives; `current` is taken before anything is read.
Begin(p, i) ==
  /\ pc[p] = "idle"
  /\ now' = [now EXCEPT ![p] = clock]
  /\ ip' = [ip EXCEPT ![p] = i]
  /\ Goto(p, "checkIp")
  /\ UNCHANGED <<clock, buckets, user, seen, faults, passed>>

\* SELECT ... FOR UPDATE finds the row and holds it up to the commit.
Deny(p, k) ==
  /\ ~Expired(p, k) /\ Full(k)
  /\ Return(p)
  /\ UNCHANGED <<buckets, passed>>
Allow(p, k) ==
  /\ \/ /\ Expired(p, k)
        /\ Reset(p, k) /\ LetThrough(p, k, now[p])
     \/ /\ ~Expired(p, k) /\ ~Full(k)
        /\ Increment(p, k) /\ LetThrough(p, k, window_end[k] - Window)
  /\ Goto(p, After(p))
  /\ UNCHANGED locals
Check(p) ==
  /\ pc[p] \in {"checkIp", "checkAccount"}
  /\ ~Missing(Bucket(p))
  /\ Deny(p, Bucket(p)) \/ Allow(p, Bucket(p))
  /\ UNCHANGED <<clock, user, faults>>

\* There is no row to hold: only the gap is, and by several at once.
CheckNoRow(p) ==
  /\ pc[p] \in {"checkIp", "checkAccount"}
  /\ Missing(Bucket(p))
  /\ Goto(p, IF pc[p] = "checkIp" THEN "insertIp" ELSE "insertAccount")
  /\ UNCHANGED <<clock, buckets, user, locals, faults, passed>>

\* The INSERT waits for the other holders of the gap; if they insert too the
\* server ends the deadlock by rolling all but one of them back (a 500).
InGap(k) == {q \in Procs : pc[q] \in {"insertIp", "insertAccount"} /\ Bucket(q) = k}
Insert(p) ==
  /\ pc[p] \in {"insertIp", "insertAccount"}
  /\ Reset(p, Bucket(p))
  /\ LetThrough(p, Bucket(p), now[p])
  /\ End(InGap(Bucket(p)) \ {p}, p, After(p))
  /\ UNCHANGED <<clock, user, faults>>

FindUnknown(p) ==
  /\ pc[p] = "find"
  /\ Return(p)
  /\ UNCHANGED <<clock, buckets, user, faults, passed>>

FindLocked(p) ==
  /\ pc[p] = "find" /\ locked > now[p]
  /\ Return(p)
  /\ UNCHANGED <<clock, buckets, user, faults, passed>>

FindAnyUser(p) ==                       \* for comparison: the lock is not read
  /\ pc[p] = "find"
  /\ seen' = [seen EXCEPT ![p] = failed]
  /\ Goto(p, "checkAccount")
  /\ UNCHANGED <<clock, buckets, user, now, ip, faults, passed>>

\* The row is read once; the lock and the failures are those of this moment.
FindUser(p) ==
  /\ pc[p] = "find" /\ locked <= now[p]
  /\ seen' = [seen EXCEPT ![p] = failed]
  /\ Goto(p, "checkAccount")
  /\ UNCHANGED <<clock, buckets, user, now, ip, faults, passed>>

\* reset_failed_login; the session that follows is the subject of AuthSession.
Succeed(p) ==
  /\ pc[p] = "verify"
  /\ failed' = 0 /\ locked' = 0
  /\ Return(p)
  /\ UNCHANGED <<clock, buckets, faults, passed>>

\* increment_failed_login adds to the row, the comparison is with what was read.
SawLimit(p) == seen[p] >= AccountLimit  \* for comparison
TooMany(p) == seen[p] + 1 >= AccountLimit
Fail(p) ==
  /\ pc[p] = "verify"
  /\ failed' = IF failed < FailCap THEN failed + 1 ELSE failed
  /\ IF TooMany(p) THEN Goto(p, "lock") /\ UNCHANGED locals ELSE Return(p)
  /\ UNCHANGED <<clock, buckets, locked, faults, passed>>

SetLock(p) ==
  /\ pc[p] = "lock"
  /\ locked' = now[p] + Lock
  /\ Return(p)
  /\ UNCHANGED <<clock, buckets, failed, faults, passed>>

\* A call raises or the process dies; what was committed stays.
Abort(p) ==
  /\ pc[p] # "idle"
  /\ faults < MaxFaults /\ faults' = faults + 1
  /\ Return(p)
  /\ UNCHANGED <<clock, buckets, user, passed>>

InTime(p) == pc[p] = "idle" \/ clock < now[p] + Patience
Tick ==
  /\ clock < MaxTime
  /\ \A p \in Procs : InTime(p)
  /\ clock' = clock + 1
  /\ UNCHANGED <<buckets, user, pc, locals, faults, passed>>

Serve(p) == \/ \E i \in Ips : Begin(p, i)
            \/ Check(p) \/ CheckNoRow(p) \/ Insert(p)
            \/ FindUnknown(p) \/ FindLocked(p) \/ FindUser(p)
            \/ Succeed(p) \/ Fail(p) \/ SetLock(p)

Next == Tick \/ \E p \in Procs : Serve(p) \/ Abort(p)

Spec == Init /\ [][Next]_vars

-----------------------------------------------------------------------------
(* Properties *)

Labels == {"idle", "checkIp", "insertIp", "find", "checkAccount",
           "insertAccount", "verify", "lock"}

\* Every variable stays in its range.
TypeOK ==
  /\ clock \in Times
  /\ count \in [Keys -> Nat] /\ window_end \in [Keys -> Ends]
  /\ \A k \in Keys : count[k] <= Limit(k)
  /\ failed \in 0..FailCap /\ locked \in Ends
  /\ pc \in [Procs -> Labels]
  /\ now \in [Procs -> Times] /\ ip \in [Procs -> Ips \cup {NoIp}]
  /\ seen \in [Procs -> 0..FailCap]
  /\ faults \in 0..MaxFaults
  /\ passed \in [Keys -> SUBSET [opened : Times, rank : Nat, at : Times]]

\* rate_limit.py:4 limits a bucket to Limit requests per Window.  Windows follow
\* one another, so a span as long as one meets two of them, and a third with
\* requests that began before it was opened: whatever the number of processes
\* and the order their requests are served in, fewer than twice the limit begin
\* in it and are let through, and one more for each process beyond two, because
\* a window that fills is prolonged to the end of a lock.
Span(k, t) == {x \in passed[k] : t <= x.at /\ x.at < t + Window}
Beyond == IF Cardinality(Procs) > 2 THEN Cardinality(Procs) - 2 ELSE 0
WindowBound ==
  \A k \in Keys, t \in Times : Cardinality(Span(k, t)) <= 2 * Limit(k) - 2 + Beyond

\* Failures counted from a stale read cannot hide from the lock: concurrent
\* requests, and requests that died before set_lock, put it off by one failure
\* each and no more.
LockFollowsFailures ==
  (/\ \A p \in Procs : pc[p] # "lock"
   /\ failed >= AccountLimit + Cardinality(Procs) - 1 + faults) => locked # 0

\* A lock that has not run out is lifted only by a right password that was on
\* its way when the lock was set, never by a request that came later.
LockLiftedByLateRequestsOnly ==
  [][\A p \in Procs :
       locked > clock /\ locked' = 0 /\ pc[p] # pc'[p] => now[p] <= locked - Lock + Patience]_vars
===============================================================================
