-------------------------- MODULE LoginLockoutProofs --------------------------
(***************************************************************************)
(* LoginLockout keeps its types, and the lock of the account can neither   *)
(* be put off by stale reads nor lifted by a request that came after it,   *)
(* and a bucket lets through so many requests in the length of its window, *)
(* for any number of processes, addresses, limits and durations.           *)
(***************************************************************************)
EXTENDS LoginLockout, TLAPS, FiniteSetTheorems

(* A request being served has an address, and began no more than Patience  *)
(* ago.                                                                    *)
Served(p) == pc[p] # "idle" => /\ ip[p] \in Ips
                              /\ now[p] <= clock /\ clock <= now[p] + Patience
(* The window of a bucket that is not full has an end that tells when it   *)
(* was opened.                                                             *)
Opened(k) == window_end[k] - Window
Dated(k)  == count[k] # 0 /\ ~Full(k) => Opened(k) \in Times
TypeInv == TypeOK /\ (\A p \in Procs : Served(p)) /\ (\A k \in Keys : Dated(k))

Records == [opened : Times, rank : Nat, at : Times]

LEMMA Bounds ==
  /\ Cardinality(Procs) \in Nat /\ FailCap \in Nat /\ FailCap >= AccountLimit
  /\ \A k \in Keys : Limit(k) \in Nat /\ Limit(k) > 1
  /\ Keys = Ips \cup {Account} /\ Account \notin Ips
  <1>1. Cardinality(Procs) \in Nat
    BY NameAssumption, FS_CardinalityType
  <1> QED BY <1>1, LimitAssumption, NameAssumption DEF FailCap, Limit, Keys

LEMMA TimeFacts ==
  /\ MaxTime \in Nat /\ Window \in Nat /\ Lock \in Nat /\ Patience \in Nat
  /\ Times \subseteq Nat /\ Ends \subseteq Nat /\ 0 \in Times /\ 0 \in Ends
  /\ \A t \in Times : t + Window \in Ends /\ t + Lock \in Ends
  BY LimitAssumption DEF Times, Ends

(* What is left of a request when some are answered and p goes on.         *)
LEMMA EndType ==
  ASSUME TypeInv, NEW P \in SUBSET Procs, NEW p \in Procs, NEW label \in Labels,
         pc[p] # "idle", End(P, p, label), clock' = clock
  PROVE  /\ pc' \in [Procs -> Labels] /\ now' \in [Procs -> Times]
         /\ ip' \in [Procs -> Ips \cup {NoIp}] /\ seen' \in [Procs -> 0..FailCap]
         /\ \A q \in Procs : Served(q)'
  <1>1. "idle" \in Labels /\ 0 \in Times /\ 0 \in 0..FailCap
    BY TimeFacts, Bounds DEF Labels
  <1>2. /\ pc' \in [Procs -> Labels] /\ now' \in [Procs -> Times]
        /\ ip' \in [Procs -> Ips \cup {NoIp}] /\ seen' \in [Procs -> 0..FailCap]
    BY <1>1 DEF TypeInv, TypeOK, End
  <1>3. ASSUME NEW q \in Procs PROVE Served(q)'
    BY <1>1 DEF TypeInv, TypeOK, End, Served
  <1> QED BY <1>2, <1>3

LEMMA ReturnType ==
  ASSUME TypeInv, NEW p \in Procs, pc[p] # "idle", Return(p), clock' = clock
  PROVE  /\ pc' \in [Procs -> Labels] /\ now' \in [Procs -> Times]
         /\ ip' \in [Procs -> Ips \cup {NoIp}] /\ seen' \in [Procs -> 0..FailCap]
         /\ \A q \in Procs : Served(q)'
  <1>1. {p} \in SUBSET Procs /\ "idle" \in Labels
    BY DEF Labels
  <1> QED BY <1>1, EndType DEF Return

LEMMA GotoType ==
  ASSUME TypeInv, NEW p \in Procs, NEW label \in Labels, pc[p] # "idle",
         Goto(p, label), UNCHANGED <<clock, now, ip>>
  PROVE  /\ pc' \in [Procs -> Labels]
         /\ \A q \in Procs : Served(q)'
  BY DEF TypeInv, TypeOK, Goto, Served

LEMMA BucketType ==
  ASSUME TypeInv, NEW p \in Procs, pc[p] # "idle"
  PROVE  Bucket(p) \in Keys
  BY Bounds DEF TypeInv, Served, Bucket

LEMMA SameDates ==
  ASSUME TypeInv, UNCHANGED <<count, window_end>>
  PROVE  \A k \in Keys : Dated(k)'
  BY DEF TypeInv, Dated, Opened, Full

(* What a request leaves in the bucket that lets it through.               *)
BucketsOK ==
  /\ count \in [Keys -> Nat] /\ window_end \in [Keys -> Ends]
  /\ passed \in [Keys -> SUBSET Records]
  /\ \A k \in Keys : count[k] <= Limit(k) /\ Dated(k)

LEMMA ResetType ==
  ASSUME TypeInv, NEW p \in Procs, NEW k \in Keys, Reset(p, k),
         LetThrough(p, k, now[p])
  PROVE  BucketsOK'
  <1>1. now[p] \in Times /\ now[p] + Window \in Ends /\ now[p] \in Nat
    BY TimeFacts DEF TypeInv, TypeOK
  <1>2. /\ count' \in [Keys -> Nat] /\ window_end' \in [Keys -> Ends]
        /\ count'[k] = 1 /\ window_end'[k] = now[p] + Window
        /\ \A j \in Keys \ {k} : count'[j] = count[j] /\ window_end'[j] = window_end[j]
    BY <1>1 DEF TypeInv, TypeOK, Reset
  <1>3. passed' \in [Keys -> SUBSET Records]
    BY <1>1, <1>2 DEF TypeInv, TypeOK, LetThrough, Records
  <1>4. \A j \in Keys : count'[j] <= Limit(j)
    BY <1>2, Bounds DEF TypeInv, TypeOK
  <1>5. window_end'[k] - Window \in Times
    <2>1. window_end'[k] - Window = now[p]
      BY <1>1, <1>2, TimeFacts
    <2> QED BY <1>1, <2>1
  <1>6. ASSUME NEW j \in Keys PROVE Dated(j)'
    <2>1. CASE j = k
      BY <1>2, <1>5, <2>1 DEF Dated, Opened
    <2>2. CASE j # k
      BY <1>2, <2>2 DEF TypeInv, Dated, Opened, Full
    <2> QED BY <2>1, <2>2
  <1> QED BY <1>2, <1>3, <1>4, <1>6 DEF BucketsOK

LEMMA IncrementType ==
  ASSUME TypeInv, NEW p \in Procs, NEW k \in Keys, ~Full(k), count[k] # 0,
         Increment(p, k), LetThrough(p, k, Opened(k))
  PROVE  BucketsOK'
  <1>1. /\ now[p] \in Times /\ now[p] + Lock \in Ends
        /\ Opened(k) \in Times /\ count[k] \in Nat /\ Limit(k) \in Nat
    BY TimeFacts, Bounds DEF TypeInv, TypeOK, Dated
  <1>2. /\ window_end' \in [Keys -> Ends] /\ count' \in [Keys -> Nat]
        /\ count'[k] = count[k] + 1
        /\ window_end'[k] = IF Reaches(k) THEN now[p] + Lock ELSE window_end[k]
        /\ \A j \in Keys \ {k} : count'[j] = count[j] /\ window_end'[j] = window_end[j]
    BY <1>1 DEF TypeInv, TypeOK, Increment
  <1>3. passed' \in [Keys -> SUBSET Records]
    BY <1>1, <1>2 DEF TypeInv, TypeOK, LetThrough, Records
  <1>4. \A j \in Keys : count'[j] <= Limit(j)
    BY <1>1, <1>2 DEF TypeInv, TypeOK, Full
  <1>5. \A j \in Keys : Dated(j)'
    BY <1>1, <1>2 DEF TypeInv, Dated, Opened, Full, Reaches
  <1> QED BY <1>2, <1>3, <1>4, <1>5 DEF BucketsOK

-----------------------------------------------------------------------------
LEMMA TypeInit == Init => TypeInv
  <1> SUFFICES ASSUME Init PROVE TypeInv
    OBVIOUS
  <1>1. 1 \in Times /\ 0 \in 0..FailCap /\ 0 \in 0..MaxFaults
    BY LimitAssumption, Bounds DEF Times
  <1>2. /\ count \in [Keys -> Nat] /\ window_end \in [Keys -> Ends]
        /\ \A k \in Keys : count[k] <= Limit(k)
        /\ passed \in [Keys -> SUBSET Records] /\ \A k \in Keys : Dated(k)
    BY Bounds, TimeFacts DEF Init, Dated
  <1>3. /\ pc \in [Procs -> Labels] /\ now \in [Procs -> Times]
        /\ ip \in [Procs -> Ips \cup {NoIp}] /\ seen \in [Procs -> 0..FailCap]
    BY <1>1, TimeFacts DEF Init, Labels
  <1> QED BY <1>1, <1>2, <1>3, TimeFacts
     DEF Init, TypeInv, TypeOK, Served, Records

LEMMA CheckType ==
  ASSUME TypeInv, NEW p \in Procs, Check(p)
  PROVE  TypeInv'
  <1> DEFINE k == Bucket(p)
  <1>1. /\ pc[p] # "idle" /\ k \in Keys /\ After(p) \in Labels /\ count[k] # 0
        /\ UNCHANGED <<clock, failed, locked, faults>>
    BY BucketType DEF Check, After, Labels, user, Missing
  <1> HIDE DEF k
  <1>2. CASE Deny(p, k)
    <2>1. UNCHANGED <<count, window_end, passed>>
      BY <1>2 DEF Deny, buckets
    <2>2. Return(p)
      BY <1>2 DEF Deny
    <2> QED BY <1>1, <2>1, <2>2, ReturnType, SameDates DEF TypeInv, TypeOK
  <1>3. CASE Allow(p, k)
    <2>1. Goto(p, After(p)) /\ UNCHANGED <<now, ip, seen>>
      BY <1>3 DEF Allow, locals
    <2>2. \/ Reset(p, k) /\ LetThrough(p, k, now[p])
          \/ ~Full(k) /\ Increment(p, k) /\ LetThrough(p, k, Opened(k))
      BY <1>3 DEF Allow, Opened
    <2>3. BucketsOK'
      BY <1>1, <2>2, ResetType, IncrementType
    <2>4. pc' \in [Procs -> Labels] /\ \A q \in Procs : Served(q)'
      BY <1>1, <2>1, GotoType
    <2> QED BY <1>1, <2>1, <2>3, <2>4 DEF TypeInv, TypeOK, BucketsOK, Records
  <1> QED BY <1>2, <1>3 DEF Check, k

LEMMA InsertType ==
  ASSUME TypeInv, NEW p \in Procs, Insert(p)
  PROVE  TypeInv'
  <1> DEFINE k == Bucket(p)
  <1>1. /\ pc[p] # "idle" /\ k \in Keys /\ After(p) \in Labels
        /\ UNCHANGED <<clock, failed, locked, faults>>
        /\ InGap(k) \ {p} \in SUBSET Procs
    BY BucketType DEF Insert, After, Labels, user, InGap
  <1>2. Reset(p, k) /\ LetThrough(p, k, now[p]) /\ End(InGap(k) \ {p}, p, After(p))
    BY DEF Insert
  <1> HIDE DEF k
  <1>3. BucketsOK'
    BY <1>1, <1>2, ResetType
  <1>4. /\ pc' \in [Procs -> Labels] /\ now' \in [Procs -> Times]
        /\ ip' \in [Procs -> Ips \cup {NoIp}] /\ seen' \in [Procs -> 0..FailCap]
        /\ \A q \in Procs : Served(q)'
    BY <1>1, <1>2, EndType
  <1> QED BY <1>1, <1>3, <1>4 DEF TypeInv, TypeOK, BucketsOK, Records

LEMMA TypeStep == TypeInv /\ [Next]_vars => TypeInv'
  <1> SUFFICES ASSUME TypeInv, [Next]_vars PROVE TypeInv'
    OBVIOUS
  <1>1. ASSUME NEW p \in Procs, NEW i \in Ips, Begin(p, i) PROVE TypeInv'
    <2>1. /\ pc' = [pc EXCEPT ![p] = "checkIp"] /\ now' = [now EXCEPT ![p] = clock]
          /\ ip' = [ip EXCEPT ![p] = i]
          /\ UNCHANGED <<clock, count, window_end, failed, locked, seen, faults, passed>>
      BY <1>1 DEF Begin, Goto, buckets, user
    <2>2. /\ pc' \in [Procs -> Labels] /\ now' \in [Procs -> Times]
          /\ ip' \in [Procs -> Ips \cup {NoIp}]
      BY <2>1 DEF TypeInv, TypeOK, Labels
    <2>3. ASSUME NEW q \in Procs PROVE Served(q)'
      BY <2>1, TimeFacts DEF TypeInv, TypeOK, Served
    <2> QED BY <2>1, <2>2, <2>3, SameDates DEF TypeInv, TypeOK
  <1>2. ASSUME NEW p \in Procs, CheckNoRow(p) PROVE TypeInv'
    <2>1. /\ pc[p] # "idle"
          /\ UNCHANGED <<clock, count, window_end, failed, locked, now, ip, seen,
                         faults, passed>>
      BY <1>2 DEF CheckNoRow, buckets, user, locals
    <2>2. \E label \in Labels : Goto(p, label)
      BY <1>2 DEF CheckNoRow, Labels
    <2>3. pc' \in [Procs -> Labels] /\ \A q \in Procs : Served(q)'
      BY <2>1, <2>2, GotoType
    <2> QED BY <2>1, <2>3, SameDates DEF TypeInv, TypeOK
  <1>3. ASSUME NEW p \in Procs, FindUnknown(p) \/ FindLocked(p) PROVE TypeInv'
    <2>1. /\ pc[p] # "idle" /\ Return(p)
          /\ UNCHANGED <<clock, count, window_end, failed, locked, faults, passed>>
      BY <1>3 DEF FindUnknown, FindLocked, buckets, user
    <2> QED BY <2>1, ReturnType, SameDates DEF TypeInv, TypeOK
  <1>4. ASSUME NEW p \in Procs, FindUser(p) PROVE TypeInv'
    <2>1. /\ pc[p] # "idle" /\ Goto(p, "checkAccount")
          /\ seen' = [seen EXCEPT ![p] = failed]
          /\ UNCHANGED <<clock, count, window_end, failed, locked, now, ip, faults, passed>>
      BY <1>4 DEF FindUser, buckets, user
    <2>2. "checkAccount" \in Labels
      BY DEF Labels
    <2>3. pc' \in [Procs -> Labels] /\ \A q \in Procs : Served(q)'
      BY <2>1, <2>2, GotoType
    <2>4. seen' \in [Procs -> 0..FailCap]
      BY <2>1 DEF TypeInv, TypeOK
    <2> QED BY <2>1, <2>3, <2>4, SameDates DEF TypeInv, TypeOK
  <1>5. ASSUME NEW p \in Procs, Succeed(p) PROVE TypeInv'
    <2>1. /\ pc[p] # "idle" /\ Return(p) /\ failed' = 0 /\ locked' = 0
          /\ UNCHANGED <<clock, count, window_end, faults, passed>>
      BY <1>5 DEF Succeed, buckets
    <2>2. failed' \in 0..FailCap /\ locked' \in Ends
      BY <2>1, Bounds, TimeFacts
    <2> QED BY <2>1, <2>2, ReturnType, SameDates DEF TypeInv, TypeOK
  <1>6. ASSUME NEW p \in Procs, Fail(p) PROVE TypeInv'
    <2>1. /\ pc[p] # "idle" /\ failed' = IF failed < FailCap THEN failed + 1 ELSE failed
          /\ UNCHANGED <<clock, count, window_end, locked, faults, passed>>
      BY <1>6 DEF Fail, buckets
    <2>2. failed' \in 0..FailCap
      BY <2>1, Bounds DEF TypeInv, TypeOK
    <2>3. CASE Return(p)
      BY <2>1, <2>2, <2>3, ReturnType, SameDates DEF TypeInv, TypeOK
    <2>4. CASE Goto(p, "lock") /\ UNCHANGED locals
      <3>1. "lock" \in Labels /\ UNCHANGED <<now, ip, seen>>
        BY <2>4 DEF Labels, locals
      <3>2. pc' \in [Procs -> Labels] /\ \A q \in Procs : Served(q)'
        BY <2>1, <2>4, <3>1, GotoType
      <3> QED BY <2>1, <2>2, <3>1, <3>2, SameDates DEF TypeInv, TypeOK
    <2> QED BY <1>6, <2>3, <2>4 DEF Fail
  <1>7. ASSUME NEW p \in Procs, SetLock(p) PROVE TypeInv'
    <2>1. /\ pc[p] # "idle" /\ Return(p) /\ locked' = now[p] + Lock
          /\ UNCHANGED <<clock, count, window_end, failed, faults, passed>>
      BY <1>7 DEF SetLock, buckets
    <2>2. locked' \in Ends
      BY <2>1, TimeFacts DEF TypeInv, TypeOK
    <2> QED BY <2>1, <2>2, ReturnType, SameDates DEF TypeInv, TypeOK
  <1>8. ASSUME NEW p \in Procs, Abort(p) PROVE TypeInv'
    <2>1. /\ pc[p] # "idle" /\ Return(p) /\ faults < MaxFaults /\ faults' = faults + 1
          /\ UNCHANGED <<clock, count, window_end, failed, locked, passed>>
      BY <1>8 DEF Abort, buckets, user
    <2>2. faults' \in 0..MaxFaults
      BY <2>1, LimitAssumption DEF TypeInv, TypeOK
    <2> QED BY <2>1, <2>2, ReturnType, SameDates DEF TypeInv, TypeOK
  <1>9. ASSUME Tick PROVE TypeInv'
    <2>1. /\ clock < MaxTime /\ clock' = clock + 1
          /\ \A p \in Procs : pc[p] # "idle" => clock < now[p] + Patience
          /\ UNCHANGED <<count, window_end, failed, locked, pc, now, ip, seen, faults, passed>>
      BY <1>9 DEF Tick, InTime, buckets, user, locals
    <2>2. clock' \in Times
      BY <2>1, LimitAssumption DEF TypeInv, TypeOK, Times
    <2>3. ASSUME NEW q \in Procs PROVE Served(q)'
      <3>1. now[q] \in Nat /\ clock \in Nat
        BY TimeFacts DEF TypeInv, TypeOK
      <3> QED BY <2>1, <3>1, TimeFacts DEF TypeInv, Served
    <2> QED BY <2>1, <2>2, <2>3, SameDates DEF TypeInv, TypeOK
  <1>10. ASSUME UNCHANGED vars PROVE TypeInv'
    BY <1>10, SameDates DEF vars, TypeInv, TypeOK, Served
  <1> QED
    BY <1>1, <1>2, <1>3, <1>4, <1>5, <1>6, <1>7, <1>8, <1>9, <1>10, CheckType, InsertType
       DEF Next, Serve

(* Every variable stays in its range, whatever the limits and durations,   *)
(* the number of processes and addresses, and the requests that die.       *)
THEOREM TypeCorrect == Spec => []TypeOK
  <1>1. TypeInv => TypeOK
    BY DEF TypeInv
  <1> QED BY <1>1, TypeInit, TypeStep, PTL DEF Spec

-----------------------------------------------------------------------------
(* What each step does to the labels, the failures and the lock.           *)

Checking == {"checkAccount", "insertAccount", "verify"}
Low    == {p \in Procs : pc[p] \in Checking /\ seen[p] + 1 < AccountLimit}
AtLock == {p \in Procs : pc[p] = "lock"}

(* A request that goes away, or goes on without reading the row again.     *)
Quiet == /\ Low' \subseteq Low /\ AtLock' = AtLock
         /\ \A q \in Procs : pc'[q] \in Checking => pc[q] \in Checking /\ now'[q] = now[q]
         /\ UNCHANGED <<failed, locked>> /\ faults' >= faults

LEMMA ReturnFacts ==
  ASSUME TypeInv, NEW p \in Procs, Return(p)
  PROVE  /\ Low' = Low \ {p} /\ AtLock' = AtLock \ {p}
         /\ \A q \in Procs : pc'[q] \in Checking => pc[q] \in Checking /\ now'[q] = now[q]
         /\ \A q \in Procs \ {p} : pc'[q] = pc[q]
  <1>1. /\ pc'[p] = "idle"
        /\ \A q \in Procs \ {p} : pc'[q] = pc[q] /\ now'[q] = now[q] /\ seen'[q] = seen[q]
    BY DEF Return, End
  <1> QED BY <1>1 DEF Low, AtLock, Checking

(* p goes from one label to another and keeps its locals.                  *)
LEMMA GotoFacts ==
  ASSUME TypeInv, NEW p \in Procs, NEW label, Goto(p, label), UNCHANGED <<now, seen>>,
         label \in Checking => pc[p] \in Checking, pc[p] # "lock"
  PROVE  /\ Low' \subseteq Low
         /\ label # "lock" => AtLock' = AtLock
         /\ label = "lock" => Low' = Low \ {p} /\ AtLock' = AtLock \cup {p}
         /\ \A q \in Procs : pc'[q] \in Checking => pc[q] \in Checking /\ now'[q] = now[q]
  <1>1. /\ pc'[p] = label /\ \A q \in Procs \ {p} : pc'[q] = pc[q]
        /\ \A q \in Procs : now'[q] = now[q] /\ seen'[q] = seen[q]
    BY DEF TypeInv, TypeOK, Goto
  <1> QED BY <1>1 DEF Low, AtLock, Checking

LEMMA QuietStep ==
  ASSUME TypeInv, NEW p \in Procs,
         \/ \E i \in Ips : Begin(p, i)
         \/ Check(p) \/ CheckNoRow(p) \/ Insert(p) \/ FindUnknown(p) \/ FindLocked(p)
  PROVE  Quiet
  <1>0. faults \in Nat
    BY LimitAssumption DEF TypeInv, TypeOK
  <1>1. CASE \E i \in Ips : Begin(p, i)
    <2>1. /\ pc[p] = "idle" /\ pc' = [pc EXCEPT ![p] = "checkIp"]
          /\ \E t : now' = [now EXCEPT ![p] = t]
          /\ UNCHANGED <<failed, locked, seen, faults>>
      BY <1>1 DEF Begin, Goto, user
    <2>2. /\ pc'[p] = "checkIp" /\ seen' = seen
          /\ \A q \in Procs \ {p} : pc'[q] = pc[q] /\ now'[q] = now[q]
      BY <2>1 DEF TypeInv, TypeOK
    <2>3. Low' \subseteq Low /\ AtLock' = AtLock
      BY <2>1, <2>2 DEF Low, AtLock, Checking
    <2> QED BY <1>0, <2>1, <2>2, <2>3 DEF Quiet, Checking
  <1>2. CASE Return(p) /\ pc[p] # "lock" /\ UNCHANGED <<failed, locked, faults>>
    <2>1. AtLock \ {p} = AtLock
      BY <1>2 DEF AtLock
    <2> QED BY <1>0, <1>2, <2>1, ReturnFacts DEF Quiet
  <1>3. CASE FindUnknown(p) \/ FindLocked(p)
    BY <1>2, <1>3 DEF FindUnknown, FindLocked, user
  <1>4. CASE Check(p)
    <2>1. pc[p] \in {"checkIp", "checkAccount"} /\ UNCHANGED <<failed, locked, faults>>
      BY <1>4 DEF Check, user
    <2>2. CASE Return(p)
      BY <1>2, <2>1, <2>2
    <2>3. CASE Goto(p, After(p)) /\ UNCHANGED locals
      <3>1. After(p) \in Checking => pc[p] \in Checking
        BY <2>1 DEF After, Checking
      <3>2. After(p) # "lock" /\ UNCHANGED <<now, seen>> /\ pc[p] # "lock" /\ Goto(p, After(p))
        BY <2>1, <2>3 DEF After, locals
      <3> QED BY <1>0, <2>1, <3>1, <3>2, GotoFacts DEF Quiet
    <2> QED BY <1>4, <2>2, <2>3 DEF Check, Deny, Allow
  <1>5. CASE CheckNoRow(p)
    <2>1. /\ pc[p] \in {"checkIp", "checkAccount"} /\ UNCHANGED <<failed, locked, faults, now, seen>>
          /\ Goto(p, IF pc[p] = "checkIp" THEN "insertIp" ELSE "insertAccount")
      BY <1>5 DEF CheckNoRow, user, locals
    <2>2. CASE pc[p] = "checkIp"
      <3>1. Goto(p, "insertIp") /\ "insertIp" \notin Checking
        BY <2>1, <2>2 DEF Checking
      <3> QED BY <1>0, <2>1, <2>2, <3>1, GotoFacts DEF Quiet
    <2>3. CASE pc[p] = "checkAccount"
      <3>1. Goto(p, "insertAccount") /\ pc[p] \in Checking
        BY <2>1, <2>3 DEF Checking
      <3> QED BY <1>0, <2>1, <2>3, <3>1, GotoFacts DEF Quiet
    <2> QED BY <2>1, <2>2, <2>3
  <1>6. CASE Insert(p)
    <2> DEFINE P == InGap(Bucket(p)) \ {p}
    <2>1. /\ pc[p] \in {"insertIp", "insertAccount"} /\ UNCHANGED <<failed, locked, faults>>
          /\ End(P, p, After(p))
      BY <1>6 DEF Insert, user
    <2>2. /\ pc'[p] = After(p) /\ now'[p] = now[p] /\ seen'[p] = seen[p]
          /\ \A q \in P : pc'[q] = "idle" /\ pc[q] \in {"insertIp", "insertAccount"}
          /\ \A q \in Procs \ (P \cup {p}) : /\ pc'[q] = pc[q]
                                            /\ now'[q] = now[q] /\ seen'[q] = seen[q]
      BY <2>1 DEF End, InGap
    <2>3. /\ After(p) \in Checking => pc[p] \in Checking
          /\ After(p) # "lock"
      BY <2>1 DEF After, Checking
    <2> HIDE DEF P
    <2>4. Low' \subseteq Low /\ AtLock' = AtLock
      BY <2>1, <2>2, <2>3 DEF Low, AtLock, Checking
    <2>5. \A q \in Procs : pc'[q] \in Checking => pc[q] \in Checking /\ now'[q] = now[q]
      BY <2>2, <2>3 DEF Checking
    <2> QED BY <1>0, <2>1, <2>4, <2>5 DEF Quiet
  <1> QED BY <1>1, <1>3, <1>4, <1>5, <1>6

LEMMA FindFacts ==
  ASSUME TypeInv, NEW p \in Procs, FindUser(p)
  PROVE  /\ locked <= now[p] /\ AtLock' = AtLock /\ UNCHANGED <<failed, locked, faults>>
         /\ failed + 1 >= AccountLimit => Low' \subseteq Low
         /\ \A q \in Procs : /\ now'[q] = now[q]
                             /\ q # p /\ pc'[q] \in Checking => pc[q] \in Checking
  <1>1. /\ pc[p] = "find" /\ locked <= now[p] /\ pc' = [pc EXCEPT ![p] = "checkAccount"]
        /\ seen' = [seen EXCEPT ![p] = failed] /\ UNCHANGED <<failed, locked, faults, now>>
    BY DEF FindUser, Goto, user
  <1>2. /\ pc'[p] = "checkAccount" /\ seen'[p] = failed
        /\ \A q \in Procs \ {p} : pc'[q] = pc[q] /\ seen'[q] = seen[q]
    BY <1>1 DEF TypeInv, TypeOK
  <1>3. failed + 1 >= AccountLimit => p \notin Low'
    BY <1>1, <1>2, Bounds, LimitAssumption DEF Low, TypeInv, TypeOK
  <1> QED BY <1>1, <1>2, <1>3 DEF Low, AtLock, Checking

-----------------------------------------------------------------------------
(* Who has read the row when the lock is set began at most Patience after  *)
(* the request that sets it, for both are being served then.               *)
Overtaken == \A p \in Procs : pc[p] \in Checking =>
               locked <= now[p] \/ now[p] <= locked - Lock + Patience
LockInv == TypeInv /\ Overtaken

LEMMA NumberFacts ==
  ASSUME TypeInv
  PROVE  /\ locked \in Nat /\ failed \in Nat /\ faults \in Nat /\ clock \in Nat
         /\ \A p \in Procs : now[p] \in Nat /\ seen[p] \in Nat
  <1>1. locked \in Nat /\ clock \in Nat /\ \A p \in Procs : now[p] \in Nat
    BY TimeFacts DEF TypeInv, TypeOK
  <1>2. failed \in Nat /\ faults \in Nat
    BY DEF TypeInv, TypeOK
  <1>3. ASSUME NEW p \in Procs PROVE seen[p] \in Nat
    <2>1. seen[p] \in 0..FailCap
      BY DEF TypeInv, TypeOK
    <2> QED BY <2>1
  <1> QED BY <1>1, <1>2, <1>3

LEMMA LockInit == Init => LockInv
  BY TypeInit DEF LockInv, Init, Overtaken, Checking

LEMMA QuietOvertaken == LockInv /\ Quiet => Overtaken'
  BY DEF LockInv, Quiet, Overtaken

LEMMA LockStep == LockInv /\ [Next]_vars => LockInv'
  <1> SUFFICES ASSUME LockInv, [Next]_vars PROVE LockInv'
    OBVIOUS
  <1>0. TypeInv /\ TypeInv'
    BY TypeStep DEF LockInv
  <1> SUFFICES Overtaken'
    BY <1>0 DEF LockInv
  <1>1. ASSUME NEW p \in Procs,
               \/ \E i \in Ips : Begin(p, i)
               \/ Check(p) \/ CheckNoRow(p) \/ Insert(p) \/ FindUnknown(p) \/ FindLocked(p)
        PROVE  Overtaken'
    BY <1>0, <1>1, QuietStep, QuietOvertaken
  <1>2. ASSUME NEW p \in Procs, FindUser(p) PROVE Overtaken'
    BY <1>0, <1>2, FindFacts DEF LockInv, Overtaken
  <1>3. ASSUME NEW p \in Procs, Return(p), locked' = locked \/ locked' = 0 PROVE Overtaken'
    BY <1>0, <1>3, ReturnFacts, NumberFacts DEF LockInv, Overtaken
  <1>4. ASSUME NEW p \in Procs, Succeed(p) \/ Abort(p) PROVE Overtaken'
    BY <1>3, <1>4 DEF Succeed, Abort, user
  <1>5. ASSUME NEW p \in Procs, Fail(p) PROVE Overtaken'
    <2>1. pc[p] = "verify" /\ locked' = locked
      BY <1>5 DEF Fail
    <2>2. CASE Return(p)
      BY <1>3, <2>1, <2>2
    <2>3. CASE Goto(p, "lock") /\ UNCHANGED locals
      <3>1. UNCHANGED <<now, seen>> /\ "lock" \notin Checking /\ pc[p] # "lock"
        BY <2>1, <2>3 DEF locals, Checking
      <3> QED BY <1>0, <2>1, <2>3, <3>1, GotoFacts DEF LockInv, Overtaken
    <2> QED BY <1>5, <2>2, <2>3 DEF Fail
  <1>6. ASSUME NEW p \in Procs, SetLock(p) PROVE Overtaken'
    <2>1. pc[p] # "idle" /\ Return(p) /\ locked' = now[p] + Lock
      BY <1>6 DEF SetLock
    <2>2. ASSUME NEW q \in Procs, pc'[q] \in Checking
          PROVE  now'[q] <= locked' - Lock + Patience
      <3>1. pc[q] # "idle" /\ now'[q] = now[q]
        BY <1>0, <2>1, <2>2, ReturnFacts DEF Checking
      <3>2. now[q] <= clock /\ clock <= now[p] + Patience
        BY <1>0, <2>1, <3>1 DEF TypeInv, Served
      <3> QED BY <1>0, <2>1, <3>1, <3>2, NumberFacts, TimeFacts
    <2> QED BY <2>2 DEF Overtaken
  <1>7. ASSUME Tick \/ UNCHANGED vars PROVE Overtaken'
    <2>1. UNCHANGED <<locked, pc, now>>
      BY <1>7 DEF Tick, user, locals, vars
    <2> QED BY <2>1 DEF LockInv, Overtaken
  <1> QED
    BY <1>1, <1>2, <1>4, <1>5, <1>6, <1>7 DEF Next, Serve

(* A lock that has not run out is lifted only by a right password that was  *)
(* on its way when the lock was set, whatever the interleaving.             *)
THEOREM LiftCorrect == Spec => LockLiftedByLateRequestsOnly
  <1> DEFINE Lift == \A p \in Procs :
               locked > clock /\ locked' = 0 /\ pc[p] # pc'[p]
                 => now[p] <= locked - Lock + Patience
  <1>1. LockInv /\ [Next]_vars => Lift
    <2> SUFFICES ASSUME LockInv, [Next]_vars, NEW p \in Procs,
                        locked > clock, locked' = 0, pc[p] # pc'[p]
                 PROVE  now[p] <= locked - Lock + Patience
      OBVIOUS
    <2>0. TypeInv
      BY DEF LockInv
    <2>1. locked' # locked
      BY <2>0, NumberFacts
    <2>2. ASSUME NEW q \in Procs, SetLock(q) PROVE FALSE
      <3>1. locked' = now[q] + Lock /\ Lock > 0
        BY <2>2, LimitAssumption DEF SetLock
      <3> QED BY <2>0, <3>1, NumberFacts, TimeFacts
    <2>3. \E q \in Procs : Succeed(q)
      BY <2>1, <2>2
         DEF Next, Serve, Begin, Check, CheckNoRow, Insert, FindUnknown, FindLocked,
             FindUser, Fail, Abort, Tick, user, vars
    <2>4. Succeed(p)
      <3>1. PICK q \in Procs : Succeed(q)
        BY <2>3
      <3>2. q = p
        BY <2>0, <3>1, ReturnFacts DEF Succeed
      <3> QED BY <3>1, <3>2
    <2>5. pc[p] = "verify" /\ now[p] <= clock
      BY <2>0, <2>4 DEF Succeed, TypeInv, Served
    <2>6. locked <= now[p] \/ now[p] <= locked - Lock + Patience
      BY <2>5 DEF LockInv, Overtaken, Checking
    <2> QED BY <2>0, <2>5, <2>6, NumberFacts
  <1> QED BY <1>1, LockInit, LockStep, PTL DEF Spec, LockLiftedByLateRequestsOnly

-----------------------------------------------------------------------------
(* While the account is not locked, each failure from the one before the    *)
(* limit on is a request that had read the row too early, one about to set  *)
(* the lock, or one that died there.                                        *)
Stale == locked = 0 /\ failed + 1 >= AccountLimit
Counted == failed + Cardinality(Low) + 2
             <= AccountLimit + Cardinality(Procs) + faults + Cardinality(AtLock)
Paid == Stale => Counted
CountInv == TypeInv /\ Paid

LEMMA SetFacts ==
  /\ IsFiniteSet(Low) /\ Cardinality(Low) \in Nat
  /\ IsFiniteSet(AtLock) /\ Cardinality(AtLock) \in Nat
  /\ Cardinality(Procs) \in Nat
  <1>1. Low \in SUBSET Procs /\ AtLock \in SUBSET Procs
    BY DEF Low, AtLock
  <1>2. IsFiniteSet(Low) /\ IsFiniteSet(AtLock)
    BY <1>1, NameAssumption, FS_Subset
  <1> QED BY <1>2, NameAssumption, FS_CardinalityType

LEMMA NextSetFacts ==
  /\ IsFiniteSet(Low') /\ Cardinality(Low') \in Nat
  /\ IsFiniteSet(AtLock') /\ Cardinality(AtLock') \in Nat
  <1>1. Low' \in SUBSET Procs /\ AtLock' \in SUBSET Procs
    BY DEF Low, AtLock
  <1>2. IsFiniteSet(Low') /\ IsFiniteSet(AtLock')
    BY <1>1, NameAssumption, FS_Subset
  <1> QED BY <1>2, FS_CardinalityType

LEMMA FewerLow ==
  ASSUME Low' \subseteq Low PROVE Cardinality(Low') <= Cardinality(Low)
  <1>1. Low' \in SUBSET Low
    OBVIOUS
  <1> QED BY <1>1, SetFacts, FS_Subset

(* Steps that leave the failures and those about to set the lock alone.    *)
LEMMA QuietPaid ==
  ASSUME CountInv, TypeInv', Stale => Low' \subseteq Low, AtLock' = AtLock,
         UNCHANGED <<failed, locked>>, faults' >= faults
  PROVE  Paid'
  <1> SUFFICES ASSUME Stale PROVE Counted'
    BY DEF Paid, Stale
  <1>1. Counted
    BY DEF CountInv, Paid
  <1>2. Cardinality(Low') <= Cardinality(Low) /\ Cardinality(AtLock') = Cardinality(AtLock)
    BY FewerLow
  <1>3. /\ failed \in Nat /\ faults \in Nat /\ faults' \in Nat
        /\ AccountLimit \in Nat
    BY NumberFacts, LimitAssumption DEF CountInv, TypeInv, TypeOK
  <1> QED BY <1>1, <1>2, <1>3, SetFacts, NextSetFacts DEF Counted

(* A failure: counted instead of its request, or of one more that is about  *)
(* to set the lock; the first one that counts leaves the others at most.    *)
LEMMA FailPaid ==
  ASSUME CountInv, TypeInv', NEW p \in Procs, Fail(p)
  PROVE  Paid'
  <1>0. TypeInv /\ pc[p] = "verify" /\ (p \in Low \/ TooMany(p))
    <2>1. pc[p] = "verify" /\ seen[p] \in Nat
      BY NumberFacts DEF CountInv, Fail
    <2>2. p \in Low \/ TooMany(p)
      BY <2>1, LimitAssumption DEF Low, Checking, TooMany
    <2> QED BY <2>1, <2>2 DEF CountInv
  <1>a. /\ locked' = locked /\ faults' = faults
        /\ failed' = failed + 1 \/ (failed' = failed /\ failed = FailCap)
    <2>1. failed \in 0..FailCap /\ FailCap \in Nat
      BY Bounds DEF CountInv, TypeInv, TypeOK
    <2> QED BY <2>1 DEF Fail
  <1>1. /\ p \notin Low' /\ p \notin AtLock
        /\ TooMany(p) => Low' = Low \ {p} /\ AtLock' = AtLock \cup {p}
        /\ ~TooMany(p) => Low' = Low \ {p} /\ AtLock' = AtLock
    <2>1. pc[p] = "verify" /\ p \notin AtLock
      BY DEF Fail, AtLock
    <2>2. CASE TooMany(p)
      <3>1. Goto(p, "lock") /\ UNCHANGED <<now, seen>> /\ "lock" \notin Checking
        BY <2>2 DEF Fail, locals, Checking
      <3>2. Low' = Low \ {p} /\ AtLock' = AtLock \cup {p}
        BY <1>0, <2>1, <3>1, GotoFacts
      <3> QED BY <2>1, <2>2, <3>2
    <2>3. CASE ~TooMany(p)
      <3>1. Return(p)
        BY <2>3 DEF Fail
      <3>2. Low' = Low \ {p} /\ AtLock' = AtLock \ {p}
        BY <1>0, <3>1, ReturnFacts
      <3> QED BY <2>1, <2>3, <3>2
    <2> QED BY <2>2, <2>3
  <1>2. /\ failed \in Nat /\ faults \in Nat /\ AccountLimit \in Nat /\ FailCap \in Nat
        /\ Cardinality(Procs) \in Nat /\ FailCap >= AccountLimit
    BY <1>0, NumberFacts, LimitAssumption, Bounds
  <1>3. /\ Cardinality(Low') = IF p \in Low THEN Cardinality(Low) - 1 ELSE Cardinality(Low)
        /\ Cardinality(AtLock') = IF TooMany(p) THEN Cardinality(AtLock) + 1
                                               ELSE Cardinality(AtLock)
    BY <1>1, SetFacts, FS_RemoveElement, FS_AddElement
  <1>4. CASE Stale
    <2>1. Counted
      BY <1>4 DEF CountInv, Paid
    <2>2. Counted'
      BY <1>0, <1>a, <1>2, <1>3, <2>1, SetFacts, NextSetFacts DEF Counted
    <2> QED BY <2>2 DEF Paid
  <1>5. CASE ~Stale
    <2> SUFFICES ASSUME Stale' PROVE Counted'
      BY DEF Paid
    <2>1. failed + 2 = AccountLimit /\ failed' = failed + 1
      BY <1>a, <1>2, <1>5 DEF Stale
    <2>2. Cardinality(Low') + 1 <= Cardinality(Procs)
      <3>1. Low' \in SUBSET (Procs \ {p})
        BY <1>1 DEF Low
      <3>2. /\ IsFiniteSet(Procs \ {p})
            /\ Cardinality(Procs \ {p}) = Cardinality(Procs) - 1
        BY NameAssumption, FS_RemoveElement
      <3>3. Cardinality(Low') <= Cardinality(Procs \ {p})
        BY <3>1, <3>2, FS_Subset
      <3> QED BY <1>2, <3>2, <3>3, NextSetFacts
    <2> QED BY <1>a, <1>2, <2>1, <2>2, NextSetFacts DEF Counted
  <1> QED BY <1>4, <1>5

LEMMA AbortPaid ==
  ASSUME CountInv, TypeInv', NEW p \in Procs, Abort(p)
  PROVE  Paid'
  <1>1. /\ TypeInv /\ UNCHANGED <<failed, locked>> /\ faults' = faults + 1
        /\ Low' = Low \ {p} /\ AtLock' = AtLock \ {p}
    BY ReturnFacts DEF CountInv, Abort, user
  <1> SUFFICES ASSUME Stale PROVE Counted'
    BY <1>1 DEF Paid, Stale
  <1>2. Counted
    BY DEF CountInv, Paid
  <1>3. /\ Cardinality(Low') <= Cardinality(Low)
        /\ Cardinality(AtLock') + 1 >= Cardinality(AtLock)
    <2>1. /\ IsFiniteSet(Low) /\ Cardinality(Low) \in Nat
          /\ IsFiniteSet(AtLock) /\ Cardinality(AtLock) \in Nat
      BY SetFacts
    <2>2. \A S : IsFiniteSet(S) /\ Cardinality(S) \in Nat =>
            /\ Cardinality(S \ {p}) <= Cardinality(S)
            /\ Cardinality(S \ {p}) + 1 >= Cardinality(S)
      <3> SUFFICES ASSUME NEW S, IsFiniteSet(S), Cardinality(S) \in Nat
                   PROVE  /\ Cardinality(S \ {p}) <= Cardinality(S)
                          /\ Cardinality(S \ {p}) + 1 >= Cardinality(S)
        OBVIOUS
      <3>1. Cardinality(S \ {p}) = IF p \in S THEN Cardinality(S) - 1 ELSE Cardinality(S)
        BY FS_RemoveElement
      <3> QED BY <3>1
    <2>3. /\ Cardinality(Low \ {p}) <= Cardinality(Low)
          /\ Cardinality(AtLock \ {p}) + 1 >= Cardinality(AtLock)
      BY <2>1, <2>2
    <2> QED BY <1>1, <2>3
  <1>4. failed \in Nat /\ faults \in Nat /\ AccountLimit \in Nat
    BY <1>1, NumberFacts, LimitAssumption
  <1> QED BY <1>1, <1>2, <1>3, <1>4, SetFacts, NextSetFacts DEF Counted

LEMMA CountInit == Init => CountInv
  BY TypeInit, LimitAssumption DEF CountInv, Paid, Stale, Init

LEMMA CountStep == CountInv /\ [Next]_vars => CountInv'
  <1> SUFFICES ASSUME CountInv, [Next]_vars PROVE CountInv'
    OBVIOUS
  <1>0. TypeInv /\ TypeInv'
    BY TypeStep DEF CountInv
  <1> SUFFICES Paid'
    BY <1>0 DEF CountInv
  <1>1. ASSUME NEW p \in Procs,
               \/ \E i \in Ips : Begin(p, i)
               \/ Check(p) \/ CheckNoRow(p) \/ Insert(p) \/ FindUnknown(p) \/ FindLocked(p)
        PROVE  Paid'
    BY <1>0, <1>1, QuietStep, QuietPaid DEF Quiet
  <1>2. ASSUME NEW p \in Procs, FindUser(p) PROVE Paid'
    <2>1. faults' >= faults
      BY <1>0, <1>2, FindFacts, NumberFacts
    <2> QED BY <1>0, <1>2, <2>1, FindFacts, QuietPaid DEF Stale
  <1>3. ASSUME NEW p \in Procs, Succeed(p) PROVE Paid'
    BY <1>3, LimitAssumption DEF Succeed, Paid, Stale
  <1>4. ASSUME NEW p \in Procs, SetLock(p) PROVE Paid'
    <2>1. locked' = now[p] + Lock /\ now[p] \in Nat /\ Lock > 0 /\ Lock \in Nat
      BY <1>0, <1>4, NumberFacts, LimitAssumption DEF SetLock
    <2> QED BY <2>1 DEF Paid, Stale
  <1>5. ASSUME Tick \/ UNCHANGED vars PROVE Paid'
    <2>1. UNCHANGED <<pc, seen, failed, locked, faults>>
      BY <1>5 DEF Tick, user, locals, vars
    <2>2. Low' = Low /\ AtLock' = AtLock /\ faults' >= faults
      BY <1>0, <2>1, NumberFacts DEF Low, AtLock
    <2> QED BY <1>0, <2>1, <2>2, QuietPaid
  <1> QED
    BY <1>0, <1>1, <1>2, <1>3, <1>4, <1>5, FailPaid, AbortPaid DEF Next, Serve

(* Concurrent requests that compare a stale count, and requests that die    *)
(* before they set it, put the lock off by one failure each and no more,    *)
(* for any limit and any number of processes.                               *)
THEOREM FollowCorrect == Spec => []LockFollowsFailures
  <1>1. CountInv => LockFollowsFailures
    <2> SUFFICES ASSUME CountInv, \A p \in Procs : pc[p] # "lock",
                        failed >= AccountLimit + Cardinality(Procs) - 1 + faults,
                        locked = 0
                 PROVE  FALSE
      BY DEF LockFollowsFailures
    <2>1. AtLock = {} /\ Cardinality(AtLock) = 0
      BY FS_EmptySet DEF AtLock
    <2>2. /\ failed \in Nat /\ faults \in Nat /\ AccountLimit \in Nat /\ AccountLimit > 1
      BY NumberFacts, LimitAssumption DEF CountInv
    <2>3. Cardinality(Procs) > 0 \/ failed + 1 >= AccountLimit
      BY <2>2, SetFacts
    <2>4. CASE Stale
      BY <2>1, <2>2, <2>4, SetFacts DEF CountInv, Paid, Counted
    <2>5. CASE ~Stale
      BY <2>2, <2>5, SetFacts DEF Stale
    <2> QED BY <2>4, <2>5
  <1> QED BY <1>1, CountInit, CountStep, PTL DEF Spec

-----------------------------------------------------------------------------
(***************************************************************************)
(* How many requests a bucket lets through in a span as long as its        *)
(* window.  The argument has three parts.  What one bucket has let through *)
(* (the set of records R) falls into windows that lie at least Window      *)
(* apart, and a window that was filled keeps a distance of Window +        *)
(* Patience from the next (Windows, which each step of a bucket keeps).  A *)
(* request that is counted in a window opened after it began was on its    *)
(* way then (Late).  And a span meets three windows at most, the third     *)
(* only with such late requests (SpanCount).                               *)
(***************************************************************************)
(* What a bucket has let through up to time c, with its row: the end e,    *)
(* the count n (0: no row) and the limit L.                                *)
Ranked(R, e, n, L, c) ==
  \A x \in R : /\ x.rank \in 1..L /\ x.opened <= c /\ x.at <= c
               /\ x.at < x.opened + Window /\ x.opened <= x.at + Patience
               /\ x.rank = 1 => x.at = x.opened
               /\ x.opened + Window <= e
               /\ n < L /\ x.opened + Window = e => x.rank <= n
Apart(R, e, L) ==
  \A x, y \in R : /\ x.opened = y.opened /\ x.rank = y.rank => x = y
                  /\ x.opened < y.opened => x.opened + Window <= y.opened
                  /\ x.rank = L /\ x.opened = y.opened => y.at + Window + Patience <= e
Filled(R, L) ==
  \A x, y, z \in R : x.rank = L /\ z.opened = x.opened /\ x.opened < y.opened
                       => z.at + Window + Patience <= y.opened
Started(R, e, n, L) ==
  /\ n = 0 => R = {}
  /\ n \in 1..(L - 1) => \E x \in R : x.opened + Window = e
Windows(R, e, n, L, c) ==
  Ranked(R, e, n, L, c) /\ Apart(R, e, L) /\ Filled(R, L) /\ Started(R, e, n, L)

LEMMA RecordFacts ==
  ASSUME NEW R \in SUBSET Records, NEW x \in R
  PROVE  x.opened \in Nat /\ x.rank \in Nat /\ x.at \in Nat
  BY TimeFacts DEF Records

LEMMA ClockKeeps ==
  ASSUME NEW R \in SUBSET Records, NEW e \in Nat, NEW n \in Nat, NEW L \in Nat,
         NEW c \in Nat, NEW d \in Nat, c <= d, Windows(R, e, n, L, c)
  PROVE  Windows(R, e, n, L, d)
  <1>1. Ranked(R, e, n, L, d)
    BY RecordFacts DEF Windows, Ranked
  <1> QED BY <1>1 DEF Windows

LEMMA ResetKeeps ==
  ASSUME NEW R \in SUBSET Records, NEW e \in Nat, NEW n \in Nat, NEW L \in Nat, L > 1,
         NEW c \in Nat, NEW t \in Times, t <= c, n = 0 \/ e <= t, Windows(R, e, n, L, c)
  PROVE  Windows(R \cup {[opened |-> t, rank |-> 1, at |-> t]}, t + Window, 1, L, c)
  <1> DEFINE new == [opened |-> t, rank |-> 1, at |-> t]
             S == R \cup {new}
  <1>0. t \in Nat /\ Window \in Nat /\ Window > 0 /\ Patience \in Nat /\ new \in Records
    BY TimeFacts, LimitAssumption DEF Records
  <1>1. new.opened = t /\ new.rank = 1 /\ new.at = t
    OBVIOUS
  <1>2. \A x \in R : /\ x.opened \in Nat /\ x.rank \in Nat /\ x.at \in Nat
                     /\ x.opened + Window <= t
    BY RecordFacts, <1>0 DEF Windows, Ranked, Started
  <1>3. \A x, y \in R : x.rank = L /\ x.opened = y.opened => y.at + Window + Patience <= t
    BY RecordFacts, <1>0 DEF Windows, Apart, Started
  <1> HIDE DEF new
  <1>4. Ranked(S, t + Window, 1, L, c)
    BY <1>0, <1>1, <1>2 DEF Windows, Ranked
  <1>5. Apart(S, t + Window, L)
    BY <1>0, <1>1, <1>2, <1>3 DEF Windows, Apart
  <1>6. Filled(S, L)
    BY <1>0, <1>1, <1>2, <1>3 DEF Windows, Filled
  <1>7. Started(S, t + Window, 1, L)
    BY <1>0, <1>1 DEF Started
  <1> QED BY <1>4, <1>5, <1>6, <1>7 DEF Windows, new

LEMMA IncrementKeeps ==
  ASSUME NEW R \in SUBSET Records, NEW e \in Nat, NEW n \in Nat, NEW L \in Nat,
         0 < n, n < L, NEW c \in Nat, NEW t \in Times, t <= c, c <= t + Patience, t < e,
         NEW f \in Nat, f = (IF n + 1 >= L THEN t + Lock ELSE e),
         Windows(R, e, n, L, c), e - Window \in Times
  PROVE  Windows(R \cup {[opened |-> e - Window, rank |-> n + 1, at |-> t]}, f, n + 1, L, c)
  <1> DEFINE new == [opened |-> e - Window, rank |-> n + 1, at |-> t]
             S == R \cup {new}
  <1>0. /\ t \in Nat /\ Window \in Nat /\ Window > 0 /\ Patience \in Nat /\ Lock \in Nat
        /\ e - Window \in Nat /\ Lock >= Window + 2 * Patience
    BY TimeFacts, LimitAssumption
  <1>1. new.opened = e - Window /\ new.rank = n + 1 /\ new.at = t
    OBVIOUS
  <1>2. \A x \in R : /\ x.opened \in Nat /\ x.rank \in Nat /\ x.at \in Nat
                     /\ x.opened <= c /\ x.at <= c /\ x.opened <= e - Window
                     /\ x.opened = e - Window => x.rank <= n
    BY RecordFacts, <1>0 DEF Windows, Ranked
  <1>3. PICK z \in R : z.opened = e - Window
    <2>1. n \in 1..(L - 1)
      OBVIOUS
    <2>2. PICK z \in R : z.opened + Window = e
      BY <2>1 DEF Windows, Started
    <2> QED BY <1>0, <1>2, <2>2
  <1>4. c + Window + Patience <= t + Lock
    BY <1>0
  <1>5. e - Window <= c
    BY <1>2, <1>3
  <1> HIDE DEF new
  <1>6. Ranked(S, f, n + 1, L, c)
    <2>1. ASSUME NEW x \in R
          PROVE  /\ x.opened + Window <= f
                 /\ n + 1 < L /\ x.opened + Window = f => x.rank <= n + 1
      BY <1>0, <1>2, <1>4, <2>1
    <2>2. e - Window + Window <= f
      BY <1>0, <1>4, <1>5
    <2>3. e - Window <= t + Patience
      BY <1>0, <1>5
    <2> QED BY <1>0, <1>1, <1>2, <1>5, <2>1, <2>2, <2>3 DEF Windows, Ranked
  <1>7. Apart(S, f, L)
    <2>1. ASSUME NEW x \in S, NEW y \in S, x.opened = y.opened, x.rank = y.rank
          PROVE  x = y
      BY <1>0, <1>1, <1>2, <2>1 DEF Windows, Apart
    <2>2. ASSUME NEW x \in S, NEW y \in S, x.opened < y.opened
          PROVE  x.opened + Window <= y.opened
      BY <1>0, <1>1, <1>2, <1>3, <2>2 DEF Windows, Apart
    <2>3. ASSUME NEW x \in S, NEW y \in S, x.rank = L, x.opened = y.opened
          PROVE  y.at + Window + Patience <= f
      <3>1. y.at \in Nat /\ y.at <= c
        BY <1>0, <1>1, <1>2
      <3>2. CASE n + 1 >= L
        BY <1>0, <1>4, <3>1, <3>2
      <3>3. CASE n + 1 < L
        <4>1. x \in R /\ x.opened # e - Window
          BY <1>1, <1>2, <2>3, <3>3
        <4>2. y \in R
          BY <1>1, <2>3, <4>1
        <4> QED BY <2>3, <3>3, <4>1, <4>2 DEF Windows, Apart
      <3> QED BY <3>2, <3>3
    <2> QED BY <2>1, <2>2, <2>3 DEF Apart
  <1>8. Filled(S, L)
    <2> SUFFICES ASSUME NEW x \in S, NEW y \in S, NEW z1 \in S,
                        x.rank = L, z1.opened = x.opened, x.opened < y.opened
                 PROVE  z1.at + Window + Patience <= y.opened
      BY DEF Filled
    <2>1. x.opened < e - Window
      BY <1>0, <1>1, <1>2
    <2>2. x \in R /\ z1 \in R
      BY <1>0, <1>1, <2>1
    <2>3. \E w \in R : w.opened = y.opened
      BY <1>1, <1>3
    <2> QED BY <2>2, <2>3 DEF Windows, Filled
  <1>9. Started(S, f, n + 1, L)
    BY <1>0, <1>1 DEF Started
  <1> QED BY <1>6, <1>7, <1>8, <1>9 DEF Windows, new

-----------------------------------------------------------------------------
(* Counting: records of one window have different numbers.                 *)
LEMMA RankCount ==
  ASSUME NEW R \in SUBSET Records, NEW L \in Nat, NEW e \in Nat, Apart(R, e, L),
         NEW lo \in Nat, NEW hi \in Nat, lo <= hi + 1, NEW T \in SUBSET R,
         \A x, y \in T : x.opened = y.opened,
         \A x \in T : lo <= x.rank /\ x.rank <= hi
  PROVE  IsFiniteSet(T) /\ Cardinality(T) <= hi - lo + 1
  <1> DEFINE f == [x \in T |-> x.rank]
  <1>1. f \in [T -> lo..hi]
    BY RecordFacts
  <1>2. \A x, y \in T : f[x] = f[y] => x = y
    BY DEF Apart
  <1>3. f \in Injection(T, lo..hi)
    BY <1>1, <1>2 DEF Injection, IsInjective
  <1>4. IsFiniteSet(lo..hi) /\ Cardinality(lo..hi) = hi - lo + 1
    <2>1. IsFiniteSet(lo..hi) /\ Cardinality(lo..hi) = IF lo > hi THEN 0 ELSE hi - lo + 1
      BY FS_Interval
    <2> QED BY <2>1
  <1> HIDE DEF f
  <1> QED BY <1>3, <1>4, FS_Injection

(* The requests in a span that begins at t.                                *)
During(R, t) == {x \in R : t <= x.at /\ x.at < t + Window}
Of(R, t, w)  == {x \in During(R, t) : x.opened = w}

(* A span meets a window that is not its last one without a request that   *)
(* filled it.                                                              *)
LEMMA NotFilled ==
  ASSUME NEW R \in SUBSET Records, NEW e \in Nat, NEW n \in Nat, NEW L \in Nat,
         NEW c \in Nat, Windows(R, e, n, L, c), NEW t \in Nat,
         NEW x \in During(R, t), NEW y \in During(R, t), x.opened < y.opened
  PROVE  x.rank # L
  <1> SUFFICES ASSUME x.rank = L PROVE FALSE
    OBVIOUS
  <1>1. x \in R /\ y \in R /\ t <= x.at /\ y.at < t + Window
    BY DEF During
  <1>2. x.at + Window + Patience <= y.opened
    BY <1>1 DEF Windows, Filled
  <1>3. y.opened <= y.at + Patience
    BY <1>1 DEF Windows, Ranked
  <1> QED BY <1>1, <1>2, <1>3, RecordFacts, TimeFacts

(* A span with a request numbered 1 has no late request of the next window *)
(* but one, and no request numbered 1 of the next.                         *)
LEMMA AfterFirst ==
  ASSUME NEW R \in SUBSET Records, NEW e \in Nat, NEW n \in Nat, NEW L \in Nat,
         NEW c \in Nat, Windows(R, e, n, L, c), NEW t \in Nat,
         NEW x \in During(R, t), x.rank = 1
  PROVE  /\ \A y \in During(R, t) : x.opened < y.opened => y.rank # 1
         /\ \A y, z \in During(R, t) : ~(x.opened < y.opened /\ y.opened < z.opened)
  <1>1. x \in R /\ t <= x.opened
    BY DEF During, Windows, Ranked
  <1>2. ASSUME NEW y \in During(R, t), x.opened < y.opened
        PROVE  y.rank # 1 /\ t + Window <= y.opened
    <2>1. y \in R /\ y.at < t + Window
      BY DEF During
    <2>2. x.opened + Window <= y.opened
      BY <1>1, <1>2, <2>1 DEF Windows, Apart
    <2>3. y.rank = 1 => y.at = y.opened
      BY <2>1 DEF Windows, Ranked
    <2> QED BY <1>1, <2>1, <2>2, <2>3, RecordFacts, TimeFacts
  <1>3. ASSUME NEW y \in During(R, t), NEW z \in During(R, t),
               x.opened < y.opened, y.opened < z.opened
        PROVE  FALSE
    <2>1. y \in R /\ z \in R /\ z.at < t + Window
      BY DEF During
    <2>2. t + Window <= y.opened
      BY <1>2, <1>3
    <2>3. y.opened + Window <= z.opened /\ z.opened <= z.at + Patience
      BY <1>3, <2>1 DEF Windows, Apart, Ranked
    <2> QED BY <2>1, <2>2, <2>3, RecordFacts, TimeFacts, LimitAssumption
  <1> QED BY <1>2, <1>3

(* Two windows of a span give fewer than twice the limit.                  *)
LEMMA TwoWindows ==
  ASSUME NEW R \in SUBSET Records, NEW e \in Nat, NEW n \in Nat, NEW L \in Nat, L > 1,
         NEW c \in Nat, Windows(R, e, n, L, c), NEW t \in Nat,
         NEW x \in During(R, t), NEW y \in During(R, t), x.opened < y.opened
  PROVE  LET X == Of(R, t, x.opened)
             Y == Of(R, t, y.opened)
         IN  /\ IsFiniteSet(X) /\ IsFiniteSet(Y)
             /\ Cardinality(X) + Cardinality(Y) <= 2 * L - 2
             /\ (\E z \in During(R, t) : y.opened < z.opened)
                  => Cardinality(X) + Cardinality(Y) <= 2 * L - 3
  <1> DEFINE X == Of(R, t, x.opened)
             Y == Of(R, t, y.opened)
  <1>1. X \in SUBSET R /\ Y \in SUBSET R /\ X \subseteq During(R, t) /\ Y \subseteq During(R, t)
    BY DEF Of, During
  <1>2. Apart(R, e, L)
    BY DEF Windows
  <1>3. \A u, v \in X : u.opened = v.opened
    BY DEF Of
  <1>4. \A u, v \in Y : u.opened = v.opened
    BY DEF Of
  <1>5. \A u \in X \cup Y : u.rank \in Nat /\ 1 <= u.rank /\ u.rank <= L
    BY <1>1 DEF Windows, Ranked
  <1>6. \A u \in X : u.rank <= L - 1
    <2>1. ASSUME NEW u \in X PROVE u.rank # L
      <3>1. u \in During(R, t) /\ u.opened < y.opened
        BY DEF Of
      <3> QED BY <3>1, NotFilled
    <2> QED BY <1>5, <2>1
  <1>7. ASSUME NEW z \in During(R, t), y.opened < z.opened
        PROVE  \A u \in Y : u.rank <= L - 1
    <2>1. ASSUME NEW u \in Y PROVE u.rank # L
      <3>1. u \in During(R, t) /\ u.opened < z.opened
        BY <1>7 DEF Of
      <3> QED BY <3>1, <1>7, NotFilled
    <2> QED BY <1>5, <2>1
  <1>8. ASSUME NEW u \in X, u.rank = 1
        PROVE  /\ \A v \in Y : 2 <= v.rank
               /\ ~ \E z \in During(R, t) : y.opened < z.opened
    <2>1. u \in During(R, t) /\ u.opened = x.opened
      BY DEF Of
    <2>2. \A v \in Y : v.rank # 1
      <3>1. \A v \in Y : v \in During(R, t) /\ u.opened < v.opened
        BY <2>1 DEF Of
      <3> QED BY <1>8, <2>1, <3>1, AfterFirst
    <2>3. ~ \E z \in During(R, t) : y.opened < z.opened
      BY <1>8, <2>1, AfterFirst
    <2> QED BY <1>5, <2>2, <2>3
  <1> HIDE DEF X, Y
  <1>a. ASSUME NEW T \in {X, Y}, NEW lo \in Nat, NEW hi \in Nat, lo <= hi + 1,
               \A u \in T : lo <= u.rank /\ u.rank <= hi
        PROVE  IsFiniteSet(T) /\ Cardinality(T) <= hi - lo + 1
    <2>1. T \in SUBSET R /\ \A u, v \in T : u.opened = v.opened
      BY <1>1, <1>3, <1>4
    <2> QED BY <1>2, <1>a, <2>1, RankCount
  <1>b. 1 \in Nat /\ 2 \in Nat /\ L - 1 \in Nat
    OBVIOUS
  <1>c. /\ IsFiniteSet(X) /\ Cardinality(X) <= L - 1 - 1 + 1
        /\ IsFiniteSet(Y) /\ Cardinality(Y) <= L - 1 + 1
    <2>1. X \in {X, Y} /\ Y \in {X, Y} /\ 1 <= L - 1 + 1 /\ 1 <= L + 1
      OBVIOUS
    <2>2. IsFiniteSet(X) /\ Cardinality(X) <= L - 1 - 1 + 1
      BY <1>5, <1>6, <1>a, <1>b, <2>1
    <2>3. IsFiniteSet(Y) /\ Cardinality(Y) <= L - 1 + 1
      BY <1>5, <1>a, <1>b, <2>1
    <2> QED BY <2>2, <2>3
  <1>9. CASE \E u \in X : u.rank = 1
    <2>1. Cardinality(Y) <= L - 2 + 1
      BY <1>5, <1>8, <1>9, <1>a, <1>b
    <2> QED BY <1>8, <1>9, <1>c, <2>1, FS_CardinalityType DEF X, Y
  <1>10. CASE ~ \E u \in X : u.rank = 1
    <2>1. \A u \in X : 2 <= u.rank
      BY <1>5, <1>10
    <2>2. Cardinality(X) <= L - 1 - 2 + 1
      <3>1. X \in {X, Y} /\ 2 <= L - 1 + 1
        OBVIOUS
      <3> QED BY <1>6, <1>a, <1>b, <2>1, <3>1
    <2>3. ASSUME \E z \in During(R, t) : y.opened < z.opened
          PROVE  Cardinality(Y) <= L - 1 - 1 + 1
      <3>1. \A v \in Y : 1 <= v.rank /\ v.rank <= L - 1
        BY <1>5, <1>7, <2>3
      <3>2. Y \in {X, Y} /\ 1 <= L - 1 + 1
        OBVIOUS
      <3> QED BY <1>a, <1>b, <3>1, <3>2
    <2>4. (\E z \in During(R, t) : y.opened < z.opened) => Cardinality(Y) <= L - 1 - 1 + 1
      BY <2>3
    <2> QED BY <1>c, <2>2, <2>4, FS_CardinalityType DEF X, Y
  <1> QED BY <1>9, <1>10

(* The third window of a span has only requests that began before it was    *)
(* opened, and there is no fourth.                                          *)
StaleIn(R, w) == {x \in R : x.opened = w /\ x.at < w}

LEMMA ThirdWindow ==
  ASSUME NEW R \in SUBSET Records, NEW e \in Nat, NEW n \in Nat, NEW L \in Nat,
         NEW c \in Nat, Windows(R, e, n, L, c), NEW t \in Nat,
         NEW x \in During(R, t), NEW y \in During(R, t), NEW z \in During(R, t),
         x.opened < y.opened, y.opened < z.opened
  PROVE  Of(R, t, z.opened) \subseteq StaleIn(R, z.opened)
  <1>1. /\ x \in R /\ y \in R /\ z \in R /\ t <= x.at
        /\ x.opened + Window <= y.opened /\ y.opened + Window <= z.opened
        /\ x.at < x.opened + Window
    BY DEF During, Windows, Apart, Ranked
  <1> SUFFICES ASSUME NEW u \in Of(R, t, z.opened) PROVE u.at < z.opened
    BY DEF Of, During, StaleIn
  <1>2. u \in R /\ u.at < t + Window
    BY DEF Of, During
  <1> QED BY <1>1, <1>2, RecordFacts, TimeFacts

LEMMA NoFourthWindow ==
  ASSUME NEW R \in SUBSET Records, NEW e \in Nat, NEW n \in Nat, NEW L \in Nat,
         NEW c \in Nat, Windows(R, e, n, L, c), NEW t \in Nat,
         NEW x \in During(R, t), NEW y \in During(R, t), NEW z \in During(R, t),
         NEW u \in During(R, t),
         x.opened < y.opened, y.opened < z.opened, z.opened < u.opened
  PROVE  FALSE
  <1>1. /\ x \in R /\ y \in R /\ z \in R /\ u \in R /\ t <= x.at /\ u.at < t + Window
        /\ x.opened + Window <= y.opened /\ y.opened + Window <= z.opened
        /\ z.opened + Window <= u.opened
        /\ x.at < x.opened + Window /\ u.opened <= u.at + Patience
    BY DEF During, Windows, Apart, Ranked
  <1> QED BY <1>1, RecordFacts, TimeFacts, LimitAssumption

LEMMA ThreeWindows ==
  ASSUME NEW R \in SUBSET Records, NEW e \in Nat, NEW n \in Nat, NEW L \in Nat, L > 1,
         NEW c \in Nat, Windows(R, e, n, L, c), NEW t \in Nat, NEW N \in Nat,
         \A v \in R : IsFiniteSet(StaleIn(R, v.opened)) /\ Cardinality(StaleIn(R, v.opened)) + 1 <= N,
         NEW x \in During(R, t), NEW y \in During(R, t), NEW z \in During(R, t),
         x.opened < y.opened, y.opened < z.opened
  PROVE  IsFiniteSet(During(R, t)) /\ Cardinality(During(R, t)) <= 2 * L - 2 + N - 2
  <1> DEFINE X == Of(R, t, x.opened)
             Y == Of(R, t, y.opened)
             Z == Of(R, t, z.opened)
  <1>1. x \in R /\ y \in R /\ z \in R
    BY DEF During
  <1>2. During(R, t) = (X \cup Y) \cup Z
    <2>1. ASSUME NEW u \in During(R, t) PROVE u.opened \in {x.opened, y.opened, z.opened}
      <3> SUFFICES ASSUME u.opened # x.opened, u.opened # y.opened, u.opened # z.opened
                   PROVE  FALSE
        OBVIOUS
      <3>0. /\ u.opened \in Nat /\ x.opened \in Nat /\ y.opened \in Nat /\ z.opened \in Nat
        BY <1>1, RecordFacts DEF During
      <3>1. CASE u.opened < x.opened
        BY <3>1, NoFourthWindow
      <3>2. CASE x.opened < u.opened /\ u.opened < y.opened
        BY <3>2, NoFourthWindow
      <3>3. CASE y.opened < u.opened /\ u.opened < z.opened
        BY <3>3, NoFourthWindow
      <3>4. CASE z.opened < u.opened
        BY <3>4, NoFourthWindow
      <3> QED BY <3>0, <3>1, <3>2, <3>3, <3>4
    <2> QED BY <2>1 DEF Of
  <1>3. /\ IsFiniteSet(X) /\ IsFiniteSet(Y)
        /\ Cardinality(X) + Cardinality(Y) <= 2 * L - 3
    BY TwoWindows
  <1>4. IsFiniteSet(Z) /\ Cardinality(Z) + 1 <= N
    <2>1. Z \in SUBSET StaleIn(R, z.opened)
      BY ThirdWindow
    <2>2. /\ IsFiniteSet(StaleIn(R, z.opened))
          /\ Cardinality(StaleIn(R, z.opened)) + 1 <= N
          /\ Cardinality(StaleIn(R, z.opened)) \in Nat
      BY <1>1, FS_CardinalityType
    <2>3. /\ IsFiniteSet(Z) /\ Cardinality(Z) <= Cardinality(StaleIn(R, z.opened))
          /\ Cardinality(Z) \in Nat
      BY <2>1, <2>2, FS_Subset, FS_CardinalityType
    <2> QED BY <2>2, <2>3
  <1> HIDE DEF X, Y, Z
  <1>5. /\ IsFiniteSet(X \cup Y)
        /\ Cardinality(X \cup Y) <= 2 * L - 3 /\ Cardinality(X \cup Y) \in Nat
    <2>1. /\ IsFiniteSet(X \cup Y) /\ IsFiniteSet(X \cap Y)
          /\ Cardinality(X \cup Y) = Cardinality(X) + Cardinality(Y) - Cardinality(X \cap Y)
      BY <1>3, FS_Union, FS_Intersection
    <2> QED BY <1>3, <2>1, FS_CardinalityType
  <1>6. /\ IsFiniteSet((X \cup Y) \cup Z) /\ IsFiniteSet((X \cup Y) \cap Z)
        /\ Cardinality((X \cup Y) \cup Z)
             = Cardinality(X \cup Y) + Cardinality(Z) - Cardinality((X \cup Y) \cap Z)
    BY <1>4, <1>5, FS_Union, FS_Intersection
  <1> QED BY <1>2, <1>4, <1>5, <1>6, FS_CardinalityType

(* A span as long as the window, whatever its windows.                      *)
LEMMA SpanCount ==
  ASSUME NEW R \in SUBSET Records, NEW e \in Nat, NEW n \in Nat, NEW L \in Nat, L > 1,
         NEW c \in Nat, Windows(R, e, n, L, c), NEW t \in Nat, NEW N \in Nat,
         \A v \in R : IsFiniteSet(StaleIn(R, v.opened)) /\ Cardinality(StaleIn(R, v.opened)) + 1 <= N
  PROVE  /\ IsFiniteSet(During(R, t))
         /\ Cardinality(During(R, t)) <= 2 * L - 2 + (IF N > 2 THEN N - 2 ELSE 0)
  <1> DEFINE D == During(R, t)
  <1>0. D \in SUBSET R /\ Apart(R, e, L) /\ \A u \in D : u.opened \in Nat
    BY RecordFacts DEF During, Windows
  <1>1. CASE \A x, y \in D : x.opened = y.opened
    <2>1. \A u \in D : 1 <= u.rank /\ u.rank <= L
      BY <1>0, RecordFacts DEF Windows, Ranked
    <2>2. 1 \in Nat /\ 1 <= L + 1
      OBVIOUS
    <2>3. IsFiniteSet(D) /\ Cardinality(D) <= L - 1 + 1
      BY <1>0, <1>1, <2>1, <2>2, RankCount
    <2> QED BY <2>3, FS_CardinalityType
  <1>2. CASE \E x, y \in D : x.opened # y.opened
    <2>1. PICK x \in D, y \in D : x.opened < y.opened
      BY <1>0, <1>2
    <2>2. CASE \E u \in D : u.opened # x.opened /\ u.opened # y.opened
      <3>1. PICK u \in D : u.opened # x.opened /\ u.opened # y.opened
        BY <2>2
      <3>2. \E a, b, d \in D : a.opened < b.opened /\ b.opened < d.opened
        <4>1. CASE u.opened < x.opened
          BY <2>1, <4>1
        <4>2. CASE x.opened < u.opened /\ u.opened < y.opened
          BY <4>2
        <4>3. CASE y.opened < u.opened
          BY <2>1, <4>3
        <4> QED BY <1>0, <3>1, <4>1, <4>2, <4>3
      <3>3. IsFiniteSet(D) /\ Cardinality(D) <= 2 * L - 2 + N - 2
        BY <3>2, ThreeWindows
      <3> QED BY <3>3, FS_CardinalityType
    <2>3. CASE \A u \in D : u.opened = x.opened \/ u.opened = y.opened
      <3> DEFINE X == Of(R, t, x.opened)
                 Y == Of(R, t, y.opened)
      <3>1. D = X \cup Y
        BY <2>3 DEF Of
      <3>2. /\ IsFiniteSet(X) /\ IsFiniteSet(Y)
            /\ Cardinality(X) + Cardinality(Y) <= 2 * L - 2
        BY <2>1, TwoWindows
      <3> HIDE DEF X, Y, D
      <3>3. /\ IsFiniteSet(X \cup Y) /\ IsFiniteSet(X \cap Y)
            /\ Cardinality(X \cup Y) = Cardinality(X) + Cardinality(Y) - Cardinality(X \cap Y)
        BY <3>2, FS_Union, FS_Intersection
      <3>4. IsFiniteSet(D) /\ Cardinality(D) <= 2 * L - 2
        BY <3>1, <3>2, <3>3, FS_CardinalityType
      <3> QED BY <3>4, FS_CardinalityType DEF D
    <2> QED BY <2>2, <2>3
  <1> QED BY <1>1, <1>2

-----------------------------------------------------------------------------
(* A request that may still be counted in bucket k.                         *)
Pending(q, k) == \/ pc[q] \in {"checkIp", "insertIp"} /\ (k = ip[q] \/ k = Account)
                 \/ pc[q] \in {"find", "checkAccount", "insertAccount"} /\ k = Account
Behind(k, w) == {q \in Procs : Pending(q, k) /\ now[q] < w}

(* The late requests of a window, counted or not: the one that opened it is *)
(* never among them.                                                        *)
LateFew(k, w) ==
  /\ IsFiniteSet(StaleIn(passed[k], w))
  /\ Cardinality(StaleIn(passed[k], w)) + Cardinality(Behind(k, w)) + 1 <= Cardinality(Procs)
BucketInv(k) ==
  /\ Windows(passed[k], window_end[k], count[k], Limit(k), clock)
  /\ \A x \in passed[k] : LateFew(k, x.opened)
InGapOnly(q) == pc[q] \in {"insertIp", "insertAccount"} => count[Bucket(q)] = 0
WindowInv ==
  TypeInv /\ (\A k \in Keys : BucketInv(k)) /\ (\A q \in Procs : InGapOnly(q))

LEMMA BucketFacts ==
  ASSUME TypeInv, NEW k \in Keys
  PROVE  /\ passed[k] \in SUBSET Records /\ window_end[k] \in Nat /\ count[k] \in Nat
         /\ Limit(k) \in Nat /\ Limit(k) > 1 /\ clock \in Nat
  BY TimeFacts, Bounds DEF TypeInv, TypeOK, Records

LEMMA BehindFacts ==
  ASSUME NEW k, NEW w
  PROVE  /\ IsFiniteSet(Behind(k, w)) /\ Cardinality(Behind(k, w)) \in Nat
         /\ Cardinality(Procs) \in Nat
  <1>1. Behind(k, w) \in SUBSET Procs
    BY DEF Behind
  <1> QED BY <1>1, NameAssumption, FS_Subset, FS_CardinalityType

LEMMA NextBehindFacts ==
  ASSUME NEW k, NEW w
  PROVE  /\ IsFiniteSet(Behind(k, w)') /\ Cardinality(Behind(k, w)') \in Nat
  <1>1. Behind(k, w)' \in SUBSET Procs
    BY DEF Behind
  <1> QED BY <1>1, NameAssumption, FS_Subset, FS_CardinalityType

(* No request falls behind a window that is already there.                  *)
Steady(k) == \A q \in Procs : Pending(q, k)' =>
               (Pending(q, k) /\ now'[q] = now[q]) \/ now'[q] = clock

LEMMA BehindShrinks ==
  ASSUME TypeInv, NEW k \in Keys, Steady(k), NEW w \in Nat, w <= clock
  PROVE  /\ Behind(k, w)' \subseteq Behind(k, w)
         /\ Cardinality(Behind(k, w)') <= Cardinality(Behind(k, w))
  <1>0. clock \in Nat
    BY BucketFacts
  <1>1. Behind(k, w)' \in SUBSET Behind(k, w)
    BY <1>0 DEF Behind, Steady
  <1> QED BY <1>1, BehindFacts, FS_Subset

LEMMA SameBucket ==
  ASSUME TypeInv, TypeInv', NEW k \in Keys, BucketInv(k), Steady(k), clock <= clock',
         passed'[k] = passed[k], window_end'[k] = window_end[k], count'[k] = count[k]
  PROVE  BucketInv(k)'
  <1>1. Windows(passed'[k], window_end'[k], count'[k], Limit(k), clock')
    <2>1. clock' \in Nat
      BY TimeFacts DEF TypeInv, TypeOK
    <2> QED BY <2>1, BucketFacts, ClockKeeps DEF BucketInv
  <1>2. ASSUME NEW x \in passed[k] PROVE LateFew(k, x.opened)'
    <2>1. x.opened \in Nat /\ x.opened <= clock
      BY BucketFacts, RecordFacts DEF BucketInv, Windows, Ranked
    <2>2. /\ IsFiniteSet(StaleIn(passed[k], x.opened))
          /\ Cardinality(StaleIn(passed[k], x.opened)) + Cardinality(Behind(k, x.opened)) + 1
               <= Cardinality(Procs)
      BY DEF BucketInv, LateFew
    <2>3. Cardinality(StaleIn(passed[k], x.opened)) \in Nat
      BY <2>2, FS_CardinalityType
    <2>4. Cardinality(Behind(k, x.opened)') <= Cardinality(Behind(k, x.opened))
      BY <2>1, BehindShrinks
    <2>5. Cardinality(StaleIn(passed[k], x.opened)) + Cardinality(Behind(k, x.opened)') + 1
            <= Cardinality(Procs)
      BY <2>2, <2>3, <2>4, BehindFacts, NextBehindFacts
    <2> QED BY <2>2, <2>5 DEF LateFew
  <1> QED BY <1>1, <1>2 DEF BucketInv

(* A request opens a window: it is not behind it, and nothing is counted    *)
(* in it late yet.                                                          *)
LEMMA ResetBucket ==
  ASSUME TypeInv, TypeInv', NEW p \in Procs, NEW k \in Keys, BucketInv(k), Steady(k),
         pc[p] # "idle", now'[p] = now[p], clock' = clock,
         count[k] = 0 \/ window_end[k] <= now[p],
         Reset(p, k), LetThrough(p, k, now[p])
  PROVE  BucketInv(k)'
  <1> DEFINE R == passed[k]
             new == [opened |-> now[p], rank |-> 1, at |-> now[p]]
  <1>0. now[p] \in Times /\ now[p] \in Nat /\ now[p] <= clock /\ Window \in Nat /\ Window > 0
    <2>1. now[p] \in Times /\ now[p] <= clock
      BY DEF TypeInv, TypeOK, Served
    <2>2. Window \in Nat /\ Window > 0
      BY LimitAssumption
    <2>3. now[p] \in Nat
      BY <2>1, TimeFacts
    <2> QED BY <2>1, <2>2, <2>3
  <1>1. /\ count'[k] = 1 /\ window_end'[k] = now[p] + Window
        /\ passed'[k] = R \cup {new}
    BY DEF TypeInv, TypeOK, Reset, LetThrough
  <1>2. Windows(passed'[k], window_end'[k], count'[k], Limit(k), clock')
    BY <1>0, <1>1, BucketFacts, ResetKeeps DEF BucketInv
  <1>3. \A x \in R : x.opened \in Nat /\ x.opened + Window <= now[p] /\ x.opened <= clock
    BY <1>0, BucketFacts, RecordFacts DEF BucketInv, Windows, Ranked, Started
  <1>4. ASSUME NEW x \in R PROVE LateFew(k, x.opened)'
    <2>1. StaleIn(passed'[k], x.opened) = StaleIn(R, x.opened)
      BY <1>0, <1>1, <1>3 DEF StaleIn
    <2>2. /\ IsFiniteSet(StaleIn(R, x.opened))
          /\ Cardinality(StaleIn(R, x.opened)) + Cardinality(Behind(k, x.opened)) + 1
               <= Cardinality(Procs)
          /\ Cardinality(StaleIn(R, x.opened)) \in Nat
      BY FS_CardinalityType DEF BucketInv, LateFew
    <2>3. Cardinality(Behind(k, x.opened)') <= Cardinality(Behind(k, x.opened))
      BY <1>3, BehindShrinks
    <2> QED BY <2>1, <2>2, <2>3, BehindFacts, NextBehindFacts DEF LateFew
  <1>5. LateFew(k, now[p])'
    <2>1. StaleIn(passed'[k], now[p]) = {}
      BY <1>0, <1>1, <1>3 DEF StaleIn
    <2>2. Behind(k, now[p])' \in SUBSET (Procs \ {p})
      BY <1>0 DEF Behind
    <2>3. /\ IsFiniteSet(Procs \ {p})
          /\ Cardinality(Procs \ {p}) = Cardinality(Procs) - 1
      BY NameAssumption, FS_RemoveElement
    <2>4. Cardinality(Behind(k, now[p])') <= Cardinality(Procs) - 1
      BY <2>2, <2>3, FS_Subset
    <2>5. now'[p] = now[p]
      OBVIOUS
    <2> QED BY <2>1, <2>4, <2>5, FS_EmptySet, BehindFacts, NextBehindFacts DEF LateFew
  <1>6. new.opened = now[p]
    OBVIOUS
  <1> HIDE DEF new, R
  <1> QED BY <1>1, <1>2, <1>4, <1>5, <1>6 DEF BucketInv

(* A request counted in the window that runs: if it began before the window *)
(* was opened it was behind it, and is not any more.                        *)
LEMMA IncrementBucket ==
  ASSUME TypeInv, TypeInv', NEW p \in Procs, NEW k \in Keys, BucketInv(k), Steady(k),
         pc[p] # "idle", clock' = clock, Pending(p, k), ~Pending(p, k)',
         count[k] # 0, ~Full(k), ~Expired(p, k),
         Increment(p, k), LetThrough(p, k, Opened(k))
  PROVE  BucketInv(k)'
  <1> DEFINE R == passed[k]
             o == Opened(k)
             new == [opened |-> o, rank |-> count[k] + 1, at |-> now[p]]
  <1>0. /\ now[p] \in Times /\ now[p] \in Nat /\ now[p] <= clock /\ clock <= now[p] + Patience
        /\ now[p] < window_end[k] /\ o \in Times /\ o \in Nat
        /\ 0 < count[k] /\ count[k] < Limit(k)
    <2>1. now[p] \in Times /\ now[p] <= clock /\ clock <= now[p] + Patience /\ o \in Times
      BY DEF TypeInv, TypeOK, Served, Dated
    <2>2. now[p] \in Nat /\ o \in Nat
      BY <2>1, TimeFacts
    <2>3. now[p] < window_end[k] /\ 0 < count[k] /\ count[k] < Limit(k)
      BY <2>2, BucketFacts DEF Expired, Full
    <2> QED BY <2>1, <2>2, <2>3
  <1>1. /\ count'[k] = count[k] + 1
        /\ window_end'[k] = IF count[k] + 1 >= Limit(k) THEN now[p] + Lock ELSE window_end[k]
        /\ passed'[k] = R \cup {new}
    BY DEF TypeInv, TypeOK, Increment, Reaches, LetThrough
  <1>2. Windows(passed'[k], window_end'[k], count'[k], Limit(k), clock')
    <2>1. window_end'[k] \in Nat
      BY TimeFacts DEF TypeInv, TypeOK
    <2>2. window_end[k] - Window \in Times
      BY <1>0 DEF Opened
    <2> QED BY <1>0, <1>1, <2>1, <2>2, BucketFacts, IncrementKeeps DEF BucketInv, Opened
  <1>3. \A x \in R : x.opened \in Nat /\ x.opened <= clock
    BY BucketFacts, RecordFacts DEF BucketInv, Windows, Ranked
  <1>4. \E x \in R : x.opened = o
    <2>1. count[k] \in 1..(Limit(k) - 1)
      BY <1>0, BucketFacts
    <2>2. PICK x \in R : x.opened + Window = window_end[k]
      BY <2>1 DEF BucketInv, Windows, Started
    <2> QED BY <1>3, <2>2, BucketFacts, TimeFacts DEF Opened
  <1>5. ASSUME NEW x \in R PROVE LateFew(k, x.opened)'
    <2> DEFINE w == x.opened
    <2>1. /\ IsFiniteSet(StaleIn(R, w)) /\ Cardinality(StaleIn(R, w)) \in Nat
          /\ Cardinality(StaleIn(R, w)) + Cardinality(Behind(k, w)) + 1 <= Cardinality(Procs)
      BY FS_CardinalityType DEF BucketInv, LateFew
    <2>2. /\ Behind(k, w)' \subseteq Behind(k, w)
          /\ Cardinality(Behind(k, w)') <= Cardinality(Behind(k, w))
      BY <1>3, BehindShrinks
    <2>3. CASE w = o /\ now[p] < w
      <3>1. /\ StaleIn(passed'[k], w) \subseteq StaleIn(R, w) \cup {new}
            /\ StaleIn(R, w) \cup {new} \subseteq StaleIn(passed'[k], w)
        BY <1>1, <2>3 DEF StaleIn
      <3>2. /\ IsFiniteSet(StaleIn(passed'[k], w))
            /\ Cardinality(StaleIn(passed'[k], w)) <= Cardinality(StaleIn(R, w)) + 1
            /\ Cardinality(StaleIn(passed'[k], w)) \in Nat
        <4>1. StaleIn(passed'[k], w) = StaleIn(R, w) \cup {new}
          BY <3>1
        <4> HIDE DEF new
        <4>2. /\ IsFiniteSet(StaleIn(R, w) \cup {new})
              /\ Cardinality(StaleIn(R, w) \cup {new}) <= Cardinality(StaleIn(R, w)) + 1
          <5> DEFINE A == StaleIn(R, w)
          <5>1. IsFiniteSet(A) /\ Cardinality(A) \in Nat
            BY <2>1
          <5> HIDE DEF A
          <5>2. /\ IsFiniteSet(A \cup {new})
                /\ Cardinality(A \cup {new}) = IF new \in A THEN Cardinality(A) ELSE Cardinality(A) + 1
            BY <5>1, FS_AddElement
          <5>3. IsFiniteSet(A \cup {new}) /\ Cardinality(A \cup {new}) <= Cardinality(A) + 1
            BY <5>1, <5>2
          <5> QED BY <5>3 DEF A
        <4> QED BY <4>1, <4>2, FS_CardinalityType
      <3>3. Cardinality(Behind(k, w)') + 1 <= Cardinality(Behind(k, w))
        <4>1. p \in Behind(k, w)
          BY <2>3 DEF Behind
        <4>2. Behind(k, w)' \in SUBSET (Behind(k, w) \ {p})
          BY <2>2 DEF Behind
        <4>3. /\ IsFiniteSet(Behind(k, w) \ {p})
              /\ Cardinality(Behind(k, w) \ {p}) = Cardinality(Behind(k, w)) - 1
          BY <4>1, BehindFacts, FS_RemoveElement
        <4>4. Cardinality(Behind(k, w)') <= Cardinality(Behind(k, w) \ {p})
          BY <4>2, <4>3, FS_Subset
        <4> QED BY <4>3, <4>4, BehindFacts, NextBehindFacts
      <3> QED BY <2>1, <3>2, <3>3, BehindFacts, NextBehindFacts DEF LateFew
    <2>4. CASE ~(w = o /\ now[p] < w)
      <3>1. StaleIn(passed'[k], w) = StaleIn(R, w)
        BY <1>1, <2>4 DEF StaleIn
      <3> QED BY <2>1, <2>2, <3>1, BehindFacts, NextBehindFacts DEF LateFew
    <2> QED BY <2>3, <2>4
  <1>6. new.opened = o
    OBVIOUS
  <1> HIDE DEF new, R, o
  <1> QED BY <1>1, <1>2, <1>4, <1>5, <1>6 DEF BucketInv

-----------------------------------------------------------------------------
(* The requests on their way: who is pending after a step was pending       *)
(* before, or begins now; who waits in a gap waits for a row that is not    *)
(* there.                                                                   *)
Others(p) == \A q \in Procs \ {p} : UNCHANGED <<pc[q], now[q], ip[q]>>

LEMMA PendingAlone ==
  ASSUME TypeInv, NEW p \in Procs, Others(p),
         \A k \in Keys : Pending(p, k)' => (Pending(p, k) /\ now'[p] = now[p]) \/ now'[p] = clock
  PROVE  \A k \in Keys : Steady(k)
  BY DEF Others, Steady, Pending

LEMMA ReturnOthers ==
  ASSUME TypeInv, NEW p \in Procs, Return(p)
  PROVE  pc'[p] = "idle" /\ Others(p) /\ \A k \in Keys : Steady(k)
  <1>1. pc'[p] = "idle" /\ Others(p)
    BY DEF Return, End, Others
  <1> QED BY <1>1, PendingAlone DEF Pending

LEMMA GotoOthers ==
  ASSUME TypeInv, NEW p \in Procs, NEW label, Goto(p, label), UNCHANGED <<now, ip>>,
         \A k \in Keys : Pending(p, k)' => Pending(p, k)
  PROVE  pc'[p] = label /\ Others(p) /\ \A k \in Keys : Steady(k)
  <1>1. pc'[p] = label /\ Others(p)
    BY DEF TypeInv, TypeOK, Goto, Others
  <1> QED BY <1>1, PendingAlone

(* Steps that leave the rows alone and send nobody into a gap.              *)
LEMMA SameGap ==
  ASSUME WindowInv, NEW p \in Procs, Others(p), count' = count,
         pc'[p] \notin {"insertIp", "insertAccount"}
  PROVE  \A q \in Procs : InGapOnly(q)'
  BY DEF WindowInv, InGapOnly, Others, Bucket

LEMMA SameRows ==
  ASSUME WindowInv, TypeInv', UNCHANGED <<count, window_end, passed>>, clock <= clock',
         \A k \in Keys : Steady(k)
  PROVE  \A k \in Keys : BucketInv(k)'
  BY SameBucket DEF WindowInv

LEMMA AfterFacts ==
  ASSUME TypeInv, NEW p \in Procs, NEW k, k = Bucket(p),
         pc[p] \in {"checkIp", "insertIp", "checkAccount", "insertAccount"}, ip'[p] = ip[p],
         pc'[p] = After(p)
  PROVE  /\ pc[p] # "idle" /\ Pending(p, k) /\ ~Pending(p, k)'
         /\ pc'[p] \notin {"insertIp", "insertAccount"}
         /\ \A j \in Keys : Pending(p, j)' => Pending(p, j)
  <1>1. pc[p] # "idle"
    OBVIOUS
  <1>2. ip[p] \in Ips /\ ip[p] # Account
    BY <1>1, NameAssumption DEF TypeInv, Served
  <1>3. CASE pc[p] \in {"checkIp", "insertIp"}
    <2>1. k = ip[p] /\ pc'[p] = "find"
      BY <1>3 DEF Bucket, After
    <2>2. ~Pending(p, k)'
      BY <1>2, <2>1 DEF Pending
    <2> QED BY <1>1, <1>3, <2>1, <2>2 DEF Pending
  <1>4. CASE pc[p] \in {"checkAccount", "insertAccount"}
    <2>1. k = Account /\ pc'[p] = "verify"
      BY <1>4 DEF Bucket, After
    <2> QED BY <1>1, <1>4, <2>1 DEF Pending
  <1> QED BY <1>3, <1>4

LEMMA CheckWindow ==
  ASSUME WindowInv, TypeInv', NEW p \in Procs, Check(p)
  PROVE  (\A k \in Keys : BucketInv(k)') /\ (\A q \in Procs : InGapOnly(q)')
  <1>a. TypeInv /\ pc[p] \in {"checkIp", "checkAccount"} /\ Bucket(p) \in Keys
    BY BucketType DEF WindowInv, Check
  <1>b. PICK k \in Keys : k = Bucket(p)
    BY <1>a
  <1>0. /\ TypeInv /\ pc[p] \in {"checkIp", "checkAccount"} /\ count[k] # 0 /\ clock' = clock
    BY <1>a, <1>b DEF Check, Missing
  <1>1. CASE Deny(p, k)
    <2>1. UNCHANGED <<count, window_end, passed>> /\ clock <= clock'
      BY <1>0, <1>1, NumberFacts DEF Deny, buckets
    <2>2. pc'[p] = "idle" /\ Others(p) /\ \A j \in Keys : Steady(j)
      BY <1>0, <1>1, ReturnOthers DEF Deny
    <2> QED BY <2>1, <2>2, SameRows, SameGap
  <1>2. CASE Allow(p, k)
    <2>1. /\ pc' = [pc EXCEPT ![p] = After(p)] /\ UNCHANGED <<now, ip>>
          /\ Goto(p, After(p))
      BY <1>2 DEF Allow, locals, Goto
    <2>2. pc'[p] = After(p)
      BY <1>0, <2>1 DEF TypeInv, TypeOK
    <2>3. /\ pc[p] # "idle" /\ Pending(p, k) /\ ~Pending(p, k)'
          /\ pc'[p] \notin {"insertIp", "insertAccount"}
          /\ \A j \in Keys : Pending(p, j)' => Pending(p, j)
      BY <1>0, <1>b, <2>1, <2>2, AfterFacts
    <2>4. Others(p) /\ \A j \in Keys : Steady(j)
      BY <1>0, <2>1, <2>3, GotoOthers
    <2>5. \/ Expired(p, k) /\ Reset(p, k) /\ LetThrough(p, k, now[p])
          \/ ~Expired(p, k) /\ ~Full(k) /\ Increment(p, k) /\ LetThrough(p, k, Opened(k))
      BY <1>2 DEF Allow, Opened
    <2>6. \A j \in Keys \ {k} :
            passed'[j] = passed[j] /\ window_end'[j] = window_end[j] /\ count'[j] = count[j]
      BY <1>0, <2>5 DEF Reset, Increment, LetThrough, TypeInv, TypeOK
    <2>7. BucketInv(k)'
      <3>1. BucketInv(k) /\ Steady(k) /\ now'[p] = now[p]
        BY <2>1, <2>3, <2>4 DEF WindowInv
      <3>2. CASE Expired(p, k) /\ Reset(p, k) /\ LetThrough(p, k, now[p])
        BY <1>0, <2>3, <3>1, <3>2, ResetBucket DEF Expired
      <3>3. CASE ~Expired(p, k) /\ ~Full(k) /\ Increment(p, k) /\ LetThrough(p, k, Opened(k))
        BY <1>0, <2>3, <3>1, <3>3, IncrementBucket
      <3> QED BY <2>5, <3>2, <3>3
    <2>8. ASSUME NEW j \in Keys \ {k} PROVE BucketInv(j)'
      <3>1. BucketInv(j) /\ Steady(j) /\ clock <= clock'
        BY <1>0, <2>4, NumberFacts DEF WindowInv
      <3> QED BY <1>0, <2>6, <3>1, SameBucket
    <2>9. ASSUME NEW q \in Procs PROVE InGapOnly(q)'
      <3> SUFFICES ASSUME pc'[q] \in {"insertIp", "insertAccount"}
                   PROVE  count'[Bucket(q)'] = 0
        BY DEF InGapOnly
      <3>1. q # p /\ pc'[q] = pc[q] /\ ip'[q] = ip[q] /\ count[Bucket(q)] = 0
        BY <2>3, <2>4 DEF Others, WindowInv, InGapOnly
      <3>2. Bucket(q)' = Bucket(q) /\ Bucket(q) # k /\ Bucket(q) \in Keys
        BY <1>0, <3>1, BucketType DEF Bucket
      <3> QED BY <2>6, <3>1, <3>2
    <2> QED BY <2>7, <2>8, <2>9
  <1> QED BY <1>b, <1>1, <1>2 DEF Check

LEMMA InsertWindow ==
  ASSUME WindowInv, TypeInv', NEW p \in Procs, Insert(p)
  PROVE  (\A k \in Keys : BucketInv(k)') /\ (\A q \in Procs : InGapOnly(q)')
  <1>a. TypeInv /\ pc[p] \in {"insertIp", "insertAccount"} /\ Bucket(p) \in Keys
    BY BucketType DEF WindowInv, Insert
  <1>b. PICK k \in Keys : k = Bucket(p)
    BY <1>a
  <1>c. PICK P \in SUBSET Procs : P = InGap(k) \ {p}
    BY DEF InGap
  <1>0. /\ TypeInv /\ pc[p] \in {"insertIp", "insertAccount"} /\ clock' = clock
        /\ Reset(p, k) /\ LetThrough(p, k, now[p]) /\ count[k] = 0
    BY <1>a, <1>b DEF WindowInv, Insert, InGapOnly
  <1>1. /\ pc'[p] = After(p) /\ now'[p] = now[p] /\ ip'[p] = ip[p]
        /\ \A q \in P : pc'[q] = "idle"
        /\ \A q \in Procs \ (P \cup {p}) : UNCHANGED <<pc[q], now[q], ip[q]>>
    <2>1. End(P, p, After(p)) /\ p \notin P
      BY <1>b, <1>c DEF Insert
    <2> QED BY <2>1 DEF End
  <1>2. /\ pc[p] # "idle" /\ pc'[p] \notin {"insertIp", "insertAccount"}
        /\ \A j \in Keys : Pending(p, j)' => Pending(p, j)
    BY <1>0, <1>1, <1>b, AfterFacts
  <1>3. ASSUME NEW j \in Keys PROVE Steady(j)
    <2> SUFFICES ASSUME NEW q \in Procs, Pending(q, j)'
                 PROVE  Pending(q, j) /\ now'[q] = now[q]
      BY DEF Steady
    <2>1. q \notin P
      BY <1>1 DEF Pending
    <2> QED BY <1>1, <1>2, <2>1 DEF Pending
  <1>4. \A j \in Keys \ {k} :
          passed'[j] = passed[j] /\ window_end'[j] = window_end[j] /\ count'[j] = count[j]
    BY <1>0 DEF Reset, LetThrough, TypeInv, TypeOK
  <1>5. BucketInv(k)'
    <2>1. BucketInv(k) /\ Steady(k)
      BY <1>2, <1>3 DEF WindowInv
    <2> QED BY <1>0, <1>1, <1>2, <2>1, ResetBucket
  <1>6. ASSUME NEW j \in Keys \ {k} PROVE BucketInv(j)'
    <2>1. BucketInv(j) /\ Steady(j) /\ clock <= clock'
      BY <1>0, <1>3, NumberFacts DEF WindowInv
    <2> QED BY <1>0, <1>4, <2>1, SameBucket
  <1>7. ASSUME NEW q \in Procs PROVE InGapOnly(q)'
    <2> SUFFICES ASSUME pc'[q] \in {"insertIp", "insertAccount"}
                 PROVE  count'[Bucket(q)'] = 0
      BY DEF InGapOnly
    <2>1. q # p /\ q \notin P /\ pc'[q] = pc[q] /\ ip'[q] = ip[q]
      BY <1>1, <1>2
    <2>2. /\ Bucket(q)' = Bucket(q) /\ Bucket(q) # k /\ Bucket(q) \in Keys
          /\ count[Bucket(q)] = 0
      BY <1>0, <1>c, <2>1, BucketType DEF Bucket, InGap, WindowInv, InGapOnly
    <2> QED BY <1>4, <2>2
  <1> QED BY <1>5, <1>6, <1>7

LEMMA WindowInit == Init => WindowInv
  <1> SUFFICES ASSUME Init PROVE WindowInv
    OBVIOUS
  <1>1. ASSUME NEW k \in Keys PROVE BucketInv(k)
    <2>1. passed[k] = {} /\ count[k] = 0
      BY <1>1 DEF Init
    <2> QED BY <2>1 DEF BucketInv, Windows, Ranked, Apart, Filled, Started
  <1>2. ASSUME NEW q \in Procs PROVE InGapOnly(q)
    BY DEF Init, InGapOnly
  <1> QED BY <1>1, <1>2, TypeInit DEF WindowInv

LEMMA WindowStep == WindowInv /\ [Next]_vars => WindowInv'
  <1> SUFFICES ASSUME WindowInv, [Next]_vars PROVE WindowInv'
    OBVIOUS
  <1> DEFINE Kept == (\A k \in Keys : BucketInv(k)') /\ (\A q \in Procs : InGapOnly(q)')
  <1>0. TypeInv /\ TypeInv' /\ clock \in Nat
    BY TypeStep, NumberFacts DEF WindowInv
  <1> SUFFICES Kept
    BY <1>0 DEF WindowInv
  <1>1. ASSUME NEW p \in Procs, NEW i \in Ips, Begin(p, i) PROVE Kept
    <2>1. /\ pc' = [pc EXCEPT ![p] = "checkIp"] /\ now' = [now EXCEPT ![p] = clock]
          /\ ip' = [ip EXCEPT ![p] = i]
          /\ UNCHANGED <<clock, count, window_end, passed>>
      BY <1>1 DEF Begin, Goto, buckets
    <2>2. pc'[p] = "checkIp" /\ now'[p] = clock /\ Others(p)
      BY <1>0, <2>1 DEF TypeInv, TypeOK, Others
    <2>3. \A k \in Keys : Steady(k)
      BY <1>0, <2>2, PendingAlone
    <2> QED BY <1>0, <2>1, <2>2, <2>3, SameRows, SameGap
  <1>2. ASSUME NEW p \in Procs, CheckNoRow(p) PROVE Kept
    <2>1. /\ pc[p] \in {"checkIp", "checkAccount"} /\ count[Bucket(p)] = 0
          /\ UNCHANGED <<clock, count, window_end, now, ip, passed>>
      BY <1>2 DEF CheckNoRow, Missing, buckets, locals
    <2>2. PICK label \in {"insertIp", "insertAccount"} :
            Goto(p, label) /\ (label = "insertIp" <=> pc[p] = "checkIp")
      BY <1>2 DEF CheckNoRow
    <2>3. pc'[p] = label
      BY <1>0, <2>2 DEF Goto, TypeInv, TypeOK
    <2>4. \A k \in Keys : Pending(p, k)' => Pending(p, k)
      BY <2>1, <2>2, <2>3 DEF Pending
    <2>5. Others(p) /\ \A k \in Keys : Steady(k)
      BY <1>0, <2>1, <2>2, <2>4, GotoOthers
    <2>6. Bucket(p)' = Bucket(p)
      BY <2>1, <2>2, <2>3 DEF Bucket
    <2>7. \A q \in Procs : InGapOnly(q)'
      BY <2>1, <2>5, <2>6 DEF WindowInv, InGapOnly, Others, Bucket
    <2> QED BY <1>0, <2>1, <2>5, <2>7, SameRows
  <1>3. ASSUME NEW p \in Procs, Return(p), UNCHANGED <<clock, count, window_end, passed>>
        PROVE  Kept
    BY <1>0, <1>3, ReturnOthers, SameRows, SameGap
  <1>4. ASSUME NEW p \in Procs,
               \/ FindUnknown(p) \/ FindLocked(p) \/ Succeed(p) \/ SetLock(p) \/ Abort(p)
        PROVE  Kept
    BY <1>3, <1>4 DEF FindUnknown, FindLocked, Succeed, SetLock, Abort, buckets
  <1>5. ASSUME NEW p \in Procs, FindUser(p) PROVE Kept
    <2>1. pc[p] = "find" /\ Goto(p, "checkAccount")
          /\ UNCHANGED <<clock, count, window_end, now, ip, passed>>
      BY <1>5 DEF FindUser, buckets
    <2>2. pc'[p] = "checkAccount"
      BY <1>0, <2>1 DEF Goto, TypeInv, TypeOK
    <2>3. \A k \in Keys : Pending(p, k)' => Pending(p, k)
      BY <2>1, <2>2 DEF Pending
    <2>4. Others(p) /\ \A k \in Keys : Steady(k)
      BY <1>0, <2>1, <2>3, GotoOthers
    <2> QED BY <1>0, <2>1, <2>2, <2>4, SameRows, SameGap
  <1>6. ASSUME NEW p \in Procs, Fail(p) PROVE Kept
    <2>1. pc[p] = "verify" /\ UNCHANGED <<clock, count, window_end, passed>>
      BY <1>6 DEF Fail, buckets
    <2>2. CASE Return(p)
      BY <1>3, <2>1, <2>2
    <2>3. CASE Goto(p, "lock") /\ UNCHANGED locals
      <3>1. UNCHANGED <<now, ip>> /\ pc'[p] = "lock"
        BY <1>0, <2>3 DEF locals, Goto, TypeInv, TypeOK
      <3>2. \A k \in Keys : Pending(p, k)' => Pending(p, k)
        BY <3>1 DEF Pending
      <3>3. Others(p) /\ \A k \in Keys : Steady(k)
        BY <1>0, <2>3, <3>1, <3>2, GotoOthers
      <3> QED BY <1>0, <2>1, <3>1, <3>3, SameRows, SameGap
    <2> QED BY <1>6, <2>2, <2>3 DEF Fail
  <1>7. ASSUME Tick \/ UNCHANGED vars PROVE Kept
    <2>1. UNCHANGED <<count, window_end, pc, now, ip, passed>> /\ clock <= clock'
      BY <1>0, <1>7 DEF Tick, buckets, locals, vars
    <2>2. \A k \in Keys : Steady(k)
      BY <2>1 DEF Steady, Pending
    <2>3. \A q \in Procs : InGapOnly(q)'
      BY <2>1 DEF WindowInv, InGapOnly, Bucket
    <2> QED BY <1>0, <2>1, <2>2, <2>3, SameRows
  <1> QED
    BY <1>0, <1>1, <1>2, <1>4, <1>5, <1>6, <1>7, CheckWindow, InsertWindow DEF Next, Serve

(* Whatever the limits, the durations, the number of addresses and          *)
(* processes and the order their requests are served in, no span as long as *)
(* a window begins with twice the limit of a bucket or more that it lets    *)
(* through, and one more for each process beyond two.                       *)
THEOREM WindowCorrect == Spec => []WindowBound
  <1>1. WindowInv => WindowBound
    <2> SUFFICES ASSUME WindowInv, NEW k \in Keys, NEW t \in Times
                 PROVE  Cardinality(Span(k, t)) <= 2 * Limit(k) - 2 + Beyond
      BY DEF WindowBound
    <2>1. TypeInv /\ BucketInv(k)
      BY DEF WindowInv
    <2>2. t \in Nat /\ Cardinality(Procs) \in Nat
      BY TimeFacts, Bounds
    <2>3. Span(k, t) = During(passed[k], t)
      BY DEF Span, During
    <2>4. ASSUME NEW v \in passed[k]
          PROVE  /\ IsFiniteSet(StaleIn(passed[k], v.opened))
                 /\ Cardinality(StaleIn(passed[k], v.opened)) + 1 <= Cardinality(Procs)
      <3>1. LateFew(k, v.opened)
        BY <2>1 DEF BucketInv
      <3> QED BY <3>1, BehindFacts, FS_CardinalityType DEF LateFew
    <2>5. /\ passed[k] \in SUBSET Records /\ window_end[k] \in Nat /\ count[k] \in Nat
          /\ Limit(k) \in Nat /\ Limit(k) > 1 /\ clock \in Nat
          /\ Windows(passed[k], window_end[k], count[k], Limit(k), clock)
      BY <2>1, BucketFacts DEF BucketInv
    <2> QED BY <2>2, <2>3, <2>4, <2>5, SpanCount DEF Beyond
  <1> QED BY <1>1, WindowInit, WindowStep, PTL DEF Spec
===============================================================================
